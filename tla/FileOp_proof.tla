----------------------------- MODULE FileOp_proof -----------------------------
(***************************************************************************)
(* Proofs about FileOp, for any processes, threads, descriptors, programs  *)
(* and map sizes.                                                          *)
(***************************************************************************)
EXTENDS FileOp, TLAPS

\* Leaves are for Zenon; those about numbers and records of several fields name SMT.
USE ZenonT(20)

TypeOK ==
    /\ program \in Programs
    /\ table \in [Procs -> [Fds -> FileRecords \cup {None}]]
    /\ call \in [Threads -> CallRecords \cup {None}]
    /\ ptr \in [Threads -> PtrRecords \cup {None}]
    /\ inflight_open \in [Threads -> OpenRecords \cup {None}]
    /\ inflight_write \in [Threads -> Fds \cup {None}]
    /\ fd_paths \in [Procs -> [Fds -> EntryRecords \cup {None}]]
    /\ unreported \in [Procs -> Int]

\* What a call in progress has returned so far.
Returned ==
    \A t \in Threads : call[t] # None =>
        IF call[t].done THEN call[t].sys = "write" => call[t].ret \in Int
        ELSE call[t].ret = None

\* A pointer leads to an entry that is there, or to a free element, which is
\* never the one it was made for, and only a write that is being counted has one.
PtrLive ==
    \A t \in Threads : ptr[t] # None =>
        /\ ptr[t].at # Freed => fd_paths[ptr[t].at[1]][ptr[t].at[2]] # None
        /\ ptr[t].fresh => ptr[t].at # Freed
        /\ InCall(t, "write") /\ call[t].done

Shape == TypeOK /\ Returned /\ PtrLive

-----------------------------------------------------------------------------
(* Two-level maps, one place of which is set. *)

LEMMA SetPlace ==
    ASSUME NEW A, NEW B, NEW V, NEW m \in [A -> [B -> V]], NEW a \in A, NEW b \in B, NEW v
    PROVE  /\ v \in V => [m EXCEPT ![a][b] = v] \in [A -> [B -> V]]
           /\ \A x \in A, y \in B : [m EXCEPT ![a][b] = v][x][y] =
                IF x = a /\ y = b THEN v ELSE m[x][y]
OBVIOUS

LEMMA Joined ==
    ASSUME NEW s \in Paths, NEW r \in Paths
    PROVE  /\ s \o r \in Paths
           /\ Range(s \o r) \subseteq Range(s) \cup Range(r)
           /\ IsAbsolute(s \o r) <=> IsAbsolute(s)
<1>1. s \in Seq(STRING) /\ r \in Seq(STRING) /\ Len(s) > 0
  BY SMTT(20) DEF Paths
<1>2. s \o r \in Seq(STRING) /\ Len(s \o r) = Len(s) + Len(r)
  BY <1>1, SMTT(20)
<1>3. s \o r # << >>
  BY <1>1, <1>2, SMTT(20)
<1>4. \A k \in DOMAIN (s \o r) : (s \o r)[k] \in Range(s) \cup Range(r)
  <2> SUFFICES ASSUME NEW k \in DOMAIN (s \o r)
               PROVE  (s \o r)[k] \in Range(s) \cup Range(r)
    OBVIOUS
  <2>1. CASE k <= Len(s)
    BY <1>1, <1>2, <2>1, SMTT(20) DEF Range
  <2>2. CASE ~(k <= Len(s))
    <3>1. k - Len(s) \in DOMAIN r /\ (s \o r)[k] = r[k - Len(s)]
      BY <1>1, <1>2, <2>2, SMTT(20)
    <3> QED
      BY <3>1 DEF Range
  <2> QED
    BY <2>1, <2>2
<1>5. Head(s \o r) = Head(s)
  BY <1>1, <1>2, SMTT(20)
<1> QED
  BY <1>2, <1>3, <1>4, <1>5 DEF Paths, Range, IsAbsolute

\* The end of a longer path.
LEMMA EndOf ==
    ASSUME NEW s \in Paths, NEW r \in Paths
    PROVE  \E k \in 0 .. Len(s \o r) : r = SubSeq(s \o r, k + 1, Len(s \o r))
<1>1. s \in Seq(STRING) /\ r \in Seq(STRING)
  BY DEF Paths
<1>2. s \o r \in Seq(STRING) /\ Len(s \o r) = Len(s) + Len(r)
  BY <1>1, SMTT(20)
<1>3. r = SubSeq(s \o r, Len(s) + 1, Len(s \o r))
  BY <1>1, <1>2, SMTT(20)
<1>4. Len(s) \in 0 .. Len(s \o r)
  BY <1>1, <1>2, SMTT(20)
<1> QED
  BY <1>3, <1>4

LEMMA NamesJoined ==
    ASSUME NEW s \in Paths, NEW r \in Paths, NEW q \in Paths, NamesPath(s, r)
    PROVE  NamesPath(s \o q, r \o q)
<1>1. s \in Seq(STRING) /\ r \in Seq(STRING) /\ q \in Seq(STRING)
  BY DEF Paths
<1>2. /\ s \o q \in Seq(STRING) /\ Len(s \o q) = Len(s) + Len(q)
      /\ r \o q \in Seq(STRING) /\ Len(r \o q) = Len(r) + Len(q)
  BY <1>1, SMTT(20)
<1>3. CASE IsAbsolute(s)
  BY <1>3, Joined DEF NamesPath
<1>4. CASE ~IsAbsolute(s)
  <2>1. PICK k \in 0 .. Len(r) : s = SubSeq(r, k + 1, Len(r))
    BY <1>4 DEF NamesPath
  <2>2. Len(s) = Len(r) - k /\ \A i \in 1 .. Len(s) : s[i] = r[k + i]
    BY <1>1, <2>1, SMTT(20)
  <2>3. PICK v \in Seq(STRING), w \in Seq(STRING) :
          v = s \o q /\ w = r \o q /\ Len(v) = Len(s) + Len(q) /\ Len(w) = Len(r) + Len(q)
    BY <1>2
  <2>4. ASSUME NEW i \in 1 .. Len(s \o q)
        PROVE  (s \o q)[i] = (r \o q)[k + i]
    <3>1. CASE i <= Len(s)
      BY <1>1, <1>2, <2>2, <3>1, SMTT(20)
    <3>2. CASE ~(i <= Len(s))
      <4>1. (s \o q)[i] = q[i - Len(s)]
        BY <1>1, <1>2, <3>2, SMTT(20)
      <4>2. (r \o q)[k + i] = q[(k + i) - Len(r)]
        <5>1. k + i \in 1 .. Len(r) + Len(q) /\ ~(k + i <= Len(r))
          BY <1>1, <1>2, <2>2, <3>2, SMTT(20)
        <5> QED
          BY <1>1, <5>1, SMTT(20)
      <4>3. (k + i) - Len(r) = i - Len(s)
        BY <1>1, <2>2, SMTT(20)
      <4> QED
        BY <4>1, <4>2, <4>3
    <3> QED
      BY <3>1, <3>2
  <2>5. v = SubSeq(w, k + 1, Len(w))
    <3>1. k \in Nat /\ k + 1 \in Nat /\ k <= Len(w) /\ Len(w) - k = Len(v)
      BY <1>1, <2>2, <2>3, SMTT(20)
    <3>2. PICK x \in Seq(STRING) : x = SubSeq(w, k + 1, Len(w))
      <4>1. Len(w) \in Nat
        BY SMTT(20)
      <4>2. SubSeq(w, k + 1, Len(w)) \in Seq(STRING)
        BY <3>1, <4>1, SMTT(20)
      <4> QED
        BY <4>2
    <3>3. Len(x) = Len(v)
      BY <3>1, <3>2, SMTT(20)
    <3>4. \A i \in 1 .. Len(v) : x[i] = w[k + i]
      BY <3>1, <3>2, SMTT(20)
    <3>5. \A i \in 1 .. Len(v) : v[i] = w[k + i]
      BY <2>3, <2>4
    <3> QED
      BY <3>2, <3>3, <3>4, <3>5, SMTT(20)
  <2>6. k \in 0 .. Len(r \o q)
    BY <1>1, <1>2, SMTT(20)
  <2> QED
    BY <1>4, <2>3, <2>5, <2>6, Joined DEF NamesPath
<1> QED
  BY <1>3, <1>4

-----------------------------------------------------------------------------
(* The shape of the state. *)

LEMMA Programs1 ==
    ASSUME Shape
    PROVE  /\ \A t \in Threads : ProcOf(t) \in Procs
           /\ program.fds \subseteq Fds
           /\ \A p \in Procs : program.names[p] \subseteq Paths
           /\ program.mmaps \subseteq {"mmap_read", "mmap_write"}
           /\ program.shared \in BOOLEAN
           /\ program.bytes \in Nat
BY FileOpAssumption DEF Shape, TypeOK, ProcOf

LEMMA Values ==
    ASSUME Shape
    PROVE  /\ \A p \in Procs, fd \in Fds :
                /\ table[p][fd] # None => table[p][fd] \in FileRecords
                /\ fd_paths[p][fd] # None => fd_paths[p][fd] \in EntryRecords
           /\ \A t \in Threads :
                /\ call[t] # None => call[t] \in CallRecords
                /\ ptr[t] # None => ptr[t] \in PtrRecords
                /\ inflight_open[t] # None => inflight_open[t] \in OpenRecords
                /\ inflight_write[t] # None => inflight_write[t] \in Fds
BY DEF Shape, TypeOK

LEMMA OpenCall ==
    ASSUME Shape, NEW t \in Threads, InCall(t, "open")
    PROVE  /\ call[t] \in [sys : {"open"}, fds : SUBSET Fds, arg : (Fds \cup {AT_FDCWD}) \X Paths,
                            done : BOOLEAN, ret : Fds \cup {None}]
           /\ ~call[t].done => call[t].ret = None
BY Values DEF InCall, Idle, CallRecords, Shape, Returned

LEMMA WriteCall ==
    ASSUME Shape, NEW t \in Threads, InCall(t, "write")
    PROVE  /\ call[t] \in [sys : {"write"}, fds : {{fd} : fd \in Fds}, arg : Nat, done : BOOLEAN,
                            ret : Int \cup {None}]
           /\ call[t].done => call[t].ret \in Int
BY Values DEF InCall, Idle, CallRecords, Shape, Returned

LEMMA CloseCall ==
    ASSUME Shape, NEW t \in Threads, InCall(t, "close")
    PROVE  call[t] \in [sys : {"close"}, fds : {{fd} : fd \in Fds}, arg : {None}, done : {FALSE},
                        ret : {None}]
BY Values DEF InCall, Idle, CallRecords

LEMMA OneFd ==
    ASSUME Shape, NEW t \in Threads, InCall(t, "write") \/ InCall(t, "close")
    PROVE  LET fd == CHOOSE f \in call[t].fds : TRUE IN fd \in Fds /\ call[t].fds = {fd}
<1>1. PICK fd \in Fds : call[t].fds = {fd}
  BY WriteCall, CloseCall
<1> QED
  BY <1>1

\* Paths and the entries they are joined with.
LEMMA Resolved ==
    ASSUME Shape, NEW p \in Procs, NEW dirfd \in Fds \cup {AT_FDCWD}, NEW name \in Paths
    PROVE  /\ resolve_dirfd_path(p, dirfd, name) \in Paths
           /\ Doubt(p, dirfd, name) \in SUBSET {"base"}
           /\ RealPath(p, dirfd, name) \in Paths \cup {None}
<1>1. dirfd # AT_FDCWD /\ fd_paths[p][dirfd] # None => fd_paths[p][dirfd].path \in Paths
  BY Values DEF EntryRecords
<1>2. dirfd # AT_FDCWD /\ table[p][dirfd] # None => table[p][dirfd].path \in Paths
  BY Values DEF FileRecords
<1> QED
  BY <1>1, <1>2, Joined, FileOpAssumption DEF resolve_dirfd_path, Doubt, RealPath, Base

LEMMA InitShape == Init => Shape
BY FileOpAssumption, SMTT(20) DEF Init, Shape, TypeOK, Returned, PtrLive

\* Calls and pointers: what the rest of Shape needs of a step of thread t.
LEMMA ShapeOf ==
    ASSUME Shape, TypeOK', NEW t \in Threads,
           \A u \in Threads \ {t} : call'[u] = call[u],
           call'[t] = None \/ (IF call'[t].done THEN call'[t].sys = "write" => call'[t].ret \in Int
                              ELSE call'[t].ret = None),
           \A u \in Threads : ptr'[u] # None =>
               /\ ptr'[u].at # Freed => fd_paths'[ptr'[u].at[1]][ptr'[u].at[2]] # None
               /\ ptr'[u].fresh => ptr'[u].at # Freed
               /\ u # t => ptr[u] # None,
           ptr'[t] # None => call'[t] # None /\ call'[t].sys = "write" /\ call'[t].done
    PROVE  Shape'
BY SMTT(20) DEF Shape, Returned, PtrLive, InCall, Idle

\* Pointers stay while entries stay.
LEMMA PtrStay ==
    ASSUME Shape, UNCHANGED ptr,
           \A q \in Procs, f \in Fds : fd_paths[q][f] # None => fd_paths'[q][f] # None
    PROVE  \A u \in Threads : ptr'[u] # None =>
               /\ ptr'[u].at # Freed => fd_paths'[ptr'[u].at[1]][ptr'[u].at[2]] # None
               /\ ptr'[u].fresh => ptr'[u].at # Freed
               /\ ptr[u] # None
<1> SUFFICES ASSUME NEW u \in Threads, ptr[u] # None, ptr[u].at # Freed
             PROVE  fd_paths'[ptr[u].at[1]][ptr[u].at[2]] # None
  BY DEF Shape, PtrLive
<1>1. ptr[u].at \in Procs \X Fds
  BY Values DEF PtrRecords, Elements
<1> QED
  BY <1>1 DEF Shape, PtrLive

\* The place a pointer leads to.
LEMMA PtrPlace ==
    ASSUME Shape, NEW u \in Threads, ptr[u] # None
    PROVE  /\ ptr[u] \in PtrRecords
           /\ ptr[u].fresh => ptr[u].at # Freed
           /\ ptr[u].at # Freed =>
                \E q \in Procs, f \in Fds :
                    ptr[u].at = <<q, f>> /\ fd_paths[q][f] # None /\ fd_paths[q][f] \in EntryRecords
<1>1. ptr[u] \in PtrRecords
  BY Values
<1>2. /\ ptr[u].fresh => ptr[u].at # Freed
      /\ ptr[u].at # Freed => fd_paths[ptr[u].at[1]][ptr[u].at[2]] # None
  BY DEF Shape, PtrLive
<1>3. CASE ptr[u].at # Freed
  <2>1. PICK q \in Procs, f \in Fds : ptr[u].at = <<q, f>>
    BY <1>1, <1>3, SMTT(20) DEF PtrRecords, Elements
  <2>2. ptr[u].at[1] = q /\ ptr[u].at[2] = f
    BY <2>1, SMTT(20)
  <2>3. fd_paths[q][f] # None
    BY <1>2, <1>3, <2>2
  <2>4. fd_paths[q][f] \in EntryRecords
    BY <2>3, Values
  <2> QED
    BY <1>1, <1>2, <2>1, <2>3, <2>4
<1> QED
  BY <1>1, <1>2, <1>3

\* An idle thread has no pointer.
LEMMA IdleNoPtr ==
    ASSUME Shape, NEW t \in Threads, Idle(t)
    PROVE  ptr[t] = None
BY DEF Shape, PtrLive, InCall

LEMMA Remembered ==
    ASSUME NEW V, NEW m \in [Threads -> V], NEW t \in Threads, NEW x \in V
    PROVE  /\ Remember(m, t, x) \in [Threads -> V]
           /\ \A u \in Threads \ {t} : Remember(m, t, x)[u] = m[u]
           /\ Remember(m, t, x)[t] \in {x, m[t]}
BY DEF Remember

LEMMA EnterOpenShape ==
    ASSUME Shape, NEW t \in Threads, NEW dirfd \in Fds \cup {AT_FDCWD}, NEW name \in Paths,
           NEW copied, trace_enter_open(t, dirfd, name, copied), UNCHANGED program
    PROVE  Shape'
<1> DEFINE c == Call("open", {dirfd} \ {AT_FDCWD}, <<dirfd, name>>)
           p == ProcOf(t)
           o == [path |-> resolve_dirfd_path(p, dirfd, name), excuse |-> Doubt(p, dirfd, name)]
<1>1. c \in CallRecords
  BY DEF Call, CallRecords
<1>2. p \in Procs
  BY Programs1
<1>3. o \in OpenRecords
  BY <1>2, Resolved DEF OpenRecords
<1>4. inflight_open' \in [Threads -> OpenRecords \cup {None}]
  <2>1. inflight_open' \in {inflight_open, Remember(inflight_open, t, o)}
    BY DEF trace_enter_open
  <2>2. inflight_open \in [Threads -> OpenRecords \cup {None}] /\ o \in OpenRecords \cup {None}
    BY <1>3 DEF Shape, TypeOK
  <2> HIDE DEF o
  <2>3. Remember(inflight_open, t, o) \in [Threads -> OpenRecords \cup {None}]
    BY <2>2, Remembered
  <2> QED
    BY <2>1, <2>2, <2>3
<1>5. call' = [call EXCEPT ![t] = c]
  BY DEF trace_enter_open, Enter
<1>6. TypeOK'
  BY <1>1, <1>4, <1>5 DEF trace_enter_open, Shape, TypeOK
<1>7. c.done = FALSE /\ c.ret = None
  BY DEF Call
<1>8. ptr[t] = None
  BY IdleNoPtr DEF trace_enter_open
<1>9. UNCHANGED <<ptr, fd_paths>>
  BY DEF trace_enter_open
<1> HIDE DEF c
<1>10. call'[t] = c /\ \A u \in Threads \ {t} : call'[u] = call[u]
  BY <1>5 DEF Shape, TypeOK
<1> QED
  BY <1>6, <1>7, <1>8, <1>9, <1>10, ShapeOf, PtrStay

LEMMA KernelOpenShape ==
    ASSUME Shape, NEW t \in Threads, KernelOpen(t), UNCHANGED program
    PROVE  Shape'
<1> DEFINE p == ProcOf(t)
           path == RealPath(p, call[t].arg[1], call[t].arg[2])
<1>1. p \in Procs /\ program.fds \subseteq Fds
  BY Programs1
<1>2. InCall(t, "open") /\ ~call[t].done
  BY DEF KernelOpen
<1>3. call[t] \in [sys : {"open"}, fds : SUBSET Fds, arg : (Fds \cup {AT_FDCWD}) \X Paths,
                   done : BOOLEAN, ret : Fds \cup {None}]
  BY <1>2, OpenCall
<1>4. path \in Paths \cup {None}
  BY <1>1, <1>3, Resolved
<1>5. UNCHANGED <<ptr, fd_paths, inflight_open, inflight_write, unreported>>
  BY DEF KernelOpen, maps
<1>6. ptr[t] = None
  BY <1>2 DEF Shape, PtrLive, InCall
<1>7. PICK c \in CallRecords : /\ call' = [call EXCEPT ![t] = c]
                                /\ c.sys = "open" /\ c.done = TRUE
      /\ table' \in [Procs -> [Fds -> FileRecords \cup {None}]]
  <2>1. CASE /\ call' = [call EXCEPT ![t] = [call[t] EXCEPT !.done = TRUE]]
             /\ UNCHANGED table
    <3>1. [call[t] EXCEPT !.done = TRUE] \in CallRecords
      BY <1>3 DEF CallRecords
    <3>2. [call[t] EXCEPT !.done = TRUE].sys = "open" /\ [call[t] EXCEPT !.done = TRUE].done = TRUE
      BY <1>3
    <3> QED
      BY <2>1, <3>1, <3>2 DEF Shape, TypeOK
  <2>2. ASSUME NEW fd \in program.fds, path # None,
               table' = [table EXCEPT ![p][fd] = File(path, inflight_open[t] = None)],
               call' = [call EXCEPT ![t] =
                          [call[t] EXCEPT !.done = TRUE, !.ret = fd, !.fds = @ \cup {fd}]]
        PROVE  \E c \in CallRecords :
                  /\ call' = [call EXCEPT ![t] = c]
                  /\ c.sys = "open" /\ c.done = TRUE
                  /\ table' \in [Procs -> [Fds -> FileRecords \cup {None}]]
    <3>1. fd \in Fds
      BY <1>1
    <3> DEFINE c == [call[t] EXCEPT !.done = TRUE, !.ret = fd, !.fds = @ \cup {fd}]
    <3>2. c \in CallRecords
      BY <1>3, <3>1 DEF CallRecords
    <3>3. c.sys = "open" /\ c.done = TRUE
      BY <1>3
    <3>4. File(path, inflight_open[t] = None) \in FileRecords
      BY <1>4, <2>2 DEF File, FileRecords
    <3>5. table' \in [Procs -> [Fds -> FileRecords \cup {None}]]
      BY <1>1, <2>2, <3>1, <3>4, SetPlace, SMTT(20) DEF Shape, TypeOK
    <3> QED
      BY <2>2, <3>2, <3>3, <3>5
  <2> QED
    BY <2>1, <2>2 DEF KernelOpen, Enter
<1>8. TypeOK'
  BY <1>5, <1>7 DEF Shape, TypeOK
<1>9. call'[t] = c /\ \A u \in Threads \ {t} : call'[u] = call[u]
  BY <1>7 DEF Shape, TypeOK
<1> QED
  BY <1>5, <1>6, <1>7, <1>8, <1>9, ShapeOf, PtrStay

\* Where pointers lead after their elements were freed or taken.
LEMMA Repointed ==
    ASSUME Shape, NEW to \in [Elements -> Elements], Repoint(to)
    PROVE  /\ ptr' \in [Threads -> PtrRecords \cup {None}]
           /\ \A u \in Threads :
                /\ ptr'[u] = None <=> ptr[u] = None
                /\ ptr[u] # None =>
                     /\ ptr'[u].at = to[ptr[u].at]
                     /\ ptr'[u].sum = ptr[u].sum
                     /\ ptr'[u].fresh <=> ptr[u].fresh /\ ptr'[u].at = ptr[u].at
<1> SUFFICES ASSUME NEW u \in Threads
             PROVE  /\ ptr'[u] \in PtrRecords \cup {None}
                    /\ ptr'[u] = None <=> ptr[u] = None
                    /\ ptr[u] # None =>
                         /\ ptr'[u].at = to[ptr[u].at]
                         /\ ptr'[u].sum = ptr[u].sum
                         /\ ptr'[u].fresh <=> ptr[u].fresh /\ ptr'[u].at = ptr[u].at
  BY DEF Repoint
<1>1. CASE ptr[u] = None
  BY <1>1 DEF Repoint
<1>2. CASE ptr[u] # None
  <2> DEFINE fresh2 == ptr[u].fresh /\ to[ptr[u].at] = ptr[u].at
             r == [ptr[u] EXCEPT !.at = to[@], !.fresh = fresh2]
  <2>1. ptr'[u] = r
    BY <1>2 DEF Repoint
  <2>2. ptr[u] \in PtrRecords
    BY <1>2, Values
  <2>3. fresh2 \in BOOLEAN
    OBVIOUS
  <2> HIDE DEF fresh2
  <2>4. to[ptr[u].at] \in Elements
    BY <2>2 DEF PtrRecords
  <2>5. /\ r \in PtrRecords
        /\ r.at = to[ptr[u].at] /\ r.sum = ptr[u].sum /\ r.fresh = fresh2
    BY <2>2, <2>3, <2>4 DEF PtrRecords
  <2>6. r # None
    BY <2>5, NoneAssumption
  <2> HIDE DEF r
  <2>7. ptr'[u].fresh <=> ptr[u].fresh /\ to[ptr[u].at] = ptr[u].at
    BY <2>1, <2>5 DEF fresh2
  <2> QED
    BY <1>2, <2>1, <2>5, <2>6, <2>7
<1> QED
  BY <1>1, <1>2

\* file2 is the open file after its entry was evicted.
Evicted(file, file2) ==
    IF file = None THEN file2 = None
    ELSE /\ file2 # None
         /\ file \in FileRecords /\ file2 \in FileRecords
         /\ file2.path = file.path /\ file2.wrote = file.wrote /\ file2.excused = TRUE

\* bpf_map_update_elem on fd_paths, place by place.
LEMMA UpdateEffect ==
    ASSUME Shape, NEW p \in Procs, NEW fd \in Fds, NEW entry \in EntryRecords,
           UpdateFdPaths(p, fd, entry)
    PROVE  /\ fd_paths' \in [Procs -> [Fds -> EntryRecords \cup {None}]]
           /\ table' \in [Procs -> [Fds -> FileRecords \cup {None}]]
           /\ ptr' \in [Threads -> PtrRecords \cup {None}]
           /\ fd_paths'[p][fd] = entry /\ table'[p][fd] = table[p][fd]
           /\ \A q \in Procs, f \in Fds : q # p \/ f # fd =>
                \/ fd_paths'[q][f] = fd_paths[q][f] /\ table'[q][f] = table[q][f]
                \/ fd_paths'[q][f] = None /\ Evicted(table[q][f], table'[q][f])
           /\ \A u \in Threads :
                /\ ptr'[u] = None <=> ptr[u] = None
                /\ ptr[u] # None =>
                     /\ ptr'[u].sum = ptr[u].sum
                     /\ ptr'[u].at # Freed => fd_paths'[ptr'[u].at[1]][ptr'[u].at[2]] # None
                     /\ ptr'[u].fresh => /\ ptr[u].fresh /\ ptr'[u].at = ptr[u].at
                                        /\ ptr[u].at # <<p, fd>>
                     /\ ~ptr'[u].fresh =>
                          \/ ~ptr[u].fresh
                          \/ ptr[u].at = <<p, fd>>
                          \/ \E q \in Procs, f \in Fds :
                                ptr[u].at = <<q, f>> /\ fd_paths'[q][f] = None
<1> DEFINE key == <<p, fd>>
           victims == IF key \in Keys \/ Cardinality(Keys) < MaxEntries THEN {{}}
                      ELSE {{k} : k \in Keys}
<1>1. PICK gone \in victims, to \in {key, Freed} :
        /\ fd_paths' = [q \in Procs |-> [f \in Fds |->
                           IF <<q, f>> = key THEN entry
                           ELSE IF <<q, f>> \in gone THEN None ELSE fd_paths[q][f]]]
        /\ table' = Excuse(gone)
        /\ Repoint([at \in Elements |-> IF at = key THEN Freed
                                        ELSE IF at \in gone \cup {Freed} THEN to ELSE at])
  BY DEF UpdateFdPaths
<1>2. gone \subseteq Procs \X Fds /\ key \notin gone
  <2>1. CASE key \in Keys \/ Cardinality(Keys) < MaxEntries
    BY <2>1
  <2>2. CASE ~(key \in Keys \/ Cardinality(Keys) < MaxEntries)
    <3>1. PICK k \in Keys : gone = {k}
      BY <2>2
    <3> QED
      BY <2>2, <3>1 DEF Keys
  <2> QED
    BY <2>1, <2>2
<1> HIDE DEF victims
<1> DEFINE lead == [at \in Elements |-> IF at = key THEN Freed
                                       ELSE IF at \in gone \cup {Freed} THEN to ELSE at]
<1>3. key \in Elements /\ Freed \in Elements /\ key # Freed
  BY NoneAssumption DEF Elements, Freed
<1>4. /\ lead \in [Elements -> Elements]
      /\ lead[key] = Freed /\ lead[Freed] = to
      /\ \A at \in gone : lead[at] = to
      /\ \A at \in Elements : at # key /\ at # Freed /\ at \notin gone => lead[at] = at
  BY <1>2, <1>3 DEF Elements
<1>5. /\ ptr' \in [Threads -> PtrRecords \cup {None}]
      /\ \A u \in Threads :
           /\ ptr'[u] = None <=> ptr[u] = None
           /\ ptr[u] # None =>
                /\ ptr'[u].at = lead[ptr[u].at]
                /\ ptr'[u].sum = ptr[u].sum
                /\ ptr'[u].fresh <=> ptr[u].fresh /\ ptr'[u].at = ptr[u].at
  BY <1>1, <1>4, Repointed
<1> HIDE DEF lead
<1>6. \A q \in Procs, f \in Fds :
        fd_paths'[q][f] = IF q = p /\ f = fd THEN entry
                          ELSE IF <<q, f>> \in gone THEN None ELSE fd_paths[q][f]
  BY <1>1
<1>6a. \A q \in Procs, f \in Fds :
         table'[q][f] = IF <<q, f>> \in gone /\ table[q][f] # None
                        THEN [table[q][f] EXCEPT !.excused = TRUE] ELSE table[q][f]
  BY <1>1 DEF Excuse
<1>7. \A q \in Procs, f \in Fds : table[q][f] # None =>
        /\ [table[q][f] EXCEPT !.excused = TRUE] \in FileRecords
        /\ [table[q][f] EXCEPT !.excused = TRUE] # None
  BY Values, NoneAssumption DEF FileRecords
<1>8. fd_paths' \in [Procs -> [Fds -> EntryRecords \cup {None}]]
  BY <1>1 DEF Shape, TypeOK
<1>9. table' \in [Procs -> [Fds -> FileRecords \cup {None}]]
  <2>1. \A q \in Procs, f \in Fds : table[q][f] \in FileRecords \cup {None}
    BY DEF Shape, TypeOK
  <2>2. ASSUME NEW q \in Procs, NEW f \in Fds
        PROVE  table'[q][f] \in FileRecords \cup {None}
    <3>1. CASE <<q, f>> \in gone /\ table[q][f] # None
      BY <1>6a, <1>7, <3>1
    <3>2. CASE ~(<<q, f>> \in gone /\ table[q][f] # None)
      BY <1>6a, <2>1, <3>2
    <3> QED
      BY <3>1, <3>2
  <2> QED
    BY <1>1, <2>2 DEF Excuse
<1>10. entry # None
  BY NoneAssumption
<1>11. ASSUME NEW u \in Threads, ptr[u] # None
       PROVE  /\ ptr'[u].sum = ptr[u].sum
              /\ ptr'[u].at # Freed => fd_paths'[ptr'[u].at[1]][ptr'[u].at[2]] # None
              /\ ptr'[u].fresh => /\ ptr[u].fresh /\ ptr'[u].at = ptr[u].at
                                 /\ ptr[u].at # <<p, fd>>
              /\ ~ptr'[u].fresh =>
                   \/ ~ptr[u].fresh
                   \/ ptr[u].at = <<p, fd>>
                   \/ \E q \in Procs, f \in Fds :
                         ptr[u].at = <<q, f>> /\ fd_paths'[q][f] = None
  <2>1. /\ ptr[u].at \in Elements
        /\ ptr[u].fresh => ptr[u].at # Freed
        /\ ptr[u].at # Freed => fd_paths[ptr[u].at[1]][ptr[u].at[2]] # None
    BY <1>11, Values DEF PtrRecords, Shape, PtrLive
  <2>2. /\ ptr'[u].at = lead[ptr[u].at] /\ ptr'[u].sum = ptr[u].sum
        /\ ptr'[u].fresh <=> ptr[u].fresh /\ ptr'[u].at = ptr[u].at
    BY <1>5, <1>11
  <2>3. fd_paths'[p][fd] # None
    BY <1>6, <1>10
  <2>4. CASE ptr[u].at = key
    BY <1>3, <1>4, <2>2, <2>4
  <2>5. CASE ptr[u].at = Freed
    <3>1. ptr'[u].at \in {key, Freed} /\ ~ptr[u].fresh
      BY <1>4, <2>1, <2>2, <2>5
    <3> QED
      BY <2>2, <2>3, <3>1, SMTT(20)
  <2>6. CASE ptr[u].at # key /\ ptr[u].at # Freed
    <3>1. PICK q \in Procs, f \in Fds : ptr[u].at = <<q, f>>
      BY <2>1, <2>6, SMTT(20) DEF Elements
    <3>2. fd_paths[q][f] # None
      BY <2>1, <2>6, <3>1, SMTT(20)
    <3>3. CASE <<q, f>> \in gone
      <4>1. fd_paths'[q][f] = None
        BY <1>2, <1>6, <3>3
      <4>2. ptr'[u].at = to /\ to # <<q, f>>
        BY <1>4, <2>2, <2>6, <3>1, <3>3
      <4> QED
        BY <2>2, <2>3, <3>1, <4>1, <4>2, SMTT(20)
    <3>4. CASE <<q, f>> \notin gone
      <4>1. ptr'[u].at = ptr[u].at
        BY <1>4, <2>1, <2>2, <2>6, <3>1, <3>4
      <4>2. fd_paths'[q][f] # None
        BY <1>6, <1>10, <3>2, <3>4
      <4> QED
        BY <2>2, <2>6, <3>1, <4>1, <4>2, SMTT(20)
    <3> QED
      BY <3>3, <3>4
  <2> QED
    BY <2>4, <2>5, <2>6
<1>12. fd_paths'[p][fd] = entry /\ table'[p][fd] = table[p][fd]
  BY <1>2, <1>6, <1>6a
<1>13. ASSUME NEW q \in Procs, NEW f \in Fds, q # p \/ f # fd
       PROVE  \/ fd_paths'[q][f] = fd_paths[q][f] /\ table'[q][f] = table[q][f]
              \/ fd_paths'[q][f] = None /\ Evicted(table[q][f], table'[q][f])
  <2>1. CASE <<q, f>> \in gone
    <3>1. fd_paths'[q][f] = None
      BY <1>6, <1>13, <2>1
    <3>2. table'[q][f] = IF table[q][f] # None
                         THEN [table[q][f] EXCEPT !.excused = TRUE] ELSE table[q][f]
      BY <1>6a, <2>1
    <3>3. CASE table[q][f] # None
      <4>1. PICK g \in FileRecords : g = table[q][f]
        BY <3>3, Values
      <4>2. table'[q][f] = [g EXCEPT !.excused = TRUE]
        BY <3>2, <3>3, <4>1
      <4>3. [g EXCEPT !.excused = TRUE].path = g.path /\ [g EXCEPT !.excused = TRUE].wrote = g.wrote
            /\ [g EXCEPT !.excused = TRUE].excused = TRUE
        BY DEF FileRecords
      <4>4. table'[q][f] \in FileRecords /\ table'[q][f] # None
        BY <1>7, <3>2, <3>3
      <4> QED
        BY <3>1, <3>3, <4>1, <4>2, <4>3, <4>4 DEF Evicted
    <3> QED
      BY <3>1, <3>2, <3>3 DEF Evicted
  <2>2. CASE <<q, f>> \notin gone
    BY <1>6, <1>6a, <1>13, <2>2
  <2> QED
    BY <2>1, <2>2
<1> QED
  BY <1>5, <1>8, <1>9, <1>11, <1>12, <1>13

LEMMA ExitOpenShape ==
    ASSUME Shape, NEW t \in Threads, trace_exit_open(t), UNCHANGED program
    PROVE  Shape'
<1>1. ProcOf(t) \in Procs
  BY Programs1
<1>2. InCall(t, "open") /\ call' = [call EXCEPT ![t] = None]
      /\ inflight_open' = [inflight_open EXCEPT ![t] = None]
      /\ UNCHANGED <<inflight_write, unreported>>
  BY DEF trace_exit_open, Return, Forget
<1>3. ptr[t] = None
  BY <1>2 DEF Shape, PtrLive, InCall
<1>4. call'[t] = None /\ \A u \in Threads \ {t} : call'[u] = call[u]
  BY <1>2 DEF Shape, TypeOK
<1>5. CASE inflight_open[t] # None /\ call[t].ret # None
  <2> DEFINE entry == [path |-> inflight_open[t].path, excuse |-> inflight_open[t].excuse,
                       write_bytes |-> 0, seen |-> {}]
  <2>1. entry \in EntryRecords
    BY <1>5, Values DEF OpenRecords, EntryRecords
  <2>2. call[t].ret \in Fds
    BY <1>2, <1>5, OpenCall
  <2>3. UpdateFdPaths(ProcOf(t), call[t].ret, entry)
    BY <1>5 DEF trace_exit_open
  <2> HIDE DEF entry
  <2>4. TypeOK'
    BY <1>1, <1>2, <2>1, <2>2, <2>3, UpdateEffect DEF Shape, TypeOK
  <2>5. \A u \in Threads : ptr'[u] # None =>
          /\ ptr'[u].at # Freed => fd_paths'[ptr'[u].at[1]][ptr'[u].at[2]] # None
          /\ ptr'[u].fresh => ptr[u].fresh /\ ptr'[u].at = ptr[u].at
          /\ ptr[u] # None
    BY <1>1, <2>1, <2>2, <2>3, UpdateEffect
  <2>6. \A u \in Threads : ptr[u] # None => (ptr[u].fresh => ptr[u].at # Freed)
    BY DEF Shape, PtrLive
  <2> QED
    BY <1>3, <1>4, <2>4, <2>5, <2>6, ShapeOf, SMTT(20)
<1>6. CASE ~(inflight_open[t] # None /\ call[t].ret # None)
  <2>1. UNCHANGED <<table, fd_paths, ptr>>
    BY <1>6 DEF trace_exit_open
  <2>2. TypeOK'
    BY <1>2, <2>1 DEF Shape, TypeOK
  <2> QED
    BY <1>3, <1>4, <2>1, <2>2, PtrStay, ShapeOf
<1> QED
  BY <1>5, <1>6

LEMMA WriteShape ==
    ASSUME Shape, NEW t \in Threads, NEW fd \in Fds, NEW count \in Nat,
           trace_write(t, fd, count), UNCHANGED program
    PROVE  Shape'
<1> DEFINE c == Call("write", {fd}, count)
<1>1. c \in CallRecords /\ c.done = FALSE /\ c.ret = None
  BY DEF Call, CallRecords
<1>2. call' = [call EXCEPT ![t] = c]
      /\ UNCHANGED <<table, inflight_open, fd_paths, ptr, unreported>>
  BY DEF trace_write, Enter
<1>3. inflight_write' \in [Threads -> Fds \cup {None}]
  <2>1. inflight_write \in [Threads -> Fds \cup {None}] /\ fd \in Fds \cup {None}
    BY DEF Shape, TypeOK
  <2>2. Remember(inflight_write, t, fd) \in [Threads -> Fds \cup {None}]
    BY <2>1, Remembered
  <2> QED
    BY <2>1, <2>2 DEF trace_write
<1> HIDE DEF c
<1>4. TypeOK'
  BY <1>1, <1>2, <1>3 DEF Shape, TypeOK
<1>5. call'[t] = c /\ \A u \in Threads \ {t} : call'[u] = call[u]
  BY <1>2 DEF Shape, TypeOK
<1>6. ptr[t] = None
  BY IdleNoPtr DEF trace_write
<1> QED
  BY <1>1, <1>2, <1>4, <1>5, <1>6, PtrStay, ShapeOf

\* What KernelWrite does, place by place.
LEMMA KernelWriteEffect ==
    ASSUME Shape, NEW t \in Threads, NEW n \in Int, KernelWrite(t, n)
    PROVE  LET p == ProcOf(t)
               fd == CHOOSE f \in call[t].fds : TRUE IN
           /\ fd \in Fds /\ call[t].fds = {fd}
           /\ call' = [call EXCEPT ![t] = [call[t] EXCEPT !.done = TRUE, !.ret = n]]
           /\ table' \in [Procs -> [Fds -> FileRecords \cup {None}]]
           /\ \A q \in Procs, f \in Fds : q # p \/ f # fd => table'[q][f] = table[q][f]
           /\ n > 0 => table[p][fd] # None
           /\ table'[p][fd] = IF n > 0 /\ inflight_write[t] # None
                              THEN [table[p][fd] EXCEPT !.wrote = @ + n] ELSE table[p][fd]
           /\ unreported' = IF n > 0 THEN [unreported EXCEPT ![p] = @ + n] ELSE unreported
<1> DEFINE p == ProcOf(t)
           fd == CHOOSE f \in call[t].fds : TRUE
           file == [table[p][fd] EXCEPT !.wrote = @ + n]
<1>1. p \in Procs
  BY Programs1
<1>2. fd \in Fds /\ call[t].fds = {fd}
  BY OneFd DEF KernelWrite
<1>3. call' = [call EXCEPT ![t] = [call[t] EXCEPT !.done = TRUE, !.ret = n]]
  BY DEF KernelWrite, Enter
<1>4. table \in [Procs -> [Fds -> FileRecords \cup {None}]]
  BY DEF Shape, TypeOK
<1>5. CASE n > 0 /\ inflight_write[t] # None
  <2>1. table[p][fd] # None /\ unreported' = [unreported EXCEPT ![p] = @ + n]
        /\ table' = [table EXCEPT ![p][fd].wrote = @ + n]
    BY <1>5 DEF KernelWrite
  <2>2. table[p][fd] \in FileRecords
    BY <1>1, <1>2, <2>1, Values
  <2>3. file \in FileRecords
    <3>1. PICK g \in FileRecords : g = table[p][fd]
      BY <2>2
    <3>2. [g EXCEPT !.wrote = @ + n] \in FileRecords
      BY <1>5, SMTT(20) DEF FileRecords
    <3> QED
      BY <3>1, <3>2
  <2>4. table' = [table EXCEPT ![p][fd] = file]
    BY <1>1, <1>2, <1>4, <2>1
  <2> HIDE DEF fd, file, p
  <2>5. table' \in [Procs -> [Fds -> FileRecords \cup {None}]]
        /\ \A x \in Procs, y \in Fds : table'[x][y] = IF x = p /\ y = fd THEN file ELSE table[x][y]
    BY <1>1, <1>2, <1>4, <2>3, <2>4, SetPlace, SMTT(20)
  <2>6. /\ table'[p][fd] = file
        /\ \A q \in Procs, f \in Fds : q # p \/ f # fd => table'[q][f] = table[q][f]
    BY <1>1, <1>2, <2>5
  <2> USE DEF fd, file, p
  <2> QED
    BY <1>2, <1>3, <1>5, <2>1, <2>5, <2>6
<1>6. CASE ~(n > 0 /\ inflight_write[t] # None)
  <2>1. UNCHANGED table
    BY <1>6 DEF KernelWrite
  <2>2. n > 0 => table[p][fd] # None
    BY DEF KernelWrite
  <2>3. unreported' = IF n > 0 THEN [unreported EXCEPT ![p] = @ + n] ELSE unreported
    BY DEF KernelWrite
  <2> QED
    BY <1>2, <1>3, <1>4, <1>6, <2>1, <2>2, <2>3, SMTT(20)
<1> QED
  BY <1>5, <1>6

LEMMA KernelWriteShape ==
    ASSUME Shape, NEW t \in Threads, NEW n \in Int, KernelWrite(t, n), UNCHANGED program
    PROVE  Shape'
<1>1. ProcOf(t) \in Procs
  BY Programs1
<1>2. InCall(t, "write") /\ ~call[t].done /\ UNCHANGED <<ptr, fd_paths, inflight_open, inflight_write>>
  BY DEF KernelWrite, maps
<1>3. PICK c : c = [call[t] EXCEPT !.done = TRUE, !.ret = n]
  OBVIOUS
<1>4. c \in CallRecords /\ c.done = TRUE /\ c.ret = n /\ c.sys = "write"
  BY <1>2, <1>3, WriteCall DEF CallRecords
<1>5. call' = [call EXCEPT ![t] = c] /\ table' \in [Procs -> [Fds -> FileRecords \cup {None}]]
      /\ unreported' = IF n > 0 THEN [unreported EXCEPT ![ProcOf(t)] = @ + n] ELSE unreported
  BY <1>3, KernelWriteEffect
<1>6. TypeOK'
  BY <1>1, <1>2, <1>4, <1>5, SMTT(20) DEF Shape, TypeOK
<1>7. call'[t] = c /\ \A u \in Threads \ {t} : call'[u] = call[u]
  BY <1>5 DEF Shape, TypeOK
<1>8. ptr[t] = None
  BY <1>2 DEF Shape, PtrLive
<1> QED
  BY <1>2, <1>4, <1>6, <1>7, <1>8, PtrStay, ShapeOf

\* trace_exit_write loads the counter, or the call just returns.
LEMMA ExitWriteEffect ==
    ASSUME Shape, NEW t \in Threads, trace_exit_write(t)
    PROVE  /\ InCall(t, "write") /\ call[t].done /\ ptr[t] = None /\ call[t].ret \in Int
           /\ UNCHANGED <<table, inflight_open, fd_paths, unreported>>
           /\ \/ /\ inflight_write[t] \in Fds /\ call[t].ret > 0
                 /\ fd_paths[ProcOf(t)][inflight_write[t]] # None
                 /\ ptr' \in [Threads -> PtrRecords \cup {None}]
                 /\ \A u \in Threads \ {t} : ptr'[u] = ptr[u]
                 /\ ptr'[t] # None
                 /\ ptr'[t].at = <<ProcOf(t), inflight_write[t]>>
                 /\ ptr'[t].fresh = TRUE
                 /\ ptr'[t].sum = fd_paths[ProcOf(t)][inflight_write[t]].write_bytes + call[t].ret
                 /\ UNCHANGED <<call, inflight_write>>
              \/ /\ inflight_write[t] = None \/ call[t].ret <= 0
                    \/ fd_paths[ProcOf(t)][inflight_write[t]] = None
                 /\ inflight_write' = Forget(inflight_write, t)
                 /\ call' = [call EXCEPT ![t] = None]
                 /\ UNCHANGED ptr
<1>1. /\ InCall(t, "write") /\ call[t].done /\ ptr[t] = None
      /\ UNCHANGED <<table, inflight_open, fd_paths, unreported>>
  BY DEF trace_exit_write
<1>2. call[t].ret \in Int
  BY <1>1, WriteCall
<1>3. CASE inflight_write[t] # None /\ call[t].ret > 0
           /\ fd_paths[ProcOf(t)][inflight_write[t]] # None
  <2> DEFINE r == [at |-> <<ProcOf(t), inflight_write[t]>>, fresh |-> TRUE,
                   sum |-> fd_paths[ProcOf(t)][inflight_write[t]].write_bytes + call[t].ret]
  <2>1. ptr' = [ptr EXCEPT ![t] = r] /\ UNCHANGED <<call, inflight_write>>
    BY <1>3 DEF trace_exit_write
  <2>2. inflight_write[t] \in Fds /\ ProcOf(t) \in Procs
    BY <1>3, Values, Programs1
  <2>3. fd_paths[ProcOf(t)][inflight_write[t]].write_bytes \in Nat
    BY <1>3, <2>2, Values DEF EntryRecords
  <2>4. r \in PtrRecords
    BY <1>2, <1>3, <2>2, <2>3, SMTT(20) DEF PtrRecords, Elements
  <2>5. ptr \in [Threads -> PtrRecords \cup {None}]
    BY DEF Shape, TypeOK
  <2>6. r # None
    BY <2>4, NoneAssumption
  <2>7. r.at = <<ProcOf(t), inflight_write[t]>> /\ r.fresh = TRUE
        /\ r.sum = fd_paths[ProcOf(t)][inflight_write[t]].write_bytes + call[t].ret
    OBVIOUS
  <2> HIDE DEF r
  <2>8. ptr' \in [Threads -> PtrRecords \cup {None}] /\ ptr'[t] = r
        /\ \A u \in Threads \ {t} : ptr'[u] = ptr[u]
    BY <2>1, <2>4, <2>5
  <2> QED
    BY <1>1, <1>2, <1>3, <2>1, <2>2, <2>6, <2>7, <2>8
<1>4. CASE ~(inflight_write[t] # None /\ call[t].ret > 0
             /\ fd_paths[ProcOf(t)][inflight_write[t]] # None)
  BY <1>1, <1>2, <1>4, SMTT(20) DEF trace_exit_write, Return
<1> QED
  BY <1>3, <1>4

LEMMA ExitWriteShape ==
    ASSUME Shape, NEW t \in Threads, trace_exit_write(t), UNCHANGED program
    PROVE  Shape'
<1>1. CASE inflight_write[t] \in Fds /\ ptr'[t] # None
  <2>1. UNCHANGED <<table, inflight_open, fd_paths, unreported, call, inflight_write>>
        /\ ptr' \in [Threads -> PtrRecords \cup {None}]
    BY <1>1, ExitWriteEffect
  <2>2. TypeOK'
    BY <2>1 DEF Shape, TypeOK
  <2>3. InCall(t, "write") /\ call[t].done /\ call[t].ret \in Int
    BY ExitWriteEffect
  <2>4. /\ \A u \in Threads \ {t} : ptr'[u] = ptr[u]
        /\ ptr'[t].at = <<ProcOf(t), inflight_write[t]>> /\ ptr'[t].fresh = TRUE
        /\ fd_paths[ProcOf(t)][inflight_write[t]] # None
    BY <1>1, ExitWriteEffect
  <2>5. ptr'[t].at # Freed
    BY <1>1, <2>4, NoneAssumption, SMTT(20) DEF Freed
  <2>6. fd_paths'[ptr'[t].at[1]][ptr'[t].at[2]] # None
    BY <2>1, <2>4, SMTT(20)
  <2>7. \A u \in Threads \ {t} : ptr'[u] # None =>
          /\ ptr'[u].at # Freed => fd_paths'[ptr'[u].at[1]][ptr'[u].at[2]] # None
          /\ ptr'[u].fresh => ptr'[u].at # Freed
    BY <2>1, <2>4 DEF Shape, PtrLive
  <2>8. \A u \in Threads : ptr'[u] # None =>
          /\ ptr'[u].at # Freed => fd_paths'[ptr'[u].at[1]][ptr'[u].at[2]] # None
          /\ ptr'[u].fresh => ptr'[u].at # Freed
          /\ u # t => ptr[u] # None
    BY <2>4, <2>5, <2>6, <2>7
  <2>9. call[t] # None /\ call[t].sys = "write"
    BY <2>3 DEF InCall, Idle
  <2> QED
    BY <2>1, <2>2, <2>3, <2>8, <2>9, ShapeOf
<1>2. CASE ~(inflight_write[t] \in Fds /\ ptr'[t] # None)
  <2>1. /\ UNCHANGED <<table, inflight_open, fd_paths, unreported, ptr>>
        /\ inflight_write' = [inflight_write EXCEPT ![t] = None]
        /\ call' = [call EXCEPT ![t] = None] /\ ptr[t] = None
    BY <1>2, ExitWriteEffect DEF Forget
  <2>2. TypeOK'
    BY <2>1 DEF Shape, TypeOK
  <2>3. call'[t] = None /\ \A u \in Threads \ {t} : call'[u] = call[u]
    BY <2>1 DEF Shape, TypeOK
  <2> QED
    BY <2>1, <2>2, <2>3, PtrStay, ShapeOf
<1> QED
  BY <1>1, <1>2

\* e2 is the entry e with the sum of the pointer r stored in it.
Stored(e, e2, r) ==
    /\ e # None /\ e2 # None
    /\ e \in EntryRecords /\ e2 \in EntryRecords
    /\ e2.path = e.path
    /\ e2.write_bytes = r.sum
    /\ e2.seen = e.seen \cup {"write"}
    /\ e2.excuse = IF r.fresh THEN e.excuse ELSE e.excuse \cup {"torn"}

\* StoreWriteBytes, place by place.
LEMMA StoreEffect ==
    ASSUME Shape, NEW t \in Threads, StoreWriteBytes(t)
    PROVE  /\ ptr[t] # None /\ InCall(t, "write") /\ call[t].done
           /\ fd_paths' \in [Procs -> [Fds -> EntryRecords \cup {None}]]
           /\ \A q \in Procs, f \in Fds :
                IF ptr[t].at = <<q, f>> THEN Stored(fd_paths[q][f], fd_paths'[q][f], ptr[t])
                ELSE fd_paths'[q][f] = fd_paths[q][f]
           /\ ptr' = [ptr EXCEPT ![t] = None]
           /\ inflight_write' = [inflight_write EXCEPT ![t] = None]
           /\ call' = [call EXCEPT ![t] = None]
           /\ UNCHANGED <<table, inflight_open, unreported>>
<1>1. /\ ptr' = [ptr EXCEPT ![t] = None]
      /\ inflight_write' = [inflight_write EXCEPT ![t] = None]
      /\ call' = [call EXCEPT ![t] = None]
      /\ UNCHANGED <<table, inflight_open, unreported>> /\ ptr[t] # None
  BY DEF StoreWriteBytes, Forget, Return
<1>2. InCall(t, "write") /\ call[t].done
  BY <1>1 DEF Shape, PtrLive
<1>3. fd_paths \in [Procs -> [Fds -> EntryRecords \cup {None}]] /\ ptr[t] \in PtrRecords
  BY <1>1, Values DEF Shape, TypeOK
<1>4. CASE ptr[t].at = Freed
  <2>1. UNCHANGED fd_paths
    BY <1>4 DEF StoreWriteBytes
  <2>2. \A q \in Procs, f \in Fds : ptr[t].at # <<q, f>>
    BY <1>4, NoneAssumption, SMTT(20) DEF Freed
  <2> QED
    BY <1>1, <1>2, <1>3, <2>1, <2>2
<1>5. CASE ptr[t].at # Freed
  <2>1. PICK p \in Procs, fd \in Fds :
          ptr[t].at = <<p, fd>> /\ fd_paths[p][fd] # None /\ fd_paths[p][fd] \in EntryRecords
    BY <1>1, <1>5, PtrPlace
  <2>2. PICK e : e = fd_paths[p][fd]
    OBVIOUS
  <2>3. e # None /\ e \in EntryRecords
    BY <2>1, <2>2
  <2>4. PICK x : x = (IF ptr[t].fresh THEN e.excuse ELSE e.excuse \cup {"torn"})
    OBVIOUS
  <2>5. PICK s : s = e.seen \cup {"write"}
    OBVIOUS
  <2>6. /\ s \in SUBSET {"write", "mmap_read", "mmap_write"}
        /\ x \in SUBSET {"base", "stale", "torn"}
        /\ ptr[t].sum \in Nat
    <3>1. e.seen \in SUBSET {"write", "mmap_read", "mmap_write"} /\ e.excuse \in SUBSET {"base", "stale", "torn"}
      BY <2>3 DEF EntryRecords
    <3>2. ptr[t].sum \in Nat
      BY <1>3 DEF PtrRecords
    <3>3. s \in SUBSET {"write", "mmap_read", "mmap_write"}
      BY <2>5, <3>1
    <3>4. x \in SUBSET {"base", "stale", "torn"}
      BY <2>4, <3>1
    <3> QED
      BY <3>2, <3>3, <3>4
  <2>7. PICK r : r = [e EXCEPT !.write_bytes = ptr[t].sum, !.seen = s, !.excuse = x]
    OBVIOUS
  <2>8. /\ r \in EntryRecords /\ r # None
        /\ r.path = e.path /\ r.write_bytes = ptr[t].sum /\ r.seen = s /\ r.excuse = x
    <3>1. PICK b \in Nat : b = ptr[t].sum
      BY <2>6
    <3>2. r = [e EXCEPT !.write_bytes = b, !.seen = s, !.excuse = x]
      BY <2>7, <3>1
    <3>3. r \in EntryRecords
      BY <2>3, <2>6, <3>2 DEF EntryRecords
    <3>4. r.path = e.path /\ r.write_bytes = b /\ r.seen = s /\ r.excuse = x
      BY <2>3, <2>6, <3>2 DEF EntryRecords
    <3> QED
      BY <3>1, <3>3, <3>4, NoneAssumption
  <2>9. fd_paths' = [fd_paths EXCEPT ![p][fd] = r]
    <3>1. fd_paths' = [fd_paths EXCEPT
                 ![p][fd].write_bytes = ptr[t].sum,
                 ![p][fd].seen = @ \cup {"write"},
                 ![p][fd].excuse = IF ptr[t].fresh THEN @ ELSE @ \cup {"torn"}]
      BY <1>5, <2>1, SMTT(20) DEF StoreWriteBytes
    <3> QED
      BY <1>3, <2>2, <2>3, <2>4, <2>5, <2>7, <3>1 DEF EntryRecords
  <2>10. fd_paths' \in [Procs -> [Fds -> EntryRecords \cup {None}]]
         /\ \A q \in Procs, f \in Fds :
              fd_paths'[q][f] = IF q = p /\ f = fd THEN r ELSE fd_paths[q][f]
    BY <1>3, <2>8, <2>9, SetPlace, SMTT(20)
  <2>11. \A q \in Procs, f \in Fds : ptr[t].at = <<q, f>> <=> q = p /\ f = fd
    BY <2>1, SMTT(20)
  <2> QED
    <3>1. Stored(fd_paths[p][fd], fd_paths'[p][fd], ptr[t])
      <4>1. fd_paths'[p][fd] = r
        BY <2>10
      <4> QED
        BY <2>2, <2>3, <2>4, <2>5, <2>8, <4>1 DEF Stored
    <3>2. \A q \in Procs, f \in Fds :
             IF ptr[t].at = <<q, f>> THEN Stored(fd_paths[q][f], fd_paths'[q][f], ptr[t])
             ELSE fd_paths'[q][f] = fd_paths[q][f]
      BY <2>10, <2>11, <3>1
    <3> QED
      BY <1>1, <1>2, <2>10, <3>2
<1> QED
  BY <1>4, <1>5

LEMMA StoreShape ==
    ASSUME Shape, NEW t \in Threads, StoreWriteBytes(t), UNCHANGED program
    PROVE  Shape'
<1>1. /\ fd_paths' \in [Procs -> [Fds -> EntryRecords \cup {None}]]
      /\ ptr' = [ptr EXCEPT ![t] = None]
      /\ inflight_write' = [inflight_write EXCEPT ![t] = None]
      /\ call' = [call EXCEPT ![t] = None]
      /\ UNCHANGED <<table, inflight_open, unreported>>
  BY StoreEffect
<1>2. TypeOK'
  BY <1>1 DEF Shape, TypeOK
<1>3. call'[t] = None /\ ptr'[t] = None
      /\ \A u \in Threads \ {t} : call'[u] = call[u] /\ ptr'[u] = ptr[u]
  BY <1>1 DEF Shape, TypeOK
<1>4. \A q \in Procs, f \in Fds : fd_paths[q][f] # None => fd_paths'[q][f] # None
  <2> SUFFICES ASSUME NEW q \in Procs, NEW f \in Fds, fd_paths[q][f] # None
               PROVE  fd_paths'[q][f] # None
    OBVIOUS
  <2>1. IF ptr[t].at = <<q, f>> THEN Stored(fd_paths[q][f], fd_paths'[q][f], ptr[t])
        ELSE fd_paths'[q][f] = fd_paths[q][f]
    BY StoreEffect, SMTT(20)
  <2> QED
    BY <2>1 DEF Stored
<1>5. \A u \in Threads \ {t} : ptr[u] # None =>
        /\ ptr[u].at # Freed => fd_paths'[ptr[u].at[1]][ptr[u].at[2]] # None
        /\ ptr[u].fresh => ptr[u].at # Freed
  <2> SUFFICES ASSUME NEW u \in Threads \ {t}, ptr[u] # None, ptr[u].at # Freed
               PROVE  fd_paths'[ptr[u].at[1]][ptr[u].at[2]] # None
    BY PtrPlace
  <2>1. PICK q \in Procs, f \in Fds : ptr[u].at = <<q, f>> /\ fd_paths[q][f] # None
    BY PtrPlace
  <2> QED
    BY <1>4, <2>1, SMTT(20)
<1> QED
  BY <1>2, <1>3, <1>5, ShapeOf, SMTT(20)

\* e2 is the entry e after an mmap of that kind.
Mapped(e, e2, kind) ==
    /\ e # None /\ e2 # None
    /\ e \in EntryRecords /\ e2 \in EntryRecords
    /\ e2.path = e.path /\ e2.write_bytes = e.write_bytes /\ e2.excuse = e.excuse
    /\ e2.seen = e.seen \cup {kind}

LEMMA MmapEffect ==
    ASSUME Shape, NEW t \in Threads, NEW fd \in Fds, NEW kind \in {"mmap_read", "mmap_write"},
           trace_mmap(t, fd, kind)
    PROVE  /\ fd_paths' \in [Procs -> [Fds -> EntryRecords \cup {None}]]
           /\ \A q \in Procs, f \in Fds : q # ProcOf(t) \/ f # fd => fd_paths'[q][f] = fd_paths[q][f]
           /\ \/ fd_paths'[ProcOf(t)][fd] = fd_paths[ProcOf(t)][fd]
              \/ Mapped(fd_paths[ProcOf(t)][fd], fd_paths'[ProcOf(t)][fd], kind)
<1>1. ProcOf(t) \in Procs
  BY Programs1
<1>2. PICK p \in Procs : p = ProcOf(t)
  BY <1>1
<1>3. fd_paths \in [Procs -> [Fds -> EntryRecords \cup {None}]]
  BY DEF Shape, TypeOK
<1>4. CASE fd_paths[p][fd] # None /\ kind \notin fd_paths[p][fd].seen
  <2>1. PICK e \in EntryRecords : e = fd_paths[p][fd]
    BY <1>4, Values
  <2>2. PICK s : s = e.seen \cup {kind}
    OBVIOUS
  <2>3. s \in SUBSET {"write", "mmap_read", "mmap_write"}
    BY <2>2 DEF EntryRecords
  <2>4. PICK r : r = [e EXCEPT !.seen = s]
    OBVIOUS
  <2>5. r \in EntryRecords
    BY <2>3, <2>4 DEF EntryRecords
  <2>6. r.path = e.path /\ r.write_bytes = e.write_bytes /\ r.seen = s /\ r.excuse = e.excuse
    BY <2>3, <2>4 DEF EntryRecords
  <2>7. fd_paths' = [fd_paths EXCEPT ![p][fd] = r]
    <3>1. fd_paths' = [fd_paths EXCEPT ![p][fd].seen = @ \cup {kind}]
      BY <1>2, <1>4 DEF trace_mmap
    <3> QED
      BY <1>3, <2>1, <2>2, <2>4, <3>1
  <2>8. fd_paths' \in [Procs -> [Fds -> EntryRecords \cup {None}]]
        /\ \A q \in Procs, f \in Fds :
             fd_paths'[q][f] = IF q = p /\ f = fd THEN r ELSE fd_paths[q][f]
    BY <1>3, <2>5, <2>7, SetPlace, SMTT(20)
  <2>9. Mapped(fd_paths[p][fd], fd_paths'[p][fd], kind)
    <3>1. fd_paths'[p][fd] = r /\ r # None /\ e # None
      BY <2>5, <2>8, NoneAssumption
    <3> QED
      BY <2>1, <2>2, <2>5, <2>6, <3>1 DEF Mapped
  <2> QED
    BY <1>2, <2>8, <2>9
<1>5. CASE ~(fd_paths[p][fd] # None /\ kind \notin fd_paths[p][fd].seen)
  <2>1. UNCHANGED fd_paths
    BY <1>2, <1>5 DEF trace_mmap
  <2> QED
    BY <1>3, <2>1
<1> QED
  BY <1>4, <1>5

LEMMA MmapShape ==
    ASSUME Shape, NEW t \in Threads, NEW fd \in Fds, NEW kind \in {"mmap_read", "mmap_write"},
           trace_mmap(t, fd, kind), UNCHANGED program
    PROVE  Shape'
<1>1. UNCHANGED <<table, call, inflight_open, inflight_write, ptr, unreported>> /\ Idle(t)
  BY DEF trace_mmap, kernel
<1>2. fd_paths' \in [Procs -> [Fds -> EntryRecords \cup {None}]]
  BY MmapEffect
<1>3. TypeOK'
  BY <1>1, <1>2 DEF Shape, TypeOK
<1>4. \A q \in Procs, f \in Fds : fd_paths[q][f] # None => fd_paths'[q][f] # None
  BY MmapEffect, SMTT(20) DEF Mapped
<1>5. call[t] = None /\ ptr[t] = None
  BY <1>1, IdleNoPtr DEF Idle
<1> QED
  BY <1>1, <1>3, <1>4, <1>5, PtrStay, ShapeOf

\* bpf_map_delete_elem, place by place.
LEMMA DropEffect ==
    ASSUME Shape, NEW p \in Procs, NEW fd \in Fds, DropEntry(p, fd)
    PROVE  /\ fd_paths' \in [Procs -> [Fds -> EntryRecords \cup {None}]]
           /\ ptr' \in [Threads -> PtrRecords \cup {None}]
           /\ fd_paths'[p][fd] = None
           /\ \A q \in Procs, f \in Fds : q # p \/ f # fd => fd_paths'[q][f] = fd_paths[q][f]
           /\ \A u \in Threads :
                /\ ptr'[u] = None <=> ptr[u] = None
                /\ ptr[u] # None =>
                     /\ ptr'[u].sum = ptr[u].sum
                     /\ ptr'[u].at = IF ptr[u].at = <<p, fd>> THEN Freed ELSE ptr[u].at
                     /\ ptr'[u].fresh <=> ptr[u].fresh /\ ptr[u].at # <<p, fd>>
<1> DEFINE to == [at \in Elements |-> IF at = <<p, fd>> THEN Freed ELSE at]
<1>1. to \in [Elements -> Elements]
  BY DEF Elements
<1>2. Repoint(to)
  BY DEF DropEntry
<1>3. fd_paths \in [Procs -> [Fds -> EntryRecords \cup {None}]]
      /\ fd_paths' = [fd_paths EXCEPT ![p][fd] = None]
  BY DEF DropEntry, Shape, TypeOK
<1>4. fd_paths' \in [Procs -> [Fds -> EntryRecords \cup {None}]]
      /\ \A q \in Procs, f \in Fds :
           fd_paths'[q][f] = IF q = p /\ f = fd THEN None ELSE fd_paths[q][f]
  <2>1. None \in EntryRecords \cup {None}
    OBVIOUS
  <2> QED
    BY <1>3, <2>1, SetPlace
<1>5. \A at \in Elements : to[at] = IF at = <<p, fd>> THEN Freed ELSE at
  OBVIOUS
<1>6. <<p, fd>> # Freed
  BY NoneAssumption DEF Freed
<1> HIDE DEF to
<1>7. ptr' \in [Threads -> PtrRecords \cup {None}]
  BY <1>1, <1>2, Repointed
<1>8. \A u \in Threads :
        /\ ptr'[u] = None <=> ptr[u] = None
        /\ ptr[u] # None => /\ ptr'[u].at = to[ptr[u].at]
                            /\ ptr'[u].sum = ptr[u].sum
                            /\ ptr'[u].fresh <=> ptr[u].fresh /\ ptr'[u].at = ptr[u].at
  BY <1>1, <1>2, Repointed
<1>9. \A u \in Threads : ptr[u] # None => ptr[u].at \in Elements
  BY Values DEF PtrRecords
<1>10. ASSUME NEW u \in Threads, ptr[u] # None
       PROVE  /\ ptr'[u].at = IF ptr[u].at = <<p, fd>> THEN Freed ELSE ptr[u].at
              /\ ptr'[u].fresh <=> ptr[u].fresh /\ ptr[u].at # <<p, fd>>
  <2>1. ptr'[u].at = IF ptr[u].at = <<p, fd>> THEN Freed ELSE ptr[u].at
    BY <1>5, <1>8, <1>9, <1>10
  <2>2. ptr'[u].at = ptr[u].at <=> ptr[u].at # <<p, fd>>
    BY <1>6, <2>1
  <2> QED
    BY <1>8, <1>10, <2>1, <2>2
<1> QED
  BY <1>4, <1>7, <1>8, <1>10

LEMMA CloseShape ==
    ASSUME Shape, NEW t \in Threads, NEW fd \in Fds, trace_close(t, fd), UNCHANGED program
    PROVE  Shape'
<1>1. ProcOf(t) \in Procs
  BY Programs1
<1>2. PICK p \in Procs : p = ProcOf(t)
  BY <1>1
<1>3. DropEntry(p, fd) /\ UNCHANGED <<table, inflight_open, inflight_write>> /\ Idle(t)
  BY <1>2 DEF trace_close
<1>4. PICK c : c = Call("close", {fd}, None)
  OBVIOUS
<1>5. c \in CallRecords /\ c.done = FALSE /\ c.ret = None
  BY <1>4 DEF Call, CallRecords
<1>6. call' = [call EXCEPT ![t] = c]
  BY <1>4 DEF trace_close, Enter
<1>7. unreported' \in [Procs -> Int]
  <2>1. unreported \in [Procs -> Int]
    BY DEF Shape, TypeOK
  <2>2. CASE fd_paths[p][fd] # None /\ "write" \in fd_paths[p][fd].seen
    <3>1. fd_paths[p][fd].write_bytes \in Nat
      BY <2>2, Values DEF EntryRecords
    <3>2. unreported' \in {unreported, [unreported EXCEPT ![p] = @ - fd_paths[p][fd].write_bytes]}
      BY <1>2, <2>2 DEF trace_close
    <3> QED
      BY <2>1, <3>1, <3>2, SMTT(20)
  <2>3. CASE ~(fd_paths[p][fd] # None /\ "write" \in fd_paths[p][fd].seen)
    BY <1>2, <2>1, <2>3 DEF trace_close
  <2> QED
    BY <2>2, <2>3
<1>8. fd_paths' \in [Procs -> [Fds -> EntryRecords \cup {None}]]
      /\ ptr' \in [Threads -> PtrRecords \cup {None}]
  BY <1>3, DropEffect
<1>9. TypeOK'
  BY <1>3, <1>5, <1>6, <1>7, <1>8 DEF Shape, TypeOK
<1>10. call'[t] = c /\ \A u \in Threads \ {t} : call'[u] = call[u]
  BY <1>6 DEF Shape, TypeOK
<1>11. ptr[t] = None
  BY <1>3, IdleNoPtr
<1>12. ASSUME NEW u \in Threads, ptr'[u] # None
       PROVE  /\ ptr'[u].at # Freed => fd_paths'[ptr'[u].at[1]][ptr'[u].at[2]] # None
              /\ ptr'[u].fresh => ptr'[u].at # Freed
              /\ ptr[u] # None
  <2>1. /\ ptr[u] # None
        /\ ptr'[u].at = IF ptr[u].at = <<p, fd>> THEN Freed ELSE ptr[u].at
        /\ ptr'[u].fresh <=> ptr[u].fresh /\ ptr[u].at # <<p, fd>>
    BY <1>3, <1>12, DropEffect
  <2>2. ptr[u].fresh => ptr[u].at # Freed
    BY <2>1, PtrPlace
  <2>3. CASE ptr'[u].at # Freed
    <3>1. ptr[u].at # <<p, fd>> /\ ptr'[u].at = ptr[u].at
      BY <2>1, <2>3
    <3>2. PICK q \in Procs, f \in Fds : ptr[u].at = <<q, f>> /\ fd_paths[q][f] # None
      BY <2>1, <2>3, <3>1, PtrPlace
    <3>3. q # p \/ f # fd
      BY <3>1, <3>2
    <3>4. fd_paths'[q][f] = fd_paths[q][f]
      BY <1>3, <3>3, DropEffect, SMTT(20)
    <3>5. fd_paths'[ptr'[u].at[1]][ptr'[u].at[2]] # None
      BY <3>1, <3>2, <3>4, SMTT(20)
    <3> QED
      BY <2>1, <2>3, <3>5
  <2> QED
    BY <2>1, <2>2, <2>3
<1> QED
  BY <1>5, <1>9, <1>10, <1>11, <1>12, DropEffect, <1>3, ShapeOf

LEMMA KernelCloseEffect ==
    ASSUME Shape, NEW t \in Threads, KernelClose(t)
    PROVE  \E fd \in Fds :
             /\ call[t].fds = {fd} /\ InCall(t, "close")
             /\ table' \in [Procs -> [Fds -> FileRecords \cup {None}]]
             /\ table'[ProcOf(t)][fd] = None
             /\ \A q \in Procs, f \in Fds : q # ProcOf(t) \/ f # fd => table'[q][f] = table[q][f]
             /\ call' = [call EXCEPT ![t] = None]
             /\ UNCHANGED <<inflight_open, inflight_write, fd_paths, ptr, unreported>>
<1>1. PICK p \in Procs : p = ProcOf(t)
  BY Programs1
<1>2. /\ InCall(t, "close") /\ call' = [call EXCEPT ![t] = None]
      /\ UNCHANGED <<inflight_open, inflight_write, fd_paths, ptr, unreported>>
  BY DEF KernelClose, Return, maps
<1>3. PICK fd \in Fds : fd = (CHOOSE f \in call[t].fds : TRUE) /\ call[t].fds = {fd}
  BY <1>2, OneFd
<1>4. table' = [table EXCEPT ![p][fd] = None]
  BY <1>1, <1>3 DEF KernelClose
<1>5. /\ table' \in [Procs -> [Fds -> FileRecords \cup {None}]]
      /\ table'[p][fd] = None
      /\ \A q \in Procs, f \in Fds : q # p \/ f # fd => table'[q][f] = table[q][f]
  <2>1. None \in FileRecords \cup {None} /\ table \in [Procs -> [Fds -> FileRecords \cup {None}]]
    BY DEF Shape, TypeOK
  <2>2. table' \in [Procs -> [Fds -> FileRecords \cup {None}]]
        /\ \A q \in Procs, f \in Fds :
             table'[q][f] = IF q = p /\ f = fd THEN None ELSE table[q][f]
    BY <1>4, <2>1, SetPlace
  <2> QED
    BY <2>2
<1> WITNESS fd \in Fds
<1> QED
  BY <1>1, <1>2, <1>3, <1>5

LEMMA KernelCloseShape ==
    ASSUME Shape, NEW t \in Threads, KernelClose(t), UNCHANGED program
    PROVE  Shape'
<1>1. /\ InCall(t, "close") /\ call' = [call EXCEPT ![t] = None]
      /\ table' \in [Procs -> [Fds -> FileRecords \cup {None}]]
      /\ UNCHANGED <<inflight_open, inflight_write, fd_paths, ptr, unreported>>
  BY KernelCloseEffect
<1>2. TypeOK'
  BY <1>1 DEF Shape, TypeOK
<1>3. call'[t] = None /\ \A u \in Threads \ {t} : call'[u] = call[u]
  BY <1>1 DEF Shape, TypeOK
<1>4. ptr[t] = None
  BY <1>1 DEF Shape, PtrLive, InCall
<1> QED
  BY <1>1, <1>2, <1>3, <1>4, PtrStay, ShapeOf

LEMMA KernelDupEffect ==
    ASSUME Shape, NEW t \in Threads, NEW fd \in Fds, NEW new \in Fds, KernelDup(t, fd, new)
    PROVE  /\ table[ProcOf(t)][fd] # None /\ table[ProcOf(t)][new] = None
           /\ table' \in [Procs -> [Fds -> FileRecords \cup {None}]]
           /\ table'[ProcOf(t)][new] # None
           /\ table'[ProcOf(t)][new].wrote = 0 /\ table'[ProcOf(t)][new].excused = TRUE
           /\ \A q \in Procs, f \in Fds : q # ProcOf(t) \/ f # new => table'[q][f] = table[q][f]
           /\ UNCHANGED <<call, inflight_open, inflight_write, fd_paths, ptr, unreported>>
<1>1. PICK p \in Procs : p = ProcOf(t)
  BY Programs1
<1>2. table[p][fd] # None /\ table[p][new] = None
      /\ UNCHANGED <<call, inflight_open, inflight_write, fd_paths, ptr, unreported>>
  BY <1>1 DEF KernelDup, maps
<1>3. table[p][fd].path \in Paths
  BY <1>2, Values DEF FileRecords
<1>4. PICK v : v = File(table[p][fd].path, TRUE)
  OBVIOUS
<1>5. v \in FileRecords /\ v.wrote = 0 /\ v.excused = TRUE
  BY <1>3, <1>4 DEF File, FileRecords
<1>6. table' = [table EXCEPT ![p][new] = v]
  BY <1>1, <1>4 DEF KernelDup
<1>7. /\ table' \in [Procs -> [Fds -> FileRecords \cup {None}]]
      /\ table'[p][new] = v
      /\ \A q \in Procs, f \in Fds : q # p \/ f # new => table'[q][f] = table[q][f]
  <2>1. v \in FileRecords \cup {None} /\ table \in [Procs -> [Fds -> FileRecords \cup {None}]]
    BY <1>5 DEF Shape, TypeOK
  <2>2. table' \in [Procs -> [Fds -> FileRecords \cup {None}]]
        /\ \A q \in Procs, f \in Fds :
             table'[q][f] = IF q = p /\ f = new THEN v ELSE table[q][f]
    BY <1>6, <2>1, SetPlace, SMTT(20)
  <2> QED
    BY <2>2
<1>8. v # None
  BY <1>5, NoneAssumption
<1> QED
  BY <1>1, <1>2, <1>5, <1>7, <1>8

LEMMA KernelDupShape ==
    ASSUME Shape, NEW t \in Threads, NEW fd \in Fds, NEW new \in Fds, KernelDup(t, fd, new),
           UNCHANGED program
    PROVE  Shape'
<1>1. /\ table' \in [Procs -> [Fds -> FileRecords \cup {None}]]
      /\ UNCHANGED <<call, inflight_open, inflight_write, fd_paths, ptr, unreported>>
  BY KernelDupEffect
<1>2. TypeOK'
  BY <1>1 DEF Shape, TypeOK
<1>3. call[t] = None /\ ptr[t] = None
  BY IdleNoPtr DEF KernelDup, Idle
<1> QED
  BY <1>1, <1>2, <1>3, PtrStay, ShapeOf

\* e2 is the entry e of a descriptor that was released unseen.
Staled(e, e2) ==
    /\ e # None /\ e2 # None
    /\ e \in EntryRecords /\ e2 \in EntryRecords
    /\ e2.path = e.path /\ e2.write_bytes = e.write_bytes /\ e2.seen = e.seen
    /\ e2.excuse = e.excuse \cup {"stale"}

LEMMA KernelReleaseEffect ==
    ASSUME Shape, NEW t \in Threads, NEW fd \in Fds, KernelRelease(t, fd)
    PROVE  /\ fd_paths' \in [Procs -> [Fds -> EntryRecords \cup {None}]]
           /\ table' \in [Procs -> [Fds -> FileRecords \cup {None}]]
           /\ table'[ProcOf(t)][fd] = None
           /\ \/ fd_paths[ProcOf(t)][fd] = None /\ fd_paths'[ProcOf(t)][fd] = None
              \/ Staled(fd_paths[ProcOf(t)][fd], fd_paths'[ProcOf(t)][fd])
           /\ \A q \in Procs, f \in Fds : q # ProcOf(t) \/ f # fd =>
                table'[q][f] = table[q][f] /\ fd_paths'[q][f] = fd_paths[q][f]
           /\ UNCHANGED <<call, inflight_open, inflight_write, ptr, unreported>>
<1>1. PICK p \in Procs : p = ProcOf(t)
  BY Programs1
<1>2. UNCHANGED <<call, inflight_open, inflight_write, ptr, unreported>>
      /\ table' = [table EXCEPT ![p][fd] = None]
  BY <1>1 DEF KernelRelease
<1>3. fd_paths \in [Procs -> [Fds -> EntryRecords \cup {None}]]
  BY DEF Shape, TypeOK
<1>4. /\ table' \in [Procs -> [Fds -> FileRecords \cup {None}]]
      /\ table'[p][fd] = None
      /\ \A q \in Procs, f \in Fds : q # p \/ f # fd => table'[q][f] = table[q][f]
  <2>1. None \in FileRecords \cup {None} /\ table \in [Procs -> [Fds -> FileRecords \cup {None}]]
    BY DEF Shape, TypeOK
  <2>2. table' \in [Procs -> [Fds -> FileRecords \cup {None}]]
        /\ \A q \in Procs, f \in Fds :
             table'[q][f] = IF q = p /\ f = fd THEN None ELSE table[q][f]
    BY <1>2, <2>1, SetPlace, SMTT(20)
  <2> QED
    BY <2>2
<1>5. CASE fd_paths[p][fd] # None
  <2>1. PICK e \in EntryRecords : e = fd_paths[p][fd]
    BY <1>5, Values
  <2>2. PICK x : x = e.excuse \cup {"stale"}
    OBVIOUS
  <2>3. x \in SUBSET {"base", "stale", "torn"}
    BY <2>2 DEF EntryRecords
  <2>4. PICK r : r = [e EXCEPT !.excuse = x]
    OBVIOUS
  <2>5. r \in EntryRecords
    BY <2>3, <2>4 DEF EntryRecords
  <2>6. r.path = e.path /\ r.write_bytes = e.write_bytes /\ r.seen = e.seen /\ r.excuse = x
    BY <2>3, <2>4 DEF EntryRecords
  <2>7. fd_paths' = [fd_paths EXCEPT ![p][fd] = r]
    <3>1. fd_paths' = [fd_paths EXCEPT ![p][fd].excuse = @ \cup {"stale"}]
      BY <1>1, <1>5 DEF KernelRelease
    <3> QED
      BY <1>3, <2>1, <2>2, <2>4, <3>1
  <2>8. fd_paths' \in [Procs -> [Fds -> EntryRecords \cup {None}]]
        /\ \A q \in Procs, f \in Fds :
             fd_paths'[q][f] = IF q = p /\ f = fd THEN r ELSE fd_paths[q][f]
    BY <1>3, <2>5, <2>7, SetPlace, SMTT(20)
  <2>9. Staled(fd_paths[p][fd], fd_paths'[p][fd])
    <3>1. fd_paths'[p][fd] = r /\ r # None /\ e # None
      BY <2>5, <2>8, NoneAssumption
    <3> QED
      BY <2>1, <2>2, <2>5, <2>6, <3>1 DEF Staled
  <2>10. \A q \in Procs, f \in Fds : q # p \/ f # fd => fd_paths'[q][f] = fd_paths[q][f]
    BY <2>8
  <2> QED
    BY <1>1, <1>2, <1>4, <2>8, <2>9, <2>10, SMTT(20)
<1>6. CASE fd_paths[p][fd] = None
  <2>1. UNCHANGED fd_paths
    BY <1>1, <1>6 DEF KernelRelease
  <2> QED
    BY <1>1, <1>2, <1>3, <1>4, <1>6, <2>1
<1> QED
  BY <1>5, <1>6

LEMMA KernelReleaseShape ==
    ASSUME Shape, NEW t \in Threads, NEW fd \in Fds, KernelRelease(t, fd), UNCHANGED program
    PROVE  Shape'
<1>1. /\ table' \in [Procs -> [Fds -> FileRecords \cup {None}]]
      /\ fd_paths' \in [Procs -> [Fds -> EntryRecords \cup {None}]]
      /\ UNCHANGED <<call, inflight_open, inflight_write, ptr, unreported>>
  BY KernelReleaseEffect
<1>2. TypeOK'
  BY <1>1 DEF Shape, TypeOK
<1>3. call[t] = None /\ ptr[t] = None
  BY IdleNoPtr DEF KernelRelease, Idle
<1>4. \A q \in Procs, f \in Fds : fd_paths[q][f] # None => fd_paths'[q][f] # None
  BY KernelReleaseEffect, SMTT(20) DEF Staled
<1> QED
  BY <1>1, <1>2, <1>3, <1>4, PtrStay, ShapeOf

\* The steps, with the types of what they take.
LEMMA Steps ==
    ASSUME Shape, Next
    PROVE  \E t \in Threads :
             \/ \E dirfd \in Fds \cup {AT_FDCWD}, name \in Paths, copied \in BOOLEAN :
                  name \in program.names[ProcOf(t)] /\ trace_enter_open(t, dirfd, name, copied)
             \/ KernelOpen(t)
             \/ trace_exit_open(t)
             \/ \E fd \in Fds, count \in Nat : trace_write(t, fd, count)
             \/ \E n \in -1 .. 1 : KernelWrite(t, n)
             \/ trace_exit_write(t)
             \/ StoreWriteBytes(t)
             \/ \E fd \in Fds, kind \in {"mmap_read", "mmap_write"} : trace_mmap(t, fd, kind)
             \/ \E fd \in Fds : trace_close(t, fd)
             \/ \E fd \in Fds : KernelRelease(t, fd)
             \/ KernelClose(t)
             \/ \E fd, new \in Fds : KernelDup(t, fd, new)
             \/ \E op \in PathOps, dirfd \in Fds \cup {AT_FDCWD}, name \in Paths, copied \in BOOLEAN :
                  /\ name \in program.names[ProcOf(t)]
                  /\ trace_path(t, op, dirfd, name, copied)
<1>1. Step
  BY DEF Next
<1>2. PICK t \in Threads :
        \/ \E dirfd \in DirFds, name \in program.names[ProcOf(t)], copied \in BOOLEAN :
             trace_enter_open(t, dirfd, name, copied)
        \/ KernelOpen(t)
        \/ trace_exit_open(t)
        \/ \E fd \in program.fds, count \in (0 .. 1) \cap (0 .. program.bytes) : trace_write(t, fd, count)
        \/ \E n \in -1 .. 1 : KernelWrite(t, n)
        \/ trace_exit_write(t)
        \/ StoreWriteBytes(t)
        \/ \E fd \in program.fds, kind \in program.mmaps : trace_mmap(t, fd, kind)
        \/ \E fd \in program.fds : trace_close(t, fd) \/ KernelRelease(t, fd)
        \/ KernelClose(t)
        \/ \E fd, new \in program.fds : KernelDup(t, fd, new)
        \/ \E op \in PathOps, dirfd \in DirFds, name \in program.names[ProcOf(t)], copied \in BOOLEAN :
             trace_path(t, op, dirfd, name, copied)
  BY <1>1 DEF Step
<1>3. /\ program.fds \subseteq Fds /\ program.names[ProcOf(t)] \subseteq Paths
      /\ DirFds \subseteq Fds \cup {AT_FDCWD}
      /\ program.mmaps \subseteq {"mmap_read", "mmap_write"}
  BY Programs1 DEF DirFds
<1>4. (0 .. 1) \cap (0 .. program.bytes) \subseteq Nat
  BY Programs1, SMTT(20)
<1> WITNESS t \in Threads
<1> QED
  BY <1>2, <1>3, <1>4, ZenonT(60)

LEMMA NextShape == Shape /\ [Next]_vars => Shape'
<1> SUFFICES ASSUME Shape, [Next]_vars
             PROVE  Shape'
  OBVIOUS
<1>1. CASE Next
  <2>1. UNCHANGED program
    BY <1>1 DEF Next
  <2>2. PICK t \in Threads :
             \/ \E dirfd \in Fds \cup {AT_FDCWD}, name \in Paths, copied \in BOOLEAN :
                  name \in program.names[ProcOf(t)] /\ trace_enter_open(t, dirfd, name, copied)
             \/ KernelOpen(t)
             \/ trace_exit_open(t)
             \/ \E fd \in Fds, count \in Nat : trace_write(t, fd, count)
             \/ \E n \in -1 .. 1 : KernelWrite(t, n)
             \/ trace_exit_write(t)
             \/ StoreWriteBytes(t)
             \/ \E fd \in Fds, kind \in {"mmap_read", "mmap_write"} : trace_mmap(t, fd, kind)
             \/ \E fd \in Fds : trace_close(t, fd)
             \/ \E fd \in Fds : KernelRelease(t, fd)
             \/ KernelClose(t)
             \/ \E fd, new \in Fds : KernelDup(t, fd, new)
             \/ \E op \in PathOps, dirfd \in Fds \cup {AT_FDCWD}, name \in Paths, copied \in BOOLEAN :
                  /\ name \in program.names[ProcOf(t)]
                  /\ trace_path(t, op, dirfd, name, copied)
    BY <1>1, Steps
  <2>3. ASSUME NEW op \in PathOps, NEW dirfd, NEW name, NEW copied,
               trace_path(t, op, dirfd, name, copied)
        PROVE  Shape'
    <3>1. UNCHANGED <<table, call, inflight_open, inflight_write, fd_paths, ptr, unreported>>
      BY <2>3 DEF trace_path, kernel, maps
    <3>2. TypeOK'
      BY <2>1, <3>1 DEF Shape, TypeOK
    <3>3. Returned'
      BY <3>1 DEF Shape, Returned
    <3>4. PtrLive'
      BY <3>1 DEF Shape, PtrLive, InCall, Idle
    <3> QED
      BY <3>2, <3>3, <3>4 DEF Shape
  <2>4. ASSUME NEW n \in -1 .. 1, KernelWrite(t, n)
        PROVE  Shape'
    <3>1. n \in Int
      BY SMTT(20)
    <3> QED
      BY <2>1, <2>4, <3>1, KernelWriteShape
  <2> QED
    BY <2>1, <2>2, <2>3, <2>4, EnterOpenShape, KernelOpenShape, ExitOpenShape, WriteShape,
       ExitWriteShape, StoreShape, MmapShape, CloseShape, KernelReleaseShape, KernelCloseShape,
       KernelDupShape, ZenonT(60)
<1>2. CASE UNCHANGED vars
  <2>1. UNCHANGED <<program, table, call, inflight_open, inflight_write, fd_paths, ptr, unreported>>
    BY <1>2 DEF vars, kernel, maps
  <2>2. TypeOK'
    BY <2>1 DEF Shape, TypeOK
  <2>3. Returned'
    BY <2>1 DEF Shape, Returned
  <2>4. PtrLive'
    BY <2>1 DEF Shape, PtrLive, InCall, Idle
  <2> QED
    BY <2>2, <2>3, <2>4 DEF Shape
<1> QED
  BY <1>1, <1>2

\* What the state of fileop.bpf.c and of the kernel's tables is made of, whatever
\* the threads, the map sizes and the paths: in particular a program never stores
\* through a pointer to an element that no key leads to any more without the
\* element being free.
THEOREM TypeCorrect == Spec => []Shape
<1> QED
  BY InitShape, NextShape, PTL DEF Spec

\* What submit_fd_event puts in an event.
LEMMA Submitted ==
    ASSUME NEW p, NEW op, NEW entry, NEW bytes, NEW truth,
           submit_fd_event(p, op, entry, bytes, truth)
    PROVE  \/ evt' = None
           \/ /\ evt'.proc = p /\ evt'.path = entry.path /\ evt'.bytes = bytes
              /\ evt'.truth = IF entry.excuse = {} THEN truth ELSE None
BY SMTT(20) DEF submit_fd_event, Submit, NoEvent

-----------------------------------------------------------------------------
(***************************************************************************)
(* What holds of programs whose threads do not use a descriptor at the     *)
(* same time: what is true of the place of fd_paths and of table for one   *)
(* descriptor while no call uses it, and at each moment of a call that     *)
(* does.  What the calls of others can do to it is small: evict the entry, *)
(* or tear its counter.                                                    *)
(***************************************************************************)

\* What an entry says of its file, if extra bytes were not counted yet.
Agrees(entry, file, extra) ==
    /\ file # None /\ ~file.excused => entry # None /\ "stale" \notin entry.excuse
    /\ entry # None /\ entry.excuse \ {"torn"} = {} =>
         file # None /\ NamesPath(entry.path, file.path)
    /\ entry # None /\ entry.excuse = {} =>
         /\ entry.write_bytes + extra = file.wrote
         /\ "write" \in entry.seen <=> entry.write_bytes > 0

Place(p, fd, extra) == Agrees(fd_paths[p][fd], table[p][fd], extra)

OpenInv(t) ==
    LET p == ProcOf(t)
        c == call[t]
        real == IF c.done THEN table[p][c.ret].path ELSE RealPath(p, c.arg[1], c.arg[2]) IN
    /\ \A fd \in c.fds : fd # c.ret => Place(p, fd, 0)
    /\ c.arg[1] # AT_FDCWD => c.arg[1] \in c.fds
    /\ c.done /\ c.ret # None =>
         /\ c.ret \in c.fds
         /\ table[p][c.ret].wrote = 0
         /\ inflight_open[t] = None => table[p][c.ret].excused
         /\ fd_paths[p][c.ret] # None => fd_paths[p][c.ret].excuse \ {"torn"} # {}
    /\ inflight_open[t] # None /\ inflight_open[t].excuse = {} /\ (c.done => c.ret # None) =>
         real # None /\ NamesPath(inflight_open[t].path, real)

\* The bytes of a finished call that trace_exit_write has still to count.
Pending(t) == IF call[t].done /\ inflight_write[t] # None /\ call[t].ret > 0 THEN call[t].ret ELSE 0

WriteInv(t) ==
    LET p == ProcOf(t) IN
    \A fd \in call[t].fds :
        /\ inflight_write[t] \in {None, fd}
        /\ Place(p, fd, Pending(t))
        /\ ptr[t] # None =>
             /\ inflight_write[t] # None /\ call[t].ret > 0
             /\ IF ptr[t].fresh
                THEN /\ ptr[t].at = <<p, fd>>
                     /\ fd_paths[p][fd].excuse = {} => ptr[t].sum = table[p][fd].wrote
                ELSE fd_paths[p][fd] = None

CloseInv(t) == \A fd \in call[t].fds : fd_paths[ProcOf(t)][fd] = None

CallInv(t) ==
    /\ InCall(t, "open") => OpenInv(t)
    /\ InCall(t, "write") => WriteInv(t)
    /\ InCall(t, "close") => CloseInv(t)

\* A call uses descriptors that are open, and uses them alone.
Alone(t) ==
    call[t] # None => \A fd \in call[t].fds :
        /\ table[ProcOf(t)][fd] # None
        /\ \A u \in Threads : u # t /\ ProcOf(u) = ProcOf(t) => ~Uses(u, fd)

\* Each map of calls in progress holds only calls of its own kind.
InflightOwn ==
    \A t \in Threads :
        /\ inflight_open[t] # None => InCall(t, "open")
        /\ inflight_write[t] # None => InCall(t, "write")

Exclusive ==
    /\ \A t \in Threads : Alone(t) /\ CallInv(t)
    /\ \A p \in Procs, fd \in Fds : Quiet(p, fd) => Place(p, fd, 0)
    /\ InflightOwn

-----------------------------------------------------------------------------
\* What the calls of others do to a place.
Decays(e, f, e2, f2) ==
    \/ e2 = e /\ f2 = f
    \/ e2 = None /\ Evicted(f, f2)
    \/ /\ f2 = f
       /\ e # None /\ e2 # None
       /\ e2.path = e.path
       /\ e2.excuse = e.excuse \cup {"torn"}

LEMMA DecaysAgrees ==
    ASSUME NEW e, NEW f, NEW e2, NEW f2, NEW extra, Decays(e, f, e2, f2), Agrees(e, f, extra)
    PROVE  Agrees(e2, f2, extra)
<1>1. CASE e2 = e /\ f2 = f
  BY <1>1
<1>2. CASE e2 = None /\ Evicted(f, f2)
  BY <1>2 DEF Agrees, Evicted
<1>3. CASE /\ f2 = f
           /\ e # None /\ e2 # None
           /\ e2.path = e.path
           /\ e2.excuse = e.excuse \cup {"torn"}
  <2>1. /\ e2.excuse # {}
        /\ e2.excuse \ {"torn"} = e.excuse \ {"torn"}
        /\ "stale" \in e2.excuse <=> "stale" \in e.excuse
    BY <1>3
  <2> QED
    BY <1>3, <2>1 DEF Agrees
<1> QED
  BY <1>1, <1>2, <1>3 DEF Decays

\* What is left of a place after it decayed.
LEMMA DecaysKeeps ==
    ASSUME NEW e, NEW f, NEW e2, NEW f2, Decays(e, f, e2, f2)
    PROVE  /\ f2 = None <=> f = None
           /\ f # None => f2.path = f.path /\ f2.wrote = f.wrote
           /\ f # None /\ f.excused => f2.excused
           /\ e = None => e2 = None
           /\ e2 # None => e # None /\ (e.excuse \ {"torn"} # {} => e2.excuse \ {"torn"} # {})
           /\ e2 # None /\ e2.excuse = {} => e2 = e /\ f2 = f
<1>1. CASE e2 = e /\ f2 = f
  BY <1>1
<1>2. CASE e2 = None /\ Evicted(f, f2)
  BY <1>2 DEF Evicted
<1>3. CASE /\ f2 = f
           /\ e # None /\ e2 # None
           /\ e2.path = e.path
           /\ e2.excuse = e.excuse \cup {"torn"}
  <2>1. e2.excuse # {} /\ e2.excuse \ {"torn"} = e.excuse \ {"torn"}
    BY <1>3
  <2> QED
    BY <1>3, <2>1
<1> QED
  BY <1>1, <1>2, <1>3 DEF Decays

\* The pointer of another thread stays, or its element was freed, with the entry.
PtrDecays(u, T) ==
    /\ ptr'[u] = None <=> ptr[u] = None
    /\ ptr[u] # None =>
         /\ ptr'[u].sum = ptr[u].sum
         /\ ptr'[u].fresh => ptr[u].fresh /\ ptr'[u].at = ptr[u].at
         /\ ~ptr'[u].fresh =>
              \/ ~ptr[u].fresh
              \/ ptr[u].at \in T
              \/ \E q \in Procs, f \in Fds : ptr[u].at = <<q, f>> /\ fd_paths'[q][f] = None


\* A call of another thread, none of whose descriptors the step touches.
LEMMA OtherCall ==
    ASSUME Shape, Shape', UNCHANGED program, NEW u \in Threads, NEW T, Alone(u), CallInv(u),
           call'[u] = call[u], inflight_open'[u] = inflight_open[u],
           inflight_write'[u] = inflight_write[u], PtrDecays(u, T),
           \A fd \in Fds : Uses(u, fd) =>
               /\ <<ProcOf(u), fd>> \notin T
               /\ Decays(fd_paths[ProcOf(u)][fd], table[ProcOf(u)][fd],
                         fd_paths'[ProcOf(u)][fd], table'[ProcOf(u)][fd])
    PROVE  CallInv(u)'
<1>1. PICK p \in Procs : p = ProcOf(u) /\ p = ProcOf(u)'
  BY Programs1 DEF ProcOf
<1>2. PICK c : c = call[u] /\ c = call'[u]
  OBVIOUS
<1>3. ASSUME NEW fd \in Fds, c # None, fd \in c.fds
      PROVE  /\ <<p, fd>> \notin T
             /\ Decays(fd_paths[p][fd], table[p][fd], fd_paths'[p][fd], table'[p][fd])
             /\ table[p][fd] # None
  BY <1>1, <1>2, <1>3 DEF Uses, Alone
<1>4. ASSUME NEW fd \in Fds, NEW extra, c # None, fd \in c.fds, Place(p, fd, extra)
      PROVE  Place(p, fd, extra)'
  BY <1>3, <1>4, DecaysAgrees DEF Place
<1>5. CASE InCall(u, "open")
  <2>1. c \in [sys : {"open"}, fds : SUBSET Fds, arg : (Fds \cup {AT_FDCWD}) \X Paths,
               done : BOOLEAN, ret : Fds \cup {None}]
    BY <1>2, <1>5, OpenCall
  <2>2. c # None /\ c.fds \subseteq Fds
    BY <1>2, <1>5, <2>1 DEF InCall, Idle
  <2>3. OpenInv(u)
    BY <1>5 DEF CallInv
  <2>4. \A fd \in c.fds : fd # c.ret => Place(p, fd, 0)'
    BY <1>1, <1>2, <1>4, <2>2, <2>3 DEF OpenInv
  <2>5. c.arg[1] # AT_FDCWD => c.arg[1] \in c.fds
    BY <1>2, <2>3 DEF OpenInv
  <2>6. c.done /\ c.ret # None =>
           /\ c.ret \in c.fds
           /\ table'[p][c.ret].wrote = 0
           /\ inflight_open[u] = None => table'[p][c.ret].excused
           /\ fd_paths'[p][c.ret] # None => fd_paths'[p][c.ret].excuse \ {"torn"} # {}
    <3>1. ASSUME c.done, c.ret # None
          PROVE  /\ c.ret \in c.fds
                 /\ table[p][c.ret].wrote = 0
                 /\ inflight_open[u] = None => table[p][c.ret].excused
                 /\ fd_paths[p][c.ret] # None => fd_paths[p][c.ret].excuse \ {"torn"} # {}
      BY <1>1, <1>2, <2>3, <3>1 DEF OpenInv
    <3> SUFFICES ASSUME c.done, c.ret # None
                 PROVE  /\ c.ret \in c.fds
                        /\ table'[p][c.ret].wrote = 0
                        /\ inflight_open[u] = None => table'[p][c.ret].excused
                        /\ fd_paths'[p][c.ret] # None => fd_paths'[p][c.ret].excuse \ {"torn"} # {}
      OBVIOUS
    <3>2. /\ Decays(fd_paths[p][c.ret], table[p][c.ret], fd_paths'[p][c.ret], table'[p][c.ret])
          /\ table[p][c.ret] # None
      BY <1>3, <2>2, <3>1
    <3> QED
      BY <3>1, <3>2, DecaysKeeps, SMTT(20)
  <2>7. ~c.done => RealPath(p, c.arg[1], c.arg[2])' = RealPath(p, c.arg[1], c.arg[2])
    <3>1. CASE c.arg[1] = AT_FDCWD
      BY <3>1 DEF RealPath
    <3>2. CASE c.arg[1] # AT_FDCWD
      <4>1. PICK d \in Fds : d = c.arg[1]
        BY <2>2, <2>5, <3>2
      <4>2. /\ Decays(fd_paths[p][d], table[p][d], fd_paths'[p][d], table'[p][d])
            /\ table[p][d] # None
        BY <1>3, <2>2, <2>5, <3>2, <4>1
      <4>3. table'[p][d] # None /\ table'[p][d].path = table[p][d].path
        BY <4>2, DecaysKeeps, SMTT(20)
      <4> QED
        BY <3>2, <4>1, <4>2, <4>3 DEF RealPath
    <3> QED
      BY <3>1, <3>2
  <2>8. c.done /\ c.ret # None => table'[p][c.ret].path = table[p][c.ret].path
    <3>1. ASSUME c.done, c.ret # None
          PROVE  /\ Decays(fd_paths[p][c.ret], table[p][c.ret], fd_paths'[p][c.ret], table'[p][c.ret])
                 /\ table[p][c.ret] # None
      BY <1>3, <2>2, <2>6, <3>1
    <3> QED
      BY <3>1, DecaysKeeps, SMTT(20)
  <2>9. inflight_open[u] # None /\ inflight_open[u].excuse = {} /\ (c.done => c.ret # None) =>
          LET real == IF c.done THEN table[p][c.ret].path ELSE RealPath(p, c.arg[1], c.arg[2]) IN
          real # None /\ NamesPath(inflight_open[u].path, real)
    BY <1>1, <1>2, <2>3 DEF OpenInv
  <2>10. OpenInv(u)'
    BY <1>1, <1>2, <2>4, <2>5, <2>6, <2>7, <2>8, <2>9 DEF OpenInv
  <2> QED
    BY <1>2, <1>5, <2>10 DEF CallInv, InCall, Idle
<1>6. CASE InCall(u, "write")
  <2>1. PICK fd \in Fds : c.fds = {fd} /\ c # None
    BY <1>2, <1>6, WriteCall DEF InCall, Idle
  <2>2. WriteInv(u)
    BY <1>6 DEF CallInv
  <2>3. /\ inflight_write[u] \in {None, fd}
        /\ Place(p, fd, Pending(u))
        /\ ptr[u] # None =>
             /\ inflight_write[u] # None /\ c.ret > 0
             /\ IF ptr[u].fresh
                THEN /\ ptr[u].at = <<p, fd>>
                     /\ fd_paths[p][fd].excuse = {} => ptr[u].sum = table[p][fd].wrote
                ELSE fd_paths[p][fd] = None
    BY <1>1, <1>2, <2>1, <2>2 DEF WriteInv
  <2>4. Pending(u)' = Pending(u)
    BY <1>2 DEF Pending
  <2>5. PICK x : x = Pending(u)
    OBVIOUS
  <2>6. Place(p, fd, x)'
    BY <1>4, <2>1, <2>3, <2>5
  <2>7. /\ <<p, fd>> \notin T
        /\ Decays(fd_paths[p][fd], table[p][fd], fd_paths'[p][fd], table'[p][fd])
    BY <1>3, <2>1
  <2>8. ASSUME ptr'[u] # None
        PROVE  /\ inflight_write[u] # None /\ c.ret > 0
               /\ IF ptr'[u].fresh
                  THEN /\ ptr'[u].at = <<p, fd>>
                       /\ fd_paths'[p][fd].excuse = {} => ptr'[u].sum = table'[p][fd].wrote
                  ELSE fd_paths'[p][fd] = None
    <3>1. /\ ptr[u] # None
          /\ ptr'[u].sum = ptr[u].sum
          /\ ptr'[u].fresh => ptr[u].fresh /\ ptr'[u].at = ptr[u].at
          /\ ~ptr'[u].fresh =>
               \/ ~ptr[u].fresh
               \/ ptr[u].at \in T
               \/ \E q \in Procs, f \in Fds : ptr[u].at = <<q, f>> /\ fd_paths'[q][f] = None
      BY <2>8 DEF PtrDecays
    <3>2. CASE ptr'[u].fresh
      <4>1. ptr'[u].at = <<p, fd>> /\ ptr[u].fresh
        BY <2>3, <3>1, <3>2
      <4>2. fd_paths'[p][fd] # None
        <5>1. ptr'[u].at # Freed
          BY <2>8, <3>2 DEF Shape, PtrLive
        <5>2. fd_paths'[ptr'[u].at[1]][ptr'[u].at[2]] # None
          BY <2>8, <5>1 DEF Shape, PtrLive
        <5> QED
          BY <4>1, <5>2, SMTT(20)
      <4>3. fd_paths'[p][fd].excuse = {} =>
              fd_paths'[p][fd] = fd_paths[p][fd] /\ table'[p][fd] = table[p][fd]
        BY <2>7, <4>2, DecaysKeeps, SMTT(20)
      <4> QED
        BY <2>3, <3>1, <3>2, <4>1, <4>3
    <3>3. CASE ~ptr'[u].fresh
      <4>1. fd_paths[p][fd] = None => fd_paths'[p][fd] = None
        BY <2>7, DecaysKeeps, SMTT(20)
      <4>2. CASE ~ptr[u].fresh
        BY <2>3, <3>1, <3>3, <4>1, <4>2
      <4>3. CASE ptr[u].fresh
        BY <2>3, <2>7, <3>1, <3>3, <4>3, SMTT(20)
      <4> QED
        BY <4>2, <4>3
    <3> QED
      BY <3>2, <3>3
  <2>9. WriteInv(u)'
    BY <1>1, <1>2, <2>1, <2>3, <2>4, <2>5, <2>6, <2>8 DEF WriteInv
  <2> QED
    BY <1>2, <1>6, <2>9 DEF CallInv, InCall, Idle
<1>7. CASE InCall(u, "close")
  <2>1. PICK fd \in Fds : c.fds = {fd} /\ c # None
    BY <1>2, <1>7, CloseCall DEF InCall, Idle
  <2>2. fd_paths[p][fd] = None
    BY <1>1, <1>2, <1>7, <2>1 DEF CallInv, CloseInv
  <2>3. Decays(fd_paths[p][fd], table[p][fd], fd_paths'[p][fd], table'[p][fd])
    BY <1>3, <2>1
  <2>4. fd_paths'[p][fd] = None
    BY <2>2, <2>3, DecaysKeeps, SMTT(20)
  <2>5. CloseInv(u)'
    BY <1>1, <1>2, <2>1, <2>4 DEF CloseInv
  <2> QED
    BY <1>2, <1>7, <2>5 DEF CallInv, InCall, Idle
<1>8. CASE ~InCall(u, "open") /\ ~InCall(u, "write") /\ ~InCall(u, "close")
  BY <1>2, <1>8 DEF CallInv, InCall, Idle
<1> QED
  BY <1>5, <1>6, <1>7, <1>8


LEMMA CallFds ==
    ASSUME Shape, NEW t \in Threads, call[t] # None
    PROVE  call[t].fds \subseteq Fds
<1>1. \/ call[t].fds \in SUBSET Fds
      \/ call[t].fds \in {{fd} : fd \in Fds}
  BY Values DEF CallRecords
<1> QED
  BY <1>1

\* A step of thread t that touches only the places of T in the maps of its process,
\* which no other thread uses.
Touches(t, T) ==
    /\ \A u \in Threads \ {t} :
         /\ call'[u] = call[u]
         /\ inflight_open'[u] = inflight_open[u]
         /\ inflight_write'[u] = inflight_write[u]
         /\ PtrDecays(u, {ProcOf(t)} \X T)
    /\ \A fd \in T, u \in Threads \ {t} : ProcOf(u) = ProcOf(t) => ~Uses(u, fd)
    /\ \A q \in Procs, f \in Fds : q # ProcOf(t) \/ f \notin T =>
         Decays(fd_paths[q][f], table[q][f], fd_paths'[q][f], table'[q][f])
    /\ call[t] # None => call[t].fds \subseteq T

\* What thread t then owes: the places of T are in order, whether it uses them still
\* or not.
Settles(t, T) ==
    /\ call'[t] # None => \A fd \in call'[t].fds : fd \in T /\ table'[ProcOf(t)][fd] # None
    /\ \A fd \in T : ~(call'[t] # None /\ fd \in call'[t].fds) => Place(ProcOf(t), fd, 0)'
    /\ CallInv(t)'
    /\ inflight_open'[t] # None => InCall(t, "open")'
    /\ inflight_write'[t] # None => InCall(t, "write")'

LEMMA StepExclusive ==
    ASSUME Shape, Shape', Exclusive, UNCHANGED program, NEW t \in Threads, NEW T \in SUBSET Fds,
           Touches(t, T), Settles(t, T)
    PROVE  Exclusive'
<1>1. PICK p \in Procs : p = ProcOf(t)
  BY Programs1
<1>2. \A u \in Threads : ProcOf(u)' = ProcOf(u) /\ ProcOf(u) \in Procs
  BY Programs1 DEF ProcOf
<1>3. \A u \in Threads \ {t} :
         /\ call'[u] = call[u]
         /\ inflight_open'[u] = inflight_open[u]
         /\ inflight_write'[u] = inflight_write[u]
         /\ PtrDecays(u, {p} \X T)
  BY <1>1 DEF Touches
<1>4. \A fd \in T, u \in Threads \ {t} : ProcOf(u) = p => ~Uses(u, fd)
  BY <1>1 DEF Touches
<1>5. \A q \in Procs, f \in Fds : q # p \/ f \notin T =>
         Decays(fd_paths[q][f], table[q][f], fd_paths'[q][f], table'[q][f])
  BY <1>1 DEF Touches
<1>6. \A fd : Uses(t, fd) \/ Uses(t, fd)' => fd \in T
  BY DEF Touches, Settles, Uses
<1>7. \A u \in Threads \ {t} : \A fd : Uses(u, fd)' <=> Uses(u, fd)
  BY <1>3 DEF Uses
<1>8. ASSUME NEW u \in Threads \ {t}, NEW fd \in Fds, Uses(u, fd)
      PROVE  /\ ProcOf(u) # p \/ fd \notin T
             /\ <<ProcOf(u), fd>> \notin {p} \X T
             /\ Decays(fd_paths[ProcOf(u)][fd], table[ProcOf(u)][fd],
                       fd_paths'[ProcOf(u)][fd], table'[ProcOf(u)][fd])
  <2>1. ProcOf(u) # p \/ fd \notin T
    BY <1>4, <1>8
  <2>2. <<ProcOf(u), fd>> \notin {p} \X T
    BY <2>1
  <2> QED
    BY <1>2, <1>5, <2>1, <2>2
<1>9. ASSUME NEW u \in Threads \ {t}, NEW fd, call[u] # None, fd \in call[u].fds
      PROVE  fd \in Fds
  BY <1>9, CallFds
<1>10. ASSUME NEW u \in Threads \ {t}
       PROVE  Alone(u)' /\ CallInv(u)'
  <2>1. Alone(u) /\ CallInv(u)
    BY DEF Exclusive
  <2>2. CallInv(u)'
    BY <1>3, <1>8, <2>1, OtherCall
  <2>3. ASSUME NEW fd, call[u] # None, fd \in call[u].fds
        PROVE  /\ table'[ProcOf(u)][fd] # None
               /\ \A v \in Threads : v # u /\ ProcOf(v) = ProcOf(u) => ~Uses(v, fd)'
    <3>1. fd \in Fds /\ Uses(u, fd)
      BY <1>9, <2>3 DEF Uses
    <3>2. table[ProcOf(u)][fd] # None
      BY <2>1, <2>3 DEF Alone
    <3>3. table'[ProcOf(u)][fd] # None
      <4>1. Decays(fd_paths[ProcOf(u)][fd], table[ProcOf(u)][fd],
                   fd_paths'[ProcOf(u)][fd], table'[ProcOf(u)][fd])
        BY <1>8, <3>1
      <4> QED
        BY <3>2, <4>1, DecaysKeeps, SMTT(20)
    <3>4. ASSUME NEW v \in Threads, v # u, ProcOf(v) = ProcOf(u)
          PROVE  ~Uses(v, fd)'
      <4>1. CASE v = t
        BY <1>1, <1>6, <1>8, <3>1, <3>4, <4>1
      <4>2. CASE v # t
        BY <1>7, <2>1, <2>3, <3>4, <4>2 DEF Alone
      <4> QED
        BY <4>1, <4>2
    <3> QED
      BY <3>3, <3>4
  <2>4. Alone(u)'
    BY <1>2, <1>3, <2>3 DEF Alone
  <2> QED
    BY <2>2, <2>4
<1>11. Alone(t)'
  <2>1. ASSUME NEW fd, call'[t] # None, fd \in call'[t].fds
        PROVE  /\ table'[p][fd] # None
               /\ \A v \in Threads : v # t /\ ProcOf(v) = p => ~Uses(v, fd)'
    <3>1. fd \in T /\ table'[p][fd] # None
      BY <1>1, <2>1 DEF Settles
    <3> QED
      BY <1>4, <1>7, <3>1
  <2> QED
    BY <1>1, <1>2, <2>1 DEF Alone
<1>12. CallInv(t)'
  BY DEF Settles
<1>13. ASSUME NEW q \in Procs, NEW f \in Fds, Quiet(q, f)'
       PROVE  Place(q, f, 0)'
  <2>1. \A u \in Threads : ProcOf(u) = q => ~Uses(u, f)'
    BY <1>2, <1>13 DEF Quiet
  <2>2. CASE q = p /\ f \in T
    BY <1>1, <1>2, <2>1, <2>2 DEF Settles, Uses
  <2>3. CASE q # p \/ f \notin T
    <3>1. Decays(fd_paths[q][f], table[q][f], fd_paths'[q][f], table'[q][f])
      BY <1>5, <2>3
    <3>2. \A u \in Threads : ProcOf(u) = q => ~Uses(u, f)
      BY <1>1, <1>6, <1>7, <2>1, <2>3
    <3>3. Place(q, f, 0)
      BY <3>2 DEF Exclusive, Quiet
    <3> QED
      BY <3>1, <3>3, DecaysAgrees DEF Place
  <2> QED
    BY <2>2, <2>3
<1>14. InflightOwn'
  <2>1. ASSUME NEW u \in Threads
        PROVE  /\ inflight_open'[u] # None => InCall(u, "open")'
               /\ inflight_write'[u] # None => InCall(u, "write")'
    <3>1. CASE u = t
      BY <3>1 DEF Settles
    <3>2. CASE u # t
      BY <1>3, <3>2 DEF Exclusive, InflightOwn, InCall, Idle
    <3> QED
      BY <3>1, <3>2
  <2> QED
    BY <2>1 DEF InflightOwn
<1> QED
  BY <1>10, <1>11, <1>12, <1>13, <1>14 DEF Exclusive


\* A descriptor that a call may take.
LEMMA Mine ==
    ASSUME Exclusive, NEW t \in Threads, NEW fd \in Fds, ProcOf(t) \in Procs,
           MayUse(t, fd), ~program.shared
    PROVE  /\ table[ProcOf(t)][fd] # None
           /\ Place(ProcOf(t), fd, 0)
           /\ \A u \in Threads : ProcOf(u) = ProcOf(t) => ~Uses(u, fd)
BY DEF MayUse, Quiet, Exclusive

LEMMA IdleThread ==
    ASSUME Shape, Exclusive, NEW t \in Threads, Idle(t)
    PROVE  inflight_open[t] = None /\ inflight_write[t] = None /\ ptr[t] = None /\ call[t] = None
BY IdleNoPtr DEF Exclusive, InflightOwn, InCall, Idle

\* The first conditions of Touches, for a step that moves no pointer.
LEMMA Undisturbed ==
    ASSUME NEW t \in Threads, NEW T,
           \A u \in Threads \ {t} :
               /\ call'[u] = call[u]
               /\ inflight_open'[u] = inflight_open[u]
               /\ inflight_write'[u] = inflight_write[u]
               /\ ptr'[u] = ptr[u],
           \A fd \in T, u \in Threads \ {t} : ProcOf(u) = ProcOf(t) => ~Uses(u, fd),
           \A q \in Procs, f \in Fds : q # ProcOf(t) \/ f \notin T =>
               fd_paths'[q][f] = fd_paths[q][f] /\ table'[q][f] = table[q][f],
           call[t] # None => call[t].fds \subseteq T
    PROVE  Touches(t, T)
BY DEF Touches, PtrDecays, Decays

\* A call goes on with the descriptors of T, or is over, or there is none.
LEMMA StaysBusy ==
    ASSUME NEW t \in Threads, NEW T, call'[t] # None, call'[t].fds = T,
           \A fd \in T : table'[ProcOf(t)][fd] # None, CallInv(t)',
           inflight_open'[t] # None => InCall(t, "open")',
           inflight_write'[t] # None => InCall(t, "write")'
    PROVE  Settles(t, T)
BY DEF Settles

LEMMA StaysIdle ==
    ASSUME UNCHANGED program, NEW t \in Threads, NEW T, NEW p, p = ProcOf(t), call'[t] = None,
           inflight_open'[t] = None, inflight_write'[t] = None,
           \A fd \in T : Place(p, fd, 0)'
    PROVE  Settles(t, T)
<1>1. CallInv(t)'
  BY DEF CallInv, InCall, Idle
<1>2. \A fd \in T : Place(ProcOf(t), fd, 0)'
  BY DEF ProcOf
<1> QED
  BY <1>1, <1>2 DEF Settles

\* Names resolved against an entry that agrees with its file.
LEMMA ResolveTrue ==
    ASSUME Shape, NEW p \in Procs, NEW dirfd \in Fds \cup {AT_FDCWD}, NEW name \in Paths,
           dirfd # AT_FDCWD => table[p][dirfd] # None /\ Place(p, dirfd, 0),
           Doubt(p, dirfd, name) = {}
    PROVE  /\ RealPath(p, dirfd, name) # None
           /\ NamesPath(resolve_dirfd_path(p, dirfd, name), RealPath(p, dirfd, name))
<1>1. CASE IsAbsolute(name)
  BY <1>1, NoneAssumption DEF RealPath, resolve_dirfd_path, NamesPath
<1>2. ASSUME NEW dir \in Paths, ~IsAbsolute(name)
      PROVE  dir \o name # None /\ NamesPath(name, dir \o name)
  <2>1. \E k \in 0 .. Len(dir \o name) :
          name = SubSeq(dir \o name, k + 1, Len(dir \o name))
    BY EndOf
  <2>2. dir \o name \in Paths
    BY Joined
  <2>3. dir \o name # None
    BY <2>2, NoneAssumption
  <2> QED
    BY <1>2, <2>1, <2>3 DEF NamesPath
<1>3. CASE ~IsAbsolute(name) /\ dirfd = AT_FDCWD
  BY <1>2, <1>3, FileOpAssumption DEF RealPath, resolve_dirfd_path
<1>4. CASE ~IsAbsolute(name) /\ dirfd # AT_FDCWD
  <2>1. PICK e, f : e = fd_paths[p][dirfd] /\ f = table[p][dirfd]
    OBVIOUS
  <2>2. /\ f # None /\ f.path \in Paths
        /\ e # None => e.path \in Paths
        /\ Agrees(e, f, 0)
    BY <1>4, <2>1, Values DEF FileRecords, EntryRecords, Place
  <2>3. RealPath(p, dirfd, name) = f.path \o name
    BY <1>4, <2>1, <2>2 DEF RealPath
  <2>4. CASE e = None
    <3>1. resolve_dirfd_path(p, dirfd, name) = name
      BY <1>4, <2>1, <2>4 DEF resolve_dirfd_path, Base
    <3> QED
      BY <1>2, <1>4, <2>2, <2>3, <3>1
  <2>5. CASE e # None
    <3>1. resolve_dirfd_path(p, dirfd, name) = e.path \o name
      BY <1>4, <2>1, <2>5 DEF resolve_dirfd_path, Base
    <3>2. e.path \o name # name
      <4>1. e.path \in Seq(STRING) /\ name \in Seq(STRING) /\ Len(e.path) > 0
        BY <2>2, <2>5, SMTT(20) DEF Paths
      <4>2. Len(e.path \o name) = Len(e.path) + Len(name)
        BY <4>1, SMTT(20)
      <4> QED
        BY <4>1, <4>2, SMTT(20)
    <3>3. e.excuse \ {"torn"} = {}
      BY <2>1, <3>1, <3>2 DEF Doubt, Base
    <3>4. NamesPath(e.path, f.path)
      BY <2>2, <2>5, <3>3 DEF Agrees
    <3>5. NamesPath(e.path \o name, f.path \o name)
      BY <2>2, <2>5, <3>4, NamesJoined
    <3>6. f.path \o name # None
      BY <2>2, Joined, NoneAssumption
    <3> QED
      BY <2>3, <3>1, <3>5, <3>6
  <2> QED
    BY <2>4, <2>5
<1> QED
  BY <1>1, <1>3, <1>4

LEMMA EnterOpenTrue ==
    ASSUME Shape, Shape', Exclusive, ~program.shared, UNCHANGED program, NEW t \in Threads,
           NEW dirfd \in Fds \cup {AT_FDCWD}, NEW name \in Paths, NEW copied \in BOOLEAN,
           trace_enter_open(t, dirfd, name, copied)
    PROVE  Exclusive'
<1>1. PICK p \in Procs : p = ProcOf(t) /\ p = ProcOf(t)'
  BY Programs1 DEF ProcOf
<1>2. PICK T \in SUBSET Fds : T = {dirfd} \ {AT_FDCWD}
  OBVIOUS
<1>3. /\ Idle(t) /\ MayUseDir(t, dirfd)
      /\ UNCHANGED <<table, inflight_write, fd_paths, ptr>>
  BY DEF trace_enter_open
<1>4. PICK c : c = Call("open", T, <<dirfd, name>>)
  OBVIOUS
<1>5. /\ call' = [call EXCEPT ![t] = c]
      /\ c.sys = "open" /\ c.fds = T /\ c.arg[1] = dirfd /\ c.arg[2] = name
      /\ c.done = FALSE /\ c.ret = None
  BY <1>2, <1>4 DEF trace_enter_open, Enter, Call
<1>6. call'[t] = c /\ \A u \in Threads \ {t} : call'[u] = call[u]
  BY <1>5 DEF Shape, TypeOK
<1>7. c # None
  <2>1. c \in CallRecords
    BY <1>4 DEF Call, CallRecords
  <2> QED
    BY <2>1, NoneAssumption
<1>8. inflight_open[t] = None /\ inflight_write[t] = None /\ ptr[t] = None /\ call[t] = None
  BY <1>3, IdleThread
<1>9. PICK o : o = [path |-> resolve_dirfd_path(p, dirfd, name), excuse |-> Doubt(p, dirfd, name)]
  OBVIOUS
<1>10. /\ inflight_open'[t] \in {None, o}
       /\ \A u \in Threads \ {t} : inflight_open'[u] = inflight_open[u]
  <2>1. inflight_open' \in {inflight_open, Remember(inflight_open, t, o)}
    BY <1>1, <1>9 DEF trace_enter_open
  <2>2. inflight_open \in [Threads -> OpenRecords \cup {None}]
    BY DEF Shape, TypeOK
  <2> QED
    BY <1>8, <2>1, <2>2 DEF Remember
<1>11. \A fd \in T : /\ table[p][fd] # None
                     /\ Place(p, fd, 0)
                     /\ \A u \in Threads : ProcOf(u) = p => ~Uses(u, fd)
  BY <1>1, <1>2, <1>3, Mine DEF MayUseDir
<1>12. Touches(t, T)
  BY <1>1, <1>3, <1>6, <1>8, <1>10, <1>11, Undisturbed
<1>13. \A fd \in T : Place(p, fd, 0)'
  BY <1>3, <1>11 DEF Place
<1>14. inflight_open'[t] # None /\ inflight_open'[t].excuse = {} =>
         /\ RealPath(p, dirfd, name)' # None
         /\ NamesPath(inflight_open'[t].path, RealPath(p, dirfd, name)')
  <2>1. RealPath(p, dirfd, name)' = RealPath(p, dirfd, name)
    BY <1>3 DEF RealPath
  <2>2. dirfd # AT_FDCWD => table[p][dirfd] # None /\ Place(p, dirfd, 0)
    BY <1>2, <1>11
  <2>3. o.excuse = Doubt(p, dirfd, name) /\ o.path = resolve_dirfd_path(p, dirfd, name)
    BY <1>9
  <2>4. o.excuse = {} => /\ RealPath(p, dirfd, name) # None
                        /\ NamesPath(o.path, RealPath(p, dirfd, name))
    BY <2>2, <2>3, ResolveTrue
  <2> QED
    BY <1>10, <2>1, <2>4
<1>15. OpenInv(t)'
  <2>1. dirfd # AT_FDCWD => dirfd \in T
    BY <1>2
  <2> QED
    BY <1>1, <1>5, <1>6, <1>13, <1>14, <2>1 DEF OpenInv
<1>16. CallInv(t)' /\ InCall(t, "open")'
  BY <1>5, <1>6, <1>7, <1>15 DEF CallInv, InCall, Idle
<1>17. Settles(t, T)
  <2>1. \A fd \in T : table'[ProcOf(t)][fd] # None
    BY <1>1, <1>3, <1>11
  <2>2. inflight_write'[t] = None /\ call'[t].fds = T /\ call'[t] # None
    BY <1>3, <1>5, <1>6, <1>7, <1>8
  <2> QED
    BY <1>16, <2>1, <2>2, StaysBusy
<1> QED
  BY <1>12, <1>17, StepExclusive


\* What is known of a thread in the middle of open.
LEMMA Opening ==
    ASSUME Shape, Exclusive, NEW t \in Threads, InCall(t, "open")
    PROVE  /\ OpenInv(t)
           /\ call[t] # None /\ call[t].fds \subseteq Fds
           /\ \A fd \in call[t].fds :
                /\ table[ProcOf(t)][fd] # None
                /\ \A u \in Threads \ {t} : ProcOf(u) = ProcOf(t) => ~Uses(u, fd)
           /\ inflight_write[t] = None /\ ptr[t] = None
<1>1. call[t] # None /\ call[t].sys = "open"
  BY DEF InCall, Idle
<1>2. inflight_write[t] = None /\ ptr[t] = None
  BY <1>1 DEF Exclusive, InflightOwn, Shape, PtrLive, InCall
<1> QED
  BY <1>1, <1>2, CallFds, SMTT(20) DEF Exclusive, CallInv, Alone

LEMMA KernelOpenTrue ==
    ASSUME Shape, Shape', Exclusive, ~program.shared, UNCHANGED program, NEW t \in Threads,
           KernelOpen(t)
    PROVE  Exclusive'
<1>1. PICK p \in Procs : p = ProcOf(t) /\ p = ProcOf(t)'
  BY Programs1 DEF ProcOf
<1>2. InCall(t, "open") /\ ~call[t].done
      /\ UNCHANGED <<inflight_open, inflight_write, fd_paths, ptr>>
  BY DEF KernelOpen, maps
<1>3. PICK c : c = call[t]
  OBVIOUS
<1>4. /\ c \in [sys : {"open"}, fds : SUBSET Fds, arg : (Fds \cup {AT_FDCWD}) \X Paths,
                done : BOOLEAN, ret : Fds \cup {None}]
      /\ ~c.done /\ c.ret = None /\ c # None
  BY <1>2, <1>3, OpenCall DEF InCall, Idle
<1>5. /\ \A fd \in c.fds : Place(p, fd, 0)
      /\ c.arg[1] # AT_FDCWD => c.arg[1] \in c.fds
      /\ inflight_open[t] # None /\ inflight_open[t].excuse = {} =>
           /\ RealPath(p, c.arg[1], c.arg[2]) # None
           /\ NamesPath(inflight_open[t].path, RealPath(p, c.arg[1], c.arg[2]))
  <2>1. OpenInv(t)
    BY <1>2, Opening
  <2>2. \A fd \in c.fds : fd # c.ret
    BY <1>4, NoneAssumption
  <2> QED
    BY <1>1, <1>3, <1>4, <2>1, <2>2 DEF OpenInv
<1>6. /\ c.fds \subseteq Fds
      /\ \A fd \in c.fds :
           /\ table[p][fd] # None
           /\ \A u \in Threads \ {t} : ProcOf(u) = p => ~Uses(u, fd)
      /\ inflight_write[t] = None /\ ptr[t] = None
  BY <1>1, <1>2, <1>3, Opening
<1>7. CASE \E fd \in program.fds :
             /\ RealPath(p, c.arg[1], c.arg[2]) # None
             /\ table[p][fd] = None
             /\ ~program.shared => Quiet(p, fd)
             /\ table' = [table EXCEPT ![p][fd] =
                            File(RealPath(p, c.arg[1], c.arg[2]), inflight_open[t] = None)]
             /\ Enter(t, [c EXCEPT !.done = TRUE, !.ret = fd, !.fds = @ \cup {fd}])
  <2>1. PICK fd \in Fds :
             /\ RealPath(p, c.arg[1], c.arg[2]) # None
             /\ table[p][fd] = None
             /\ Quiet(p, fd)
             /\ table' = [table EXCEPT ![p][fd] =
                            File(RealPath(p, c.arg[1], c.arg[2]), inflight_open[t] = None)]
             /\ call' = [call EXCEPT ![t] = [c EXCEPT !.done = TRUE, !.ret = fd, !.fds = @ \cup {fd}]]
    <3>1. program.fds \subseteq Fds
      BY FileOpAssumption DEF Shape, TypeOK
    <3> QED
      BY <1>7, <3>1 DEF Enter
  <2>2. PICK d : d = [c EXCEPT !.done = TRUE, !.ret = fd, !.fds = @ \cup {fd}]
    OBVIOUS
  <2>3. /\ d.sys = "open" /\ d.fds = c.fds \cup {fd} /\ d.arg = c.arg
        /\ d.done = TRUE /\ d.ret = fd
    BY <1>4, <2>2
  <2>4. call'[t] = d /\ \A u \in Threads \ {t} : call'[u] = call[u]
    BY <2>1, <2>2 DEF Shape, TypeOK
  <2>5. d # None
    <3>1. d \in CallRecords
      BY <1>4, <2>2 DEF CallRecords
    <3> QED
      BY <3>1, NoneAssumption
  <2>6. PICK new : new = File(RealPath(p, c.arg[1], c.arg[2]), inflight_open[t] = None)
    OBVIOUS
  <2>7. /\ new.path = RealPath(p, c.arg[1], c.arg[2]) /\ new.wrote = 0
        /\ inflight_open[t] = None => new.excused
    BY <2>6 DEF File
  <2>8. /\ table'[p][fd] = new
        /\ \A q \in Procs, f \in Fds : q # p \/ f # fd => table'[q][f] = table[q][f]
    <3>1. table \in [Procs -> [Fds -> FileRecords \cup {None}]]
      BY DEF Shape, TypeOK
    <3> QED
      BY <2>1, <2>6, <3>1
  <2>9. \A u \in Threads : ProcOf(u) = p => ~Uses(u, fd)
    BY <2>1 DEF Quiet
  <2>10. fd \notin c.fds
    BY <1>1, <1>3, <1>4, <2>9 DEF Uses
  <2>11. Place(p, fd, 0)
    BY <2>1 DEF Exclusive
  <2>12. PICK T \in SUBSET Fds : T = c.fds \cup {fd}
    BY <1>4
  <2>13. Touches(t, T)
    <3>1. \A f \in T, u \in Threads \ {t} : ProcOf(u) = p => ~Uses(u, f)
      BY <1>6, <2>9, <2>12
    <3>2. \A q \in Procs, f \in Fds : q # p \/ f \notin T =>
             fd_paths'[q][f] = fd_paths[q][f] /\ table'[q][f] = table[q][f]
      BY <1>2, <2>8, <2>12
    <3>3. call[t].fds \subseteq T
      BY <1>3, <2>12
    <3> QED
      BY <1>1, <1>2, <2>4, <3>1, <3>2, <3>3, Undisturbed
  <2>14. new # None
    <3>1. c.arg[1] \in Fds \cup {AT_FDCWD} /\ c.arg[2] \in Paths
      BY <1>4
    <3>2. RealPath(p, c.arg[1], c.arg[2]) \in Paths
      BY <2>1, <3>1, Resolved
    <3>3. new \in FileRecords
      BY <2>6, <3>2 DEF File, FileRecords
    <3> QED
      BY <3>3, NoneAssumption
  <2>15. \A f \in c.fds : Place(p, f, 0)' /\ table'[p][f] # None
    BY <1>2, <1>5, <1>6, <2>8, <2>10 DEF Place
  <2>16. fd_paths'[p][fd] # None => fd_paths'[p][fd].excuse \ {"torn"} # {}
    BY <1>2, <2>1, <2>11 DEF Place, Agrees
  <2>17. inflight_open'[t] # None /\ inflight_open'[t].excuse = {} =>
           /\ table'[p][fd].path # None
           /\ NamesPath(inflight_open'[t].path, table'[p][fd].path)
    BY <1>2, <1>5, <2>7, <2>8
  <2>18. OpenInv(t)'
    BY <1>1, <1>2, <1>5, <2>3, <2>4, <2>7, <2>8, <2>15, <2>16, <2>17 DEF OpenInv
  <2>19. CallInv(t)' /\ InCall(t, "open")'
    BY <2>3, <2>4, <2>5, <2>18 DEF CallInv, InCall, Idle
  <2>20. Settles(t, T)
    <3>1. \A f \in T : table'[ProcOf(t)][f] # None
      BY <1>1, <2>8, <2>12, <2>14, <2>15
    <3>2. inflight_write'[t] = None /\ call'[t].fds = T /\ call'[t] # None
      BY <1>2, <1>6, <2>3, <2>4, <2>5, <2>12
    <3> QED
      BY <2>19, <3>1, <3>2, StaysBusy
  <2> QED
    BY <2>13, <2>20, StepExclusive
<1>8. CASE call' = [call EXCEPT ![t] = [c EXCEPT !.done = TRUE]] /\ UNCHANGED table
  <2>1. PICK d : d = [c EXCEPT !.done = TRUE]
    OBVIOUS
  <2>2. /\ d.sys = "open" /\ d.fds = c.fds /\ d.arg = c.arg
        /\ d.done = TRUE /\ d.ret = None
    BY <1>4, <2>1
  <2>3. call'[t] = d /\ \A u \in Threads \ {t} : call'[u] = call[u]
    BY <1>8, <2>1 DEF Shape, TypeOK
  <2>4. d # None
    <3>1. d \in CallRecords
      BY <1>4, <2>1 DEF CallRecords
    <3> QED
      BY <3>1, NoneAssumption
  <2>5. PICK T \in SUBSET Fds : T = c.fds
    BY <1>4
  <2>6. Touches(t, T)
    BY <1>1, <1>2, <1>3, <1>6, <1>8, <2>3, <2>5, Undisturbed
  <2>7. \A f \in c.fds : Place(p, f, 0)'
    BY <1>2, <1>5, <1>8 DEF Place
  <2>8. OpenInv(t)'
    BY <1>1, <1>5, <2>2, <2>3, <2>7 DEF OpenInv
  <2>9. CallInv(t)' /\ InCall(t, "open")'
    BY <2>2, <2>3, <2>4, <2>8 DEF CallInv, InCall, Idle
  <2>10. Settles(t, T)
    <3>1. \A f \in T : table'[ProcOf(t)][f] # None
      BY <1>1, <1>6, <1>8, <2>5
    <3>2. inflight_write'[t] = None /\ call'[t].fds = T /\ call'[t] # None
      BY <1>2, <1>6, <2>2, <2>3, <2>4, <2>5
    <3> QED
      BY <2>9, <3>1, <3>2, StaysBusy
  <2> QED
    BY <2>6, <2>10, StepExclusive
<1> QED
  BY <1>1, <1>3, <1>7, <1>8 DEF KernelOpen, Enter


\* The entry of a file that open made, and the file.
LEMMA OpenedAgrees ==
    ASSUME NEW o \in OpenRecords, NEW f, f # None, f.wrote = 0,
           o.excuse = {} => NamesPath(o.path, f.path), NEW e,
           e = [path |-> o.path, excuse |-> o.excuse, write_bytes |-> 0, seen |-> {}]
    PROVE  Agrees(e, f, 0) /\ e \in EntryRecords /\ e # None
<1>1. e.path = o.path /\ e.excuse = o.excuse /\ e.write_bytes = 0 /\ e.seen = {}
  OBVIOUS
<1>2. e \in EntryRecords
  BY DEF OpenRecords, EntryRecords
<1>3. e # None
  BY <1>2, NoneAssumption
<1>4. o.excuse \subseteq {"base"}
  BY DEF OpenRecords
<1>5. "stale" \notin o.excuse /\ (o.excuse \ {"torn"} = {} => o.excuse = {})
  BY <1>4
<1> QED
  BY <1>1, <1>2, <1>3, <1>5, SMTT(20) DEF Agrees

LEMMA ExitOpenTrue ==
    ASSUME Shape, Shape', Exclusive, ~program.shared, UNCHANGED program, NEW t \in Threads,
           trace_exit_open(t)
    PROVE  Exclusive'
<1>1. PICK p \in Procs : p = ProcOf(t) /\ p = ProcOf(t)'
  BY Programs1 DEF ProcOf
<1>2. /\ InCall(t, "open") /\ call[t].done /\ UNCHANGED inflight_write
      /\ inflight_open' = [inflight_open EXCEPT ![t] = None]
      /\ call' = [call EXCEPT ![t] = None]
  BY DEF trace_exit_open, Forget, Return
<1>3. /\ call'[t] = None /\ inflight_open'[t] = None
      /\ \A u \in Threads \ {t} :
           /\ call'[u] = call[u]
           /\ inflight_open'[u] = inflight_open[u]
           /\ inflight_write'[u] = inflight_write[u]
  BY <1>2 DEF Shape, TypeOK
<1>4. /\ OpenInv(t)
      /\ call[t] # None /\ call[t].fds \subseteq Fds
      /\ \A fd \in call[t].fds :
           /\ table[p][fd] # None
           /\ \A u \in Threads \ {t} : ProcOf(u) = p => ~Uses(u, fd)
      /\ inflight_write[t] = None /\ ptr[t] = None
  BY <1>1, <1>2, Opening
<1>5. \A f \in call[t].fds : f # call[t].ret => Place(p, f, 0)
  BY <1>1, <1>4 DEF OpenInv
<1>6. call[t].ret # None =>
        /\ call[t].ret \in call[t].fds
        /\ table[p][call[t].ret].wrote = 0
        /\ inflight_open[t] = None => table[p][call[t].ret].excused
        /\ fd_paths[p][call[t].ret] # None => fd_paths[p][call[t].ret].excuse \ {"torn"} # {}
  BY <1>1, <1>2, <1>4 DEF OpenInv
<1>7. inflight_open[t] # None /\ inflight_open[t].excuse = {} /\ call[t].ret # None =>
        NamesPath(inflight_open[t].path, table[p][call[t].ret].path)
  BY <1>1, <1>2, <1>4 DEF OpenInv
<1>8. PICK T \in SUBSET Fds : T = call[t].fds
  BY <1>4
<1>9. CASE inflight_open[t] # None /\ call[t].ret # None
  <2>1. PICK e : e = [path |-> inflight_open[t].path, excuse |-> inflight_open[t].excuse,
                      write_bytes |-> 0, seen |-> {}]
    OBVIOUS
  <2>2. PICK fd \in Fds : fd = call[t].ret /\ fd \in T
    BY <1>6, <1>8, <1>9
  <2>3. UpdateFdPaths(p, fd, e)
    BY <1>1, <1>9, <2>1, <2>2 DEF trace_exit_open
  <2>4. inflight_open[t] \in OpenRecords
    BY <1>9, Values
  <2>5. Agrees(e, table[p][fd], 0) /\ e \in EntryRecords
    <3>1. table[p][fd] # None /\ table[p][fd].wrote = 0
      BY <1>4, <1>6, <1>8, <1>9, <2>2
    <3>2. inflight_open[t].excuse = {} => NamesPath(inflight_open[t].path, table[p][fd].path)
      BY <1>7, <1>9, <2>2
    <3>3. PICK o \in OpenRecords : o = inflight_open[t]
      BY <2>4
    <3>f. PICK f : f = table[p][fd]
      OBVIOUS
    <3>4. f # None /\ f.wrote = 0 /\ (o.excuse = {} => NamesPath(o.path, f.path))
      BY <3>1, <3>2, <3>3, <3>f
    <3>5. e = [path |-> o.path, excuse |-> o.excuse, write_bytes |-> 0, seen |-> {}]
      BY <2>1, <3>3
    <3>6. Agrees(e, f, 0) /\ e \in EntryRecords
      BY <3>4, <3>5, OpenedAgrees
    <3> QED
      BY <3>f, <3>6
  <2>6. fd_paths'[p][fd] = e /\ table'[p][fd] = table[p][fd]
    BY <2>3, <2>5, UpdateEffect, SMTT(20)
  <2>7. \A q \in Procs, f \in Fds : q # p \/ f # fd =>
           \/ fd_paths'[q][f] = fd_paths[q][f] /\ table'[q][f] = table[q][f]
           \/ fd_paths'[q][f] = None /\ Evicted(table[q][f], table'[q][f])
    BY <2>3, <2>5, UpdateEffect
  <2>8. \A u \in Threads :
           /\ ptr'[u] = None <=> ptr[u] = None
           /\ ptr[u] # None =>
                /\ ptr'[u].sum = ptr[u].sum
                /\ ptr'[u].fresh => ptr[u].fresh /\ ptr'[u].at = ptr[u].at
                /\ ~ptr'[u].fresh =>
                     \/ ~ptr[u].fresh
                     \/ ptr[u].at = <<p, fd>>
                     \/ \E q \in Procs, f \in Fds :
                           ptr[u].at = <<q, f>> /\ fd_paths'[q][f] = None
    <3>1. \A u \in Threads :
            /\ ptr'[u] = None <=> ptr[u] = None
            /\ ptr[u] # None =>
                 /\ ptr'[u].sum = ptr[u].sum
                 /\ ptr'[u].at # Freed => fd_paths'[ptr'[u].at[1]][ptr'[u].at[2]] # None
                 /\ ptr'[u].fresh => /\ ptr[u].fresh /\ ptr'[u].at = ptr[u].at
                                    /\ ptr[u].at # <<p, fd>>
                 /\ ~ptr'[u].fresh =>
                      \/ ~ptr[u].fresh
                      \/ ptr[u].at = <<p, fd>>
                      \/ \E q \in Procs, f \in Fds :
                            ptr[u].at = <<q, f>> /\ fd_paths'[q][f] = None
      BY <2>3, <2>5, UpdateEffect, SMTT(20)
    <3> QED
      BY <3>1
  <2>9. <<p, fd>> \in {p} \X T
    BY <2>2
  <2>10. \A u \in Threads : PtrDecays(u, {p} \X T)
    BY <2>8, <2>9 DEF PtrDecays
  <2>11. \A q \in Procs, f \in Fds : q # p \/ f # fd =>
           Decays(fd_paths[q][f], table[q][f], fd_paths'[q][f], table'[q][f])
    BY <2>7 DEF Decays
  <2>12. Touches(t, T)
    BY <1>1, <1>3, <1>4, <1>8, <2>2, <2>10, <2>11 DEF Touches
  <2>13. ASSUME NEW f \in T
         PROVE  Place(p, f, 0)'
    <3>1. CASE f = fd
      BY <2>5, <2>6, <3>1 DEF Place
    <3>2. CASE f # fd
      <4>1. Agrees(fd_paths[p][f], table[p][f], 0)
        BY <1>5, <1>8, <2>2, <3>2 DEF Place
      <4>2. Decays(fd_paths[p][f], table[p][f], fd_paths'[p][f], table'[p][f])
        BY <2>11, <3>2
      <4> QED
        BY <4>1, <4>2, DecaysAgrees DEF Place
    <3> QED
      BY <3>1, <3>2
  <2>14. Settles(t, T)
    BY <1>1, <1>2, <1>3, <1>4, <2>13, StaysIdle
  <2> QED
    BY <2>12, <2>14, StepExclusive
<1>10. CASE ~(inflight_open[t] # None /\ call[t].ret # None)
  <2>1. UNCHANGED <<table, fd_paths, ptr>>
    BY <1>10 DEF trace_exit_open
  <2>2. Touches(t, T)
    BY <1>1, <1>3, <1>4, <1>8, <2>1, Undisturbed
  <2>3. ASSUME NEW f \in T
        PROVE  Place(p, f, 0)
    <3>1. CASE f # call[t].ret
      BY <1>5, <1>8, <3>1
    <3>2. CASE f = call[t].ret
      <4>1. f # None /\ inflight_open[t] = None
        BY <1>10, <3>2, NoneAssumption
      <4>2. /\ table[p][f].excused
            /\ fd_paths[p][f] # None => fd_paths[p][f].excuse \ {"torn"} # {}
        BY <1>6, <3>2, <4>1
      <4> QED
        BY <4>2 DEF Place, Agrees
    <3> QED
      BY <3>1, <3>2
  <2>4. \A f \in T : Place(p, f, 0)'
    BY <2>1, <2>3 DEF Place
  <2>5. Settles(t, T)
    BY <1>1, <1>2, <1>3, <1>4, <2>4, StaysIdle
  <2> QED
    BY <2>2, <2>5, StepExclusive
<1> QED
  BY <1>9, <1>10


LEMMA WriteTrue ==
    ASSUME Shape, Shape', Exclusive, ~program.shared, UNCHANGED program, NEW t \in Threads,
           NEW fd \in Fds, NEW count \in Nat, trace_write(t, fd, count)
    PROVE  Exclusive'
<1>1. PICK p \in Procs : p = ProcOf(t) /\ p = ProcOf(t)'
  BY Programs1 DEF ProcOf
<1>2. Idle(t) /\ MayUse(t, fd) /\ UNCHANGED <<table, inflight_open, fd_paths, ptr>>
  BY DEF trace_write
<1>3. PICK c : c = Call("write", {fd}, count)
  OBVIOUS
<1>4. /\ call' = [call EXCEPT ![t] = c]
      /\ c.sys = "write" /\ c.fds = {fd} /\ c.done = FALSE
  BY <1>3 DEF trace_write, Enter, Call
<1>5. call'[t] = c /\ \A u \in Threads \ {t} : call'[u] = call[u]
  BY <1>4 DEF Shape, TypeOK
<1>6. c # None
  <2>1. c \in CallRecords
    BY <1>3 DEF Call, CallRecords
  <2> QED
    BY <2>1, NoneAssumption
<1>7. inflight_open[t] = None /\ inflight_write[t] = None /\ ptr[t] = None /\ call[t] = None
  BY <1>2, IdleThread
<1>8. /\ inflight_write'[t] \in {None, fd}
      /\ \A u \in Threads \ {t} : inflight_write'[u] = inflight_write[u]
  <2>1. inflight_write' \in {inflight_write, Remember(inflight_write, t, fd)}
    BY DEF trace_write
  <2>2. inflight_write \in [Threads -> Fds \cup {None}]
    BY DEF Shape, TypeOK
  <2> QED
    BY <1>7, <2>1, <2>2 DEF Remember
<1>9. /\ table[p][fd] # None
      /\ Place(p, fd, 0)
      /\ \A u \in Threads : ProcOf(u) = p => ~Uses(u, fd)
  BY <1>1, <1>2, Mine
<1>10. PICK T \in SUBSET Fds : T = {fd}
  OBVIOUS
<1>11. Touches(t, T)
  <2>1. \A f \in T, u \in Threads \ {t} : ProcOf(u) = ProcOf(t) => ~Uses(u, f)
    BY <1>1, <1>9, <1>10
  <2>2. \A u \in Threads \ {t} :
          /\ call'[u] = call[u]
          /\ inflight_open'[u] = inflight_open[u]
          /\ inflight_write'[u] = inflight_write[u]
          /\ ptr'[u] = ptr[u]
    BY <1>2, <1>5, <1>8
  <2> QED
    BY <1>2, <1>7, <2>1, <2>2, Undisturbed
<1>12. Place(p, fd, 0)' /\ Pending(t)' = 0 /\ ptr'[t] = None
  BY <1>2, <1>4, <1>5, <1>7, <1>9 DEF Place, Pending
<1>13. WriteInv(t)'
  BY <1>1, <1>4, <1>5, <1>8, <1>12 DEF WriteInv
<1>14. CallInv(t)' /\ InCall(t, "write")'
  BY <1>4, <1>5, <1>6, <1>13 DEF CallInv, InCall, Idle
<1>15. Settles(t, T)
  <2>1. \A f \in T : table'[ProcOf(t)][f] # None
    BY <1>1, <1>2, <1>9, <1>10
  <2>2. inflight_open'[t] = None /\ call'[t].fds = T /\ call'[t] # None
    BY <1>2, <1>4, <1>5, <1>6, <1>7, <1>10
  <2> QED
    BY <1>14, <2>1, <2>2, StaysBusy
<1> QED
  BY <1>11, <1>15, StepExclusive

\* What is known of a thread in the middle of write.
LEMMA Writing ==
    ASSUME Shape, Exclusive, NEW t \in Threads, InCall(t, "write"), NEW p, p = ProcOf(t)
    PROVE  \E fd \in Fds :
             /\ call[t] # None /\ call[t].sys = "write" /\ call[t].fds = {fd}
             /\ table[p][fd] # None
             /\ \A u \in Threads \ {t} : ProcOf(u) = p => ~Uses(u, fd)
             /\ inflight_open[t] = None
             /\ inflight_write[t] \in {None, fd}
             /\ Place(p, fd, Pending(t))
             /\ ptr[t] # None =>
                  /\ inflight_write[t] # None /\ call[t].ret > 0
                  /\ IF ptr[t].fresh
                     THEN /\ ptr[t].at = <<p, fd>>
                          /\ fd_paths[p][fd].excuse = {} => ptr[t].sum = table[p][fd].wrote
                     ELSE fd_paths[p][fd] = None
<1>1. call[t] # None /\ call[t].sys = "write"
  BY DEF InCall, Idle
<1>2. PICK fd \in Fds : call[t].fds = {fd}
  BY WriteCall
<1>3. inflight_open[t] = None
  BY <1>1 DEF Exclusive, InflightOwn, InCall
<1>4. table[p][fd] # None /\ \A u \in Threads \ {t} : ProcOf(u) = p => ~Uses(u, fd)
  BY <1>1, <1>2 DEF Exclusive, Alone
<1>5. WriteInv(t)
  BY DEF Exclusive, CallInv
<1>6. /\ inflight_write[t] \in {None, fd}
      /\ Place(p, fd, Pending(t))
      /\ ptr[t] # None =>
           /\ inflight_write[t] # None /\ call[t].ret > 0
           /\ IF ptr[t].fresh
              THEN /\ ptr[t].at = <<p, fd>>
                   /\ fd_paths[p][fd].excuse = {} => ptr[t].sum = table[p][fd].wrote
              ELSE fd_paths[p][fd] = None
  BY <1>2, <1>5 DEF WriteInv
<1> QED
  BY <1>1, <1>2, <1>3, <1>4, <1>6


LEMMA KernelWriteTrue ==
    ASSUME Shape, Shape', Exclusive, ~program.shared, UNCHANGED program, NEW t \in Threads,
           NEW n \in Int, KernelWrite(t, n)
    PROVE  Exclusive'
<1>1. PICK p \in Procs : p = ProcOf(t) /\ p = ProcOf(t)'
  BY Programs1 DEF ProcOf
<1>2. /\ InCall(t, "write") /\ ~call[t].done
      /\ UNCHANGED <<inflight_open, inflight_write, fd_paths, ptr>>
  BY DEF KernelWrite, maps
<1>3. PICK fd \in Fds :
        /\ call[t] # None /\ call[t].sys = "write" /\ call[t].fds = {fd}
        /\ table[p][fd] # None
        /\ \A u \in Threads \ {t} : ProcOf(u) = p => ~Uses(u, fd)
        /\ inflight_open[t] = None
        /\ inflight_write[t] \in {None, fd}
        /\ Place(p, fd, Pending(t))
  BY <1>1, <1>2, Writing
<1>4. Pending(t) = 0 /\ ptr[t] = None
  BY <1>2 DEF Pending, Shape, PtrLive
<1>5. PICK c : c = [call[t] EXCEPT !.done = TRUE, !.ret = n]
  OBVIOUS
<1>6. /\ call' = [call EXCEPT ![t] = c]
      /\ \A q \in Procs, f \in Fds : q # p \/ f # fd => table'[q][f] = table[q][f]
      /\ table'[p][fd] = IF n > 0 /\ inflight_write[t] # None
                         THEN [table[p][fd] EXCEPT !.wrote = @ + n] ELSE table[p][fd]
  <2>1. PICK g : g = CHOOSE f \in call[t].fds : TRUE
    OBVIOUS
  <2>2. g = fd
    BY <1>3, <2>1, KernelWriteEffect
  <2>3. call' = [call EXCEPT ![t] = [call[t] EXCEPT !.done = TRUE, !.ret = n]]
    BY KernelWriteEffect
  <2>4. \A q \in Procs, f \in Fds : q # p \/ f # g => table'[q][f] = table[q][f]
    <3>1. \A q \in Procs, f \in Fds :
             q # ProcOf(t) \/ f # (CHOOSE x \in call[t].fds : TRUE) => table'[q][f] = table[q][f]
      BY KernelWriteEffect, ZenonT(40)
    <3> QED
      BY <1>1, <2>1, <3>1, ZenonT(40)
  <2>5. table'[p][g] = IF n > 0 /\ inflight_write[t] # None
                       THEN [table[p][g] EXCEPT !.wrote = @ + n] ELSE table[p][g]
    BY <1>1, <2>1, KernelWriteEffect
  <2> QED
    BY <1>5, <2>2, <2>3, <2>4, <2>5
<1>7. /\ c.sys = "write" /\ c.fds = {fd} /\ c.done = TRUE /\ c.ret = n
      /\ c \in CallRecords
  <2>1. call[t] \in [sys : {"write"}, fds : {{f} : f \in Fds}, arg : Nat, done : BOOLEAN,
                     ret : Int \cup {None}]
    BY <1>2, WriteCall
  <2> QED
    BY <1>3, <1>5, <2>1 DEF CallRecords
<1>8. c # None
  BY <1>7, NoneAssumption
<1>9. call'[t] = c /\ \A u \in Threads \ {t} : call'[u] = call[u]
  BY <1>6 DEF Shape, TypeOK
<1>10. PICK T \in SUBSET Fds : T = {fd}
  OBVIOUS
<1>11. Touches(t, T)
  <2>1. \A f \in T, u \in Threads \ {t} : ProcOf(u) = ProcOf(t) => ~Uses(u, f)
    BY <1>1, <1>3, <1>10
  <2>2. \A u \in Threads \ {t} :
          /\ call'[u] = call[u]
          /\ inflight_open'[u] = inflight_open[u]
          /\ inflight_write'[u] = inflight_write[u]
          /\ ptr'[u] = ptr[u]
    BY <1>2, <1>9
  <2>3. \A q \in Procs, f \in Fds : q # ProcOf(t) \/ f \notin T =>
          fd_paths'[q][f] = fd_paths[q][f] /\ table'[q][f] = table[q][f]
    BY <1>1, <1>2, <1>6, <1>10
  <2> QED
    BY <1>3, <1>10, <2>1, <2>2, <2>3, Undisturbed, SMTT(20)
<1>12. PICK e, f, f2 : e = fd_paths[p][fd] /\ f = table[p][fd] /\ f2 = table'[p][fd]
  OBVIOUS
<1>13. /\ f \in FileRecords /\ Agrees(e, f, 0)
       /\ e # None => e \in EntryRecords
  BY <1>3, <1>4, <1>12, Values DEF Place
<1>14. Place(p, fd, Pending(t))' /\ f2 # None
  <2>1. CASE n > 0 /\ inflight_write[t] # None
    <3>1. Pending(t)' = n
      BY <1>2, <1>7, <1>9, <2>1 DEF Pending
    <3>2. /\ f2.path = f.path /\ f2.excused = f.excused /\ f2.wrote = f.wrote + n
          /\ f2 \in FileRecords
      BY <1>6, <1>12, <1>13, <2>1, SMTT(20) DEF FileRecords
    <3>3. f2 # None /\ f # None
      BY <1>13, <3>2, NoneAssumption
    <3>4. e # None => e.write_bytes \in Nat /\ f.wrote \in Nat
      BY <1>13 DEF EntryRecords, FileRecords
    <3>5. Agrees(e, f2, n)
      BY <1>13, <3>2, <3>3, <3>4, SMTT(20) DEF Agrees
    <3> QED
      BY <1>2, <1>12, <3>1, <3>3, <3>5 DEF Place
  <2>2. CASE ~(n > 0 /\ inflight_write[t] # None)
    <3>1. Pending(t)' = 0
      BY <1>2, <1>7, <1>9, <2>2 DEF Pending
    <3>2. f2 = f
      BY <1>6, <1>12, <2>2
    <3> QED
      BY <1>2, <1>3, <1>12, <1>13, <3>1, <3>2 DEF Place
  <2> QED
    BY <2>1, <2>2
<1>15. WriteInv(t)'
  BY <1>1, <1>2, <1>3, <1>4, <1>7, <1>9, <1>14 DEF WriteInv
<1>16. CallInv(t)' /\ InCall(t, "write")'
  BY <1>7, <1>8, <1>9, <1>15 DEF CallInv, InCall, Idle
<1>17. Settles(t, T)
  <2>1. \A x \in T : table'[ProcOf(t)][x] # None
    BY <1>1, <1>10, <1>12, <1>14
  <2>2. inflight_open'[t] = None /\ call'[t].fds = T /\ call'[t] # None
    BY <1>2, <1>3, <1>7, <1>8, <1>9, <1>10
  <2> QED
    BY <1>16, <2>1, <2>2, StaysBusy
<1> QED
  BY <1>11, <1>17, StepExclusive


LEMMA ExitWriteTrue ==
    ASSUME Shape, Shape', Exclusive, ~program.shared, UNCHANGED program, NEW t \in Threads,
           trace_exit_write(t)
    PROVE  Exclusive'
<1>1. PICK p \in Procs : p = ProcOf(t) /\ p = ProcOf(t)'
  BY Programs1 DEF ProcOf
<1>2. /\ InCall(t, "write") /\ call[t].done /\ ptr[t] = None /\ call[t].ret \in Int
      /\ UNCHANGED <<table, inflight_open, fd_paths>>
  BY ExitWriteEffect
<1>3. PICK fd \in Fds :
        /\ call[t] # None /\ call[t].sys = "write" /\ call[t].fds = {fd}
        /\ table[p][fd] # None
        /\ \A u \in Threads \ {t} : ProcOf(u) = p => ~Uses(u, fd)
        /\ inflight_open[t] = None
        /\ inflight_write[t] \in {None, fd}
        /\ Place(p, fd, Pending(t))
  BY <1>1, <1>2, Writing
<1>4. PICK T \in SUBSET Fds : T = {fd}
  OBVIOUS
<1>5. \A x \in T, u \in Threads \ {t} : ProcOf(u) = ProcOf(t) => ~Uses(u, x)
  BY <1>1, <1>3, <1>4
<1>6. CASE /\ inflight_write[t] \in Fds /\ call[t].ret > 0
           /\ fd_paths[p][inflight_write[t]] # None
           /\ \A u \in Threads \ {t} : ptr'[u] = ptr[u]
           /\ ptr'[t].at = <<p, inflight_write[t]>>
           /\ ptr'[t].fresh = TRUE
           /\ ptr'[t].sum = fd_paths[p][inflight_write[t]].write_bytes + call[t].ret
           /\ UNCHANGED <<call, inflight_write>>
  <2>1. inflight_write[t] = fd /\ inflight_write[t] # None
    BY <1>3, <1>6, NoneAssumption
  <2>2. Pending(t) = call[t].ret /\ Pending(t)' = Pending(t)
    BY <1>2, <1>6, <2>1 DEF Pending
  <2>3. Touches(t, T)
    BY <1>2, <1>3, <1>4, <1>5, <1>6, Undisturbed
  <2>4. Place(p, fd, Pending(t))'
    BY <1>2, <1>3, <2>2 DEF Place
  <2>5. fd_paths[p][fd].excuse = {} => ptr'[t].sum = table[p][fd].wrote
    BY <1>3, <1>6, <2>1, <2>2 DEF Place, Agrees
  <2>6. WriteInv(t)'
    BY <1>1, <1>2, <1>3, <1>6, <2>1, <2>4, <2>5 DEF WriteInv
  <2>7. CallInv(t)' /\ InCall(t, "write")'
    BY <1>3, <1>6, <2>6 DEF CallInv, InCall, Idle
  <2>8. Settles(t, T)
    <3>1. \A x \in T : table'[ProcOf(t)][x] # None
      BY <1>1, <1>2, <1>3, <1>4
    <3>2. inflight_open'[t] = None /\ call'[t].fds = T /\ call'[t] # None
      BY <1>2, <1>3, <1>4, <1>6
    <3> QED
      BY <2>7, <3>1, <3>2, StaysBusy
  <2> QED
    BY <2>3, <2>8, StepExclusive
<1>7. CASE /\ inflight_write[t] = None \/ call[t].ret <= 0
              \/ fd_paths[p][inflight_write[t]] = None
           /\ inflight_write' = [inflight_write EXCEPT ![t] = None]
           /\ call' = [call EXCEPT ![t] = None]
           /\ UNCHANGED ptr
  <2>1. /\ call'[t] = None /\ inflight_write'[t] = None
        /\ \A u \in Threads \ {t} : call'[u] = call[u] /\ inflight_write'[u] = inflight_write[u]
    BY <1>7 DEF Shape, TypeOK
  <2>2. Touches(t, T)
    BY <1>2, <1>3, <1>4, <1>5, <1>7, <2>1, Undisturbed
  <2>3. Place(p, fd, 0)
    <3>1. CASE inflight_write[t] = None \/ call[t].ret <= 0
      <4>1. inflight_write[t] = None \/ ~(call[t].ret > 0)
        BY <1>2, <3>1, SMTT(20)
      <4>2. Pending(t) = 0
        BY <4>1, Zenon DEF Pending
      <4> QED
        BY <1>3, <4>2
    <3>2. CASE ~(inflight_write[t] = None \/ call[t].ret <= 0)
      <4>1. fd_paths[p][fd] = None
        BY <1>3, <1>7, <3>2
      <4> QED
        BY <1>3, <4>1 DEF Place, Agrees
    <3> QED
      BY <3>1, <3>2
  <2>4. \A x \in T : Place(p, x, 0)'
    BY <1>2, <1>4, <2>3 DEF Place
  <2>5. Settles(t, T)
    BY <1>1, <1>2, <1>3, <2>1, <2>4, StaysIdle
  <2> QED
    BY <2>2, <2>5, StepExclusive
<1> QED
  <2>1. \/ /\ inflight_write[t] \in Fds /\ call[t].ret > 0
           /\ fd_paths[ProcOf(t)][inflight_write[t]] # None
           /\ \A u \in Threads \ {t} : ptr'[u] = ptr[u]
           /\ ptr'[t].at = <<ProcOf(t), inflight_write[t]>>
           /\ ptr'[t].fresh = TRUE
           /\ ptr'[t].sum = fd_paths[ProcOf(t)][inflight_write[t]].write_bytes + call[t].ret
           /\ UNCHANGED <<call, inflight_write>>
        \/ /\ inflight_write[t] = None \/ call[t].ret <= 0
              \/ fd_paths[ProcOf(t)][inflight_write[t]] = None
           /\ inflight_write' = [inflight_write EXCEPT ![t] = None]
           /\ call' = [call EXCEPT ![t] = None]
           /\ UNCHANGED ptr
    BY ExitWriteEffect DEF Forget
  <2> QED
    BY <1>1, <1>6, <1>7, <2>1


LEMMA StoreTrue ==
    ASSUME Shape, Shape', Exclusive, ~program.shared, UNCHANGED program, NEW t \in Threads,
           StoreWriteBytes(t)
    PROVE  Exclusive'
<1>1. PICK p \in Procs : p = ProcOf(t) /\ p = ProcOf(t)'
  BY Programs1 DEF ProcOf
<1>2. /\ ptr[t] # None /\ InCall(t, "write") /\ call[t].done
      /\ ptr' = [ptr EXCEPT ![t] = None]
      /\ inflight_write' = [inflight_write EXCEPT ![t] = None]
      /\ call' = [call EXCEPT ![t] = None]
      /\ UNCHANGED <<table, inflight_open>>
  BY StoreEffect
<1>3. \A q \in Procs, f \in Fds :
        IF ptr[t].at = <<q, f>> THEN Stored(fd_paths[q][f], fd_paths'[q][f], ptr[t])
        ELSE fd_paths'[q][f] = fd_paths[q][f]
  BY StoreEffect
<1>4. PICK fd \in Fds :
        /\ call[t] # None /\ call[t].sys = "write" /\ call[t].fds = {fd}
        /\ table[p][fd] # None
        /\ \A u \in Threads \ {t} : ProcOf(u) = p => ~Uses(u, fd)
        /\ inflight_open[t] = None
        /\ inflight_write[t] \in {None, fd}
        /\ Place(p, fd, Pending(t))
        /\ ptr[t] # None =>
             /\ inflight_write[t] # None /\ call[t].ret > 0
             /\ IF ptr[t].fresh
                THEN /\ ptr[t].at = <<p, fd>>
                     /\ fd_paths[p][fd].excuse = {} => ptr[t].sum = table[p][fd].wrote
                ELSE fd_paths[p][fd] = None
  BY <1>1, <1>2, Writing
<1>5. PICK T \in SUBSET Fds : T = {fd}
  OBVIOUS
<1>6. /\ call'[t] = None /\ inflight_write'[t] = None
      /\ \A u \in Threads \ {t} :
           /\ call'[u] = call[u]
           /\ inflight_open'[u] = inflight_open[u]
           /\ inflight_write'[u] = inflight_write[u]
           /\ ptr'[u] = ptr[u]
  BY <1>2 DEF Shape, TypeOK
<1>7. \A u \in Threads \ {t} : PtrDecays(u, {ProcOf(t)} \X T)
  BY <1>6 DEF PtrDecays
<1>8. \A x \in T, u \in Threads \ {t} : ProcOf(u) = ProcOf(t) => ~Uses(u, x)
  BY <1>1, <1>4, <1>5
<1>9. Pending(t) = call[t].ret /\ call[t].ret \in Int /\ call[t].ret > 0
  <2>1. call[t].ret \in Int
    BY <1>2, WriteCall
  <2> QED
    BY <1>2, <1>4, <2>1 DEF Pending
<1>10. CASE ptr[t].fresh
  <2>1. ptr[t].at = <<p, fd>>
    BY <1>2, <1>4, <1>10
  <2>2. Stored(fd_paths[p][fd], fd_paths'[p][fd], ptr[t])
    BY <1>3, <2>1
  <2>3. \A q \in Procs, f \in Fds : q # p \/ f # fd => fd_paths'[q][f] = fd_paths[q][f]
    BY <1>3, <2>1, SMTT(20)
  <2>4. PICK e, e2, file : e = fd_paths[p][fd] /\ e2 = fd_paths'[p][fd] /\ file = table[p][fd]
    OBVIOUS
  <2>5. /\ e # None /\ e2 # None /\ e.write_bytes \in Nat
        /\ e2.path = e.path /\ e2.excuse = e.excuse
        /\ e2.write_bytes = ptr[t].sum /\ "write" \in e2.seen
    BY <1>10, <2>2, <2>4 DEF Stored, EntryRecords
  <2>6. Agrees(e, file, call[t].ret) /\ (e.excuse = {} => ptr[t].sum = file.wrote)
    BY <1>2, <1>4, <1>9, <1>10, <2>4 DEF Place
  <2>7. e.excuse = {} => e2.write_bytes = file.wrote /\ e2.write_bytes > 0
    BY <1>9, <2>5, <2>6, SMTT(20) DEF Agrees
  <2>8. e2.excuse = {} => e2.write_bytes + 0 = file.wrote
    <3>1. ptr[t].sum \in Nat
      BY <1>2, Values DEF PtrRecords
    <3> QED
      BY <2>5, <2>7, <3>1, SMTT(20)
  <2>9. Agrees(e2, file, 0)
    BY <2>5, <2>6, <2>7, <2>8 DEF Agrees
  <2>10. \A x \in T : Place(p, x, 0)'
    BY <1>2, <1>5, <2>4, <2>9 DEF Place
  <2>11. \A q \in Procs, f \in Fds : q # ProcOf(t) \/ f \notin T =>
           Decays(fd_paths[q][f], table[q][f], fd_paths'[q][f], table'[q][f])
    BY <1>1, <1>2, <1>5, <2>3 DEF Decays
  <2> QED
    <3>1. Touches(t, T)
      BY <1>4, <1>5, <1>6, <1>7, <1>8, <2>11 DEF Touches
    <3>2. Settles(t, T)
      BY <1>1, <1>2, <1>4, <1>6, <2>10, StaysIdle
    <3> QED
      BY <3>1, <3>2, StepExclusive
<1>11. CASE ~ptr[t].fresh
  <2>1. fd_paths[p][fd] = None
    BY <1>2, <1>4, <1>11
  <2>2. ptr[t].at # <<p, fd>>
    BY <1>3, <2>1 DEF Stored
  <2>3. fd_paths'[p][fd] = None
    BY <1>3, <2>1, <2>2
  <2>4. ASSUME NEW q \in Procs, NEW f \in Fds
        PROVE  Decays(fd_paths[q][f], table[q][f], fd_paths'[q][f], table'[q][f])
    <3>1. CASE ptr[t].at = <<q, f>>
      BY <1>2, <1>3, <1>11, <3>1 DEF Stored, Decays
    <3>2. CASE ptr[t].at # <<q, f>>
      BY <1>2, <1>3, <3>2 DEF Decays
    <3> QED
      BY <3>1, <3>2
  <2>5. \A x \in T : Place(p, x, 0)'
    BY <1>2, <1>4, <1>5, <2>1, <2>3 DEF Place, Agrees
  <2> QED
    <3>1. Touches(t, T)
      BY <1>4, <1>5, <1>6, <1>7, <1>8, <2>4 DEF Touches
    <3>2. Settles(t, T)
      BY <1>1, <1>2, <1>4, <1>6, <2>5, StaysIdle
    <3> QED
      BY <3>1, <3>2, StepExclusive
<1> QED
  BY <1>10, <1>11


LEMMA MmapTrue ==
    ASSUME Shape, Shape', Exclusive, ~program.shared, UNCHANGED program, NEW t \in Threads,
           NEW fd \in Fds, NEW kind \in {"mmap_read", "mmap_write"}, trace_mmap(t, fd, kind)
    PROVE  Exclusive'
<1>1. PICK p \in Procs : p = ProcOf(t) /\ p = ProcOf(t)'
  BY Programs1 DEF ProcOf
<1>2. Idle(t) /\ MayUse(t, fd) /\ UNCHANGED <<table, call, inflight_open, inflight_write, ptr>>
  BY DEF trace_mmap, kernel
<1>3. inflight_open[t] = None /\ inflight_write[t] = None /\ ptr[t] = None /\ call[t] = None
  BY <1>2, IdleThread
<1>4. /\ Place(p, fd, 0)
      /\ \A u \in Threads : ProcOf(u) = p => ~Uses(u, fd)
  BY <1>1, <1>2, Mine
<1>5. \A q \in Procs, f \in Fds : q # p \/ f # fd => fd_paths'[q][f] = fd_paths[q][f]
  <2>1. \A q \in Procs, f \in Fds :
           q # ProcOf(t) \/ f # fd => fd_paths'[q][f] = fd_paths[q][f]
    BY MmapEffect, ZenonT(40)
  <2> QED
    BY <1>1, <2>1
<1>6. \/ fd_paths'[p][fd] = fd_paths[p][fd]
      \/ Mapped(fd_paths[p][fd], fd_paths'[p][fd], kind)
  BY <1>1, MmapEffect
<1>7. PICK T \in SUBSET Fds : T = {fd}
  OBVIOUS
<1>8. Touches(t, T)
  <2>1. \A f \in T, u \in Threads \ {t} : ProcOf(u) = ProcOf(t) => ~Uses(u, f)
    BY <1>1, <1>4, <1>7
  <2>2. \A q \in Procs, f \in Fds : q # ProcOf(t) \/ f \notin T =>
          fd_paths'[q][f] = fd_paths[q][f] /\ table'[q][f] = table[q][f]
    BY <1>1, <1>2, <1>5, <1>7
  <2> QED
    BY <1>2, <1>3, <2>1, <2>2, Undisturbed
<1>9. Place(p, fd, 0)'
  <2>1. CASE fd_paths'[p][fd] = fd_paths[p][fd]
    BY <1>2, <1>4, <2>1 DEF Place
  <2>2. CASE Mapped(fd_paths[p][fd], fd_paths'[p][fd], kind)
    <3>1. PICK e, e2 : e = fd_paths[p][fd] /\ e2 = fd_paths'[p][fd]
      OBVIOUS
    <3>2. /\ e # None /\ e2 # None
          /\ e2.path = e.path /\ e2.write_bytes = e.write_bytes /\ e2.excuse = e.excuse
          /\ "write" \in e2.seen <=> "write" \in e.seen
      BY <2>2, <3>1 DEF Mapped
    <3>3. Agrees(e2, table[p][fd], 0)
      BY <1>4, <3>1, <3>2 DEF Place, Agrees
    <3> QED
      BY <1>2, <3>1, <3>3 DEF Place
  <2> QED
    BY <1>6, <2>1, <2>2
<1>10. Settles(t, T)
  <2>1. call'[t] = None /\ inflight_open'[t] = None /\ inflight_write'[t] = None
    BY <1>2, <1>3
  <2>2. \A x \in T : Place(p, x, 0)'
    BY <1>7, <1>9
  <2> QED
    BY <1>1, <2>1, <2>2, StaysIdle
<1> QED
  BY <1>8, <1>10, StepExclusive

LEMMA CloseTrue ==
    ASSUME Shape, Shape', Exclusive, ~program.shared, UNCHANGED program, NEW t \in Threads,
           NEW fd \in Fds, trace_close(t, fd)
    PROVE  Exclusive'
<1>1. PICK p \in Procs : p = ProcOf(t) /\ p = ProcOf(t)'
  BY Programs1 DEF ProcOf
<1>2. /\ Idle(t) /\ MayUse(t, fd) /\ UNCHANGED <<table, inflight_open, inflight_write>>
      /\ DropEntry(p, fd)
  BY <1>1 DEF trace_close
<1>3. inflight_open[t] = None /\ inflight_write[t] = None /\ ptr[t] = None /\ call[t] = None
  BY <1>2, IdleThread
<1>4. /\ table[p][fd] # None
      /\ \A u \in Threads : ProcOf(u) = p => ~Uses(u, fd)
  BY <1>1, <1>2, Mine
<1>5. /\ fd_paths'[p][fd] = None
      /\ \A q \in Procs, f \in Fds : q # p \/ f # fd => fd_paths'[q][f] = fd_paths[q][f]
  BY <1>2, DropEffect
<1>6. \A u \in Threads :
        /\ ptr'[u] = None <=> ptr[u] = None
        /\ ptr[u] # None =>
             /\ ptr'[u].sum = ptr[u].sum
             /\ ptr'[u].at = IF ptr[u].at = <<p, fd>> THEN Freed ELSE ptr[u].at
             /\ ptr'[u].fresh <=> ptr[u].fresh /\ ptr[u].at # <<p, fd>>
  BY <1>2, DropEffect
<1>7. PICK T \in SUBSET Fds : T = {fd}
  OBVIOUS
<1>8. PICK c : c = Call("close", {fd}, None)
  OBVIOUS
<1>9. /\ call' = [call EXCEPT ![t] = c]
      /\ c.sys = "close" /\ c.fds = {fd} /\ c.done = FALSE
  BY <1>8 DEF trace_close, Enter, Call
<1>10. call'[t] = c /\ \A u \in Threads \ {t} : call'[u] = call[u]
  BY <1>9 DEF Shape, TypeOK
<1>11. c # None
  <2>1. c \in CallRecords
    BY <1>8 DEF Call, CallRecords
  <2> QED
    BY <2>1, NoneAssumption
<1>12. Touches(t, T)
  <2>1. \A x \in T, u \in Threads \ {t} : ProcOf(u) = ProcOf(t) => ~Uses(u, x)
    BY <1>1, <1>4, <1>7
  <2>2. <<p, fd>> \in {ProcOf(t)} \X T
    BY <1>1, <1>7
  <2>3. \A u \in Threads : PtrDecays(u, {ProcOf(t)} \X T)
    BY <1>6, <2>2 DEF PtrDecays
  <2>4. \A q \in Procs, f \in Fds : q # ProcOf(t) \/ f \notin T =>
          Decays(fd_paths[q][f], table[q][f], fd_paths'[q][f], table'[q][f])
    BY <1>1, <1>2, <1>5, <1>7 DEF Decays
  <2>5. \A u \in Threads \ {t} :
          /\ call'[u] = call[u]
          /\ inflight_open'[u] = inflight_open[u]
          /\ inflight_write'[u] = inflight_write[u]
    BY <1>2, <1>10
  <2> QED
    BY <1>3, <2>1, <2>3, <2>4, <2>5 DEF Touches
<1>13. CloseInv(t)'
  BY <1>1, <1>5, <1>9, <1>10 DEF CloseInv
<1>14. CallInv(t)'
  BY <1>9, <1>10, <1>11, <1>13 DEF CallInv, InCall, Idle
<1>15. Settles(t, T)
  <2>1. \A x \in T : table'[ProcOf(t)][x] # None
    BY <1>1, <1>2, <1>4, <1>7
  <2>2. /\ inflight_open'[t] = None /\ inflight_write'[t] = None
        /\ call'[t].fds = T /\ call'[t] # None
    BY <1>2, <1>3, <1>7, <1>9, <1>10, <1>11
  <2> QED
    BY <1>14, <2>1, <2>2, StaysBusy
<1> QED
  BY <1>12, <1>15, StepExclusive


LEMMA KernelCloseTrue ==
    ASSUME Shape, Shape', Exclusive, ~program.shared, UNCHANGED program, NEW t \in Threads,
           KernelClose(t)
    PROVE  Exclusive'
<1>1. PICK p \in Procs : p = ProcOf(t) /\ p = ProcOf(t)'
  BY Programs1 DEF ProcOf
<1>2. PICK fd \in Fds :
        /\ call[t].fds = {fd} /\ InCall(t, "close")
        /\ table'[ProcOf(t)][fd] = None
        /\ \A q \in Procs, f \in Fds : q # ProcOf(t) \/ f # fd => table'[q][f] = table[q][f]
        /\ call' = [call EXCEPT ![t] = None]
        /\ UNCHANGED <<inflight_open, inflight_write, fd_paths, ptr>>
  BY KernelCloseEffect, ZenonT(40)
<1>3. call[t] # None /\ call[t].sys = "close"
  BY <1>2 DEF InCall, Idle
<1>4. inflight_open[t] = None /\ inflight_write[t] = None
  BY <1>3 DEF Exclusive, InflightOwn, InCall
<1>5. fd_paths[p][fd] = None
  <2>1. CloseInv(t)
    BY <1>2 DEF Exclusive, CallInv
  <2> QED
    BY <1>1, <1>2, <2>1 DEF CloseInv
<1>6. \A u \in Threads \ {t} : ProcOf(u) = p => ~Uses(u, fd)
  BY <1>1, <1>2, <1>3 DEF Exclusive, Alone
<1>7. call'[t] = None /\ \A u \in Threads \ {t} : call'[u] = call[u]
  BY <1>2 DEF Shape, TypeOK
<1>8. PICK T \in SUBSET Fds : T = {fd}
  OBVIOUS
<1>9. Touches(t, T)
  <2>1. \A f \in T, u \in Threads \ {t} : ProcOf(u) = ProcOf(t) => ~Uses(u, f)
    BY <1>1, <1>6, <1>8
  <2>2. \A q \in Procs, f \in Fds : q # ProcOf(t) \/ f \notin T =>
          fd_paths'[q][f] = fd_paths[q][f] /\ table'[q][f] = table[q][f]
    BY <1>2, <1>8
  <2> QED
    BY <1>2, <1>7, <1>8, <2>1, <2>2, Undisturbed, SMTT(20)
<1>10. Settles(t, T)
  <2>1. \A x \in T : Place(p, x, 0)'
    BY <1>1, <1>2, <1>5, <1>8 DEF Place, Agrees
  <2> QED
    BY <1>1, <1>2, <1>4, <1>7, <2>1, StaysIdle
<1> QED
  BY <1>9, <1>10, StepExclusive

LEMMA DupTrue ==
    ASSUME Shape, Shape', Exclusive, ~program.shared, UNCHANGED program, NEW t \in Threads,
           NEW fd \in Fds, NEW new \in Fds, KernelDup(t, fd, new)
    PROVE  Exclusive'
<1>1. PICK p \in Procs : p = ProcOf(t) /\ p = ProcOf(t)'
  BY Programs1 DEF ProcOf
<1>2. Idle(t) /\ Quiet(p, new)
  BY <1>1 DEF KernelDup
<1>3. /\ table[p][fd] # None /\ table[p][new] = None
      /\ table' = [table EXCEPT ![p][new] = File(table[p][fd].path, TRUE)]
      /\ UNCHANGED <<call, inflight_open, inflight_write, fd_paths, ptr>>
  BY <1>1 DEF KernelDup, maps
<1>4. /\ \A q \in Procs, f \in Fds : q # p \/ f # new => table'[q][f] = table[q][f]
      /\ table'[p][new] # None /\ table'[p][new].excused = TRUE
  <2>1. table \in [Procs -> [Fds -> FileRecords \cup {None}]]
    BY DEF Shape, TypeOK
  <2>2. PICK file : file = File(table[p][fd].path, TRUE)
    OBVIOUS
  <2>3. file # None /\ file.excused = TRUE
    <3>1. table[p][fd].path \in Paths
      BY <1>3, Values DEF FileRecords
    <3>2. file \in FileRecords
      BY <2>2, <3>1 DEF File, FileRecords
    <3> QED
      BY <2>2, <3>2, NoneAssumption DEF File
  <2> QED
    BY <1>3, <2>1, <2>2, <2>3
<1>5. inflight_open[t] = None /\ inflight_write[t] = None /\ ptr[t] = None /\ call[t] = None
  BY <1>2, IdleThread
<1>6. Place(p, new, 0) /\ \A u \in Threads : ProcOf(u) = p => ~Uses(u, new)
  BY <1>2 DEF Exclusive, Quiet
<1>7. PICK T \in SUBSET Fds : T = {new}
  OBVIOUS
<1>8. Touches(t, T)
  <2>1. \A f \in T, u \in Threads \ {t} : ProcOf(u) = ProcOf(t) => ~Uses(u, f)
    BY <1>1, <1>6, <1>7
  <2>2. \A q \in Procs, f \in Fds : q # ProcOf(t) \/ f \notin T =>
          fd_paths'[q][f] = fd_paths[q][f] /\ table'[q][f] = table[q][f]
    BY <1>1, <1>3, <1>4, <1>7
  <2>3. UNCHANGED <<call, inflight_open, inflight_write, ptr>>
    BY <1>3
  <2> QED
    BY <1>5, <2>1, <2>2, <2>3, Undisturbed
\* An entry at a number that is free is stale, or was opened below a stale one.
<1>9. Place(p, new, 0)'
  <2>1. PICK e, file : e = fd_paths[p][new] /\ file = table'[p][new]
    OBVIOUS
  <2>2. e # None => e.excuse \ {"torn"} # {} /\ e.excuse # {}
    <3>1. Agrees(e, table[p][new], 0)
      BY <1>6, <2>1 DEF Place
    <3>2. e # None => e.excuse \ {"torn"} # {}
      BY <1>3, <3>1, Zenon DEF Agrees
    <3> QED
      BY <3>2
  <2>3. Agrees(e, file, 0)
    BY <1>4, <2>1, <2>2, SMTT(30) DEF Agrees
  <2> QED
    BY <1>3, <2>1, <2>3 DEF Place
<1>10. Settles(t, T)
  <2>1. \A x \in T : Place(p, x, 0)'
    BY <1>7, <1>9
  <2>2. call'[t] = None /\ inflight_open'[t] = None /\ inflight_write'[t] = None
    BY <1>3, <1>5
  <2> QED
    BY <1>1, <2>1, <2>2, StaysIdle
<1> QED
  BY <1>8, <1>10, StepExclusive


LEMMA ReleaseTrue ==
    ASSUME Shape, Shape', Exclusive, ~program.shared, UNCHANGED program, NEW t \in Threads,
           NEW fd \in Fds, KernelRelease(t, fd)
    PROVE  Exclusive'
<1>1. PICK p \in Procs : p = ProcOf(t) /\ p = ProcOf(t)'
  BY Programs1 DEF ProcOf
<1>2. Idle(t) /\ MayUse(t, fd) /\ UNCHANGED <<call, inflight_open, inflight_write, ptr>>
  BY DEF KernelRelease
<1>3. /\ table'[p][fd] = None
      /\ \/ fd_paths[p][fd] = None /\ fd_paths'[p][fd] = None
         \/ Staled(fd_paths[p][fd], fd_paths'[p][fd])
  BY <1>1, KernelReleaseEffect, ZenonT(40)
<1>4. \A q \in Procs, f \in Fds : q # p \/ f # fd =>
        table'[q][f] = table[q][f] /\ fd_paths'[q][f] = fd_paths[q][f]
  <2>1. \A q \in Procs, f \in Fds : q # ProcOf(t) \/ f # fd =>
          table'[q][f] = table[q][f] /\ fd_paths'[q][f] = fd_paths[q][f]
    BY KernelReleaseEffect, ZenonT(40)
  <2> QED
    BY <1>1, <2>1
<1>5. inflight_open[t] = None /\ inflight_write[t] = None /\ ptr[t] = None /\ call[t] = None
  BY <1>2, IdleThread
<1>6. \A u \in Threads : ProcOf(u) = p => ~Uses(u, fd)
  BY <1>1, <1>2, Mine
<1>7. PICK T \in SUBSET Fds : T = {fd}
  OBVIOUS
<1>8. Touches(t, T)
  <2>1. \A f \in T, u \in Threads \ {t} : ProcOf(u) = ProcOf(t) => ~Uses(u, f)
    BY <1>1, <1>6, <1>7
  <2>2. \A q \in Procs, f \in Fds : q # ProcOf(t) \/ f \notin T =>
          fd_paths'[q][f] = fd_paths[q][f] /\ table'[q][f] = table[q][f]
    BY <1>1, <1>4, <1>7
  <2> QED
    BY <1>2, <1>5, <2>1, <2>2, Undisturbed
<1>9. Place(p, fd, 0)'
  <2>1. PICK e, file : e = fd_paths'[p][fd] /\ file = table'[p][fd]
    OBVIOUS
  <2>2. file = None /\ (e # None => "stale" \in e.excuse)
    BY <1>3, <2>1 DEF Staled
  <2>3. e # None => e.excuse \ {"torn"} # {} /\ e.excuse # {}
    BY <2>2, SMTT(20)
  <2>4. Agrees(e, file, 0)
    BY <2>2, <2>3, SMTT(30) DEF Agrees
  <2> QED
    BY <2>1, <2>4 DEF Place
<1>10. Settles(t, T)
  <2>1. \A x \in T : Place(p, x, 0)'
    BY <1>7, <1>9
  <2>2. call'[t] = None /\ inflight_open'[t] = None /\ inflight_write'[t] = None
    BY <1>2, <1>5
  <2> QED
    BY <1>1, <2>1, <2>2, StaysIdle
<1> QED
  BY <1>8, <1>10, StepExclusive

\* A step that leaves the maps and the kernel alone.
LEMMA IdleStepTrue ==
    ASSUME Exclusive, UNCHANGED <<program, kernel, maps>>
    PROVE  Exclusive'
<1>1. UNCHANGED <<program, table, call, inflight_open, inflight_write, fd_paths, ptr>>
  BY DEF kernel, maps
<1>2. /\ \A u \in Threads : Alone(u)' <=> Alone(u)
      /\ \A q \in Procs, f \in Fds : (Quiet(q, f)' <=> Quiet(q, f)) /\ (Place(q, f, 0)' <=> Place(q, f, 0))
      /\ InflightOwn' <=> InflightOwn
  BY <1>1, ZenonT(40) DEF Alone, Uses, ProcOf, Quiet, Place, InflightOwn, InCall, Idle
<1>3. \A u \in Threads : OpenInv(u)' <=> OpenInv(u)
  BY <1>1, SMTT(30) DEF OpenInv, Place, ProcOf, RealPath
<1>4. \A u \in Threads : WriteInv(u)' <=> WriteInv(u)
  BY <1>1, SMTT(30) DEF WriteInv, Place, ProcOf, Pending
<1>5. \A u \in Threads : CallInv(u)' <=> CallInv(u)
  BY <1>1, <1>3, <1>4, ZenonT(40) DEF CallInv, CloseInv, ProcOf, InCall, Idle
<1> QED
  BY <1>2, <1>5 DEF Exclusive


-----------------------------------------------------------------------------
(* Events. *)

\* An event made of an entry that agrees with its file.
LEMMA SubmittedTrue ==
    ASSUME NEW p, NEW op, NEW entry, NEW bytes, NEW truth,
           submit_fd_event(p, op, entry, bytes, truth),
           entry.excuse = {} => NamesPath(entry.path, truth.path)
    PROVE  evt' # None /\ evt'.truth # None => NamesPath(evt'.path, evt'.truth.path)
<1>1. \/ evt' = None
      \/ evt'.path = entry.path /\ evt'.truth = IF entry.excuse = {} THEN truth ELSE None
  BY Submitted
<1> QED
  BY <1>1

\* trace_mmap and trace_close, on a descriptor that no other thread uses.
LEMMA EntryNames ==
    ASSUME Exclusive, NEW t \in Threads, NEW fd \in Fds, ProcOf(t) \in Procs,
           MayUse(t, fd), ~program.shared, NEW p, p = ProcOf(t),
           fd_paths[p][fd] # None, fd_paths[p][fd].excuse = {}
    PROVE  NamesPath(fd_paths[p][fd].path, table[p][fd].path)
<1>1. Place(p, fd, 0)
  BY Mine
<1>2. fd_paths[p][fd].excuse \ {"torn"} = {}
  OBVIOUS
<1> QED
  BY <1>1, <1>2 DEF Place, Agrees

LEMMA ExitOpenEvent ==
    ASSUME Shape, Exclusive, NEW t \in Threads, trace_exit_open(t)
    PROVE  evt' # None /\ evt'.truth # None => NamesPath(evt'.path, evt'.truth.path)
<1>1. PICK p, fd, o : p = ProcOf(t) /\ fd = call[t].ret /\ o = inflight_open[t]
  OBVIOUS
<1>2. InCall(t, "open") /\ call[t].done
  BY DEF trace_exit_open
<1>3. CASE o # None /\ fd # None
  <2>1. PICK e : e = [path |-> o.path, excuse |-> o.excuse, write_bytes |-> 0, seen |-> {}]
    OBVIOUS
  <2>2. submit_fd_event(p, "open", e, 0, table[p][fd])
    BY <1>1, <1>3, <2>1 DEF trace_exit_open
  <2>3. OpenInv(t)
    BY <1>2, Opening
  <2>4. e.excuse = {} => NamesPath(e.path, table[p][fd].path)
    BY <1>1, <1>2, <1>3, <2>1, <2>3 DEF OpenInv
  <2> QED
    BY <2>2, <2>4, SubmittedTrue
<1>4. CASE ~(o # None /\ fd # None)
  BY <1>1, <1>4 DEF trace_exit_open, NoEvent
<1> QED
  BY <1>3, <1>4

LEMMA MmapEvent ==
    ASSUME Shape, Exclusive, ~program.shared, NEW t \in Threads,
           NEW fd \in Fds, NEW kind, trace_mmap(t, fd, kind)
    PROVE  evt' # None /\ evt'.truth # None => NamesPath(evt'.path, evt'.truth.path)
<1>1. PICK p \in Procs : p = ProcOf(t)
  BY Programs1
<1>2. PICK e : e = fd_paths[p][fd]
  OBVIOUS
<1>3. CASE evt' = None
  BY <1>3
<1>4. CASE e # None /\ submit_fd_event(p, kind, e, 0, table[p][fd])
  <2>1. e.excuse = {} => NamesPath(e.path, table[p][fd].path)
    BY <1>1, <1>2, <1>4, EntryNames DEF trace_mmap
  <2> QED
    BY <1>4, <2>1, SubmittedTrue
<1> QED
  BY <1>1, <1>2, <1>3, <1>4 DEF trace_mmap, NoEvent

LEMMA CloseEvent ==
    ASSUME Shape, Exclusive, ~program.shared, NEW t \in Threads,
           NEW fd \in Fds, trace_close(t, fd)
    PROVE  evt' # None /\ evt'.truth # None => NamesPath(evt'.path, evt'.truth.path)
<1>1. PICK p \in Procs : p = ProcOf(t)
  BY Programs1
<1>2. PICK e : e = fd_paths[p][fd]
  OBVIOUS
<1>3. CASE evt' = None
  BY <1>3
<1>4. CASE e # None /\ submit_fd_event(p, "write", e, e.write_bytes, table[p][fd])
  <2>1. e.excuse = {} => NamesPath(e.path, table[p][fd].path)
    BY <1>1, <1>2, <1>4, EntryNames DEF trace_close
  <2> QED
    BY <1>4, <2>1, SubmittedTrue
<1> QED
  BY <1>1, <1>2, <1>3, <1>4 DEF trace_close, NoEvent

LEMMA PathEvent ==
    ASSUME Shape, Exclusive, ~program.shared, NEW t \in Threads, NEW op,
           NEW dirfd \in Fds \cup {AT_FDCWD}, NEW name \in Paths, NEW copied,
           trace_path(t, op, dirfd, name, copied)
    PROVE  evt' # None /\ evt'.truth # None => NamesPath(evt'.path, evt'.truth.path)
<1>1. PICK p \in Procs : p = ProcOf(t)
  BY Programs1
<1>2. PICK path, real : /\ path = resolve_dirfd_path(p, dirfd, name)
                        /\ real = RealPath(p, dirfd, name)
  OBVIOUS
<1>3. dirfd # AT_FDCWD => table[p][dirfd] # None /\ Place(p, dirfd, 0)
  BY <1>1, Mine DEF trace_path, MayUseDir
<1>4. Doubt(p, dirfd, name) = {} => NamesPath(path, real)
  BY <1>2, <1>3, ResolveTrue
<1>5. PICK truth : truth = IF real = None \/ Doubt(p, dirfd, name) # {} THEN None
                           ELSE File(real, FALSE)
  OBVIOUS
<1>6. truth # None => Doubt(p, dirfd, name) = {} /\ truth.path = real
  BY <1>5 DEF File
<1>7. evt' \in {None, [proc |-> p, op |-> op, path |-> path, bytes |-> 0, truth |-> truth]}
  BY <1>1, <1>2, <1>5 DEF trace_path, Submit, NoEvent
<1>8. evt' # None => evt'.path = path /\ evt'.truth = truth
  BY <1>7, SMTT(20)
<1> QED
  BY <1>4, <1>6, <1>8


-----------------------------------------------------------------------------
\* Unless threads share descriptors.
Truth == ~program.shared => Exclusive

LEMMA InitTruth == Init => Exclusive
<1> SUFFICES ASSUME Init PROVE Exclusive
  OBVIOUS
<1>1. \A p \in Procs, fd \in Fds : table[p][fd] = None /\ fd_paths[p][fd] = None
  BY DEF Init
<1>2. \A t \in Threads : call[t] = None /\ inflight_open[t] = None /\ inflight_write[t] = None
  BY DEF Init
<1>3. \A p \in Procs, fd \in Fds : Place(p, fd, 0)
  BY <1>1 DEF Place, Agrees
<1>4. \A t \in Threads : Alone(t) /\ CallInv(t)
  BY <1>2 DEF Alone, CallInv, InCall, Idle
<1>5. InflightOwn
  BY <1>2 DEF InflightOwn
<1> QED
  BY <1>3, <1>4, <1>5 DEF Exclusive

LEMMA NextExclusive ==
    ASSUME Shape, Shape', Exclusive, ~program.shared, Next
    PROVE  Exclusive'
<1>1. UNCHANGED program
  BY DEF Next
<1>2. PICK t \in Threads :
           \/ \E dirfd \in Fds \cup {AT_FDCWD}, name \in Paths, copied \in BOOLEAN :
                name \in program.names[ProcOf(t)] /\ trace_enter_open(t, dirfd, name, copied)
           \/ KernelOpen(t)
           \/ trace_exit_open(t)
           \/ \E fd \in Fds, count \in Nat : trace_write(t, fd, count)
           \/ \E n \in -1 .. 1 : KernelWrite(t, n)
           \/ trace_exit_write(t)
           \/ StoreWriteBytes(t)
           \/ \E fd \in Fds, kind \in {"mmap_read", "mmap_write"} : trace_mmap(t, fd, kind)
           \/ \E fd \in Fds : trace_close(t, fd)
           \/ \E fd \in Fds : KernelRelease(t, fd)
           \/ KernelClose(t)
           \/ \E fd, new \in Fds : KernelDup(t, fd, new)
           \/ \E op \in PathOps, dirfd \in Fds \cup {AT_FDCWD}, name \in Paths, copied \in BOOLEAN :
                /\ name \in program.names[ProcOf(t)]
                /\ trace_path(t, op, dirfd, name, copied)
  BY Steps
<1>3. ASSUME NEW n \in -1 .. 1, KernelWrite(t, n) PROVE Exclusive'
  <2>1. n \in Int
    BY SMTT(20)
  <2> QED
    BY <1>1, <1>3, <2>1, KernelWriteTrue
<1>4. ASSUME NEW op \in PathOps, NEW dirfd, NEW name, NEW copied,
             trace_path(t, op, dirfd, name, copied)
      PROVE  Exclusive'
  <2>1. UNCHANGED <<program, kernel, maps>>
    BY <1>1, <1>4 DEF trace_path
  <2> QED
    BY <2>1, IdleStepTrue
<1> QED
  BY <1>1, <1>2, <1>3, <1>4, EnterOpenTrue, KernelOpenTrue, ExitOpenTrue, WriteTrue,
     ExitWriteTrue, StoreTrue, MmapTrue, CloseTrue, ReleaseTrue, KernelCloseTrue,
     DupTrue, ZenonT(90)

LEMMA NextEvents ==
    ASSUME Shape, Exclusive, ~program.shared, Next
    PROVE  evt' # None /\ evt'.truth # None => NamesPath(evt'.path, evt'.truth.path)
<1>1. PICK t \in Threads :
           \/ \E dirfd \in Fds \cup {AT_FDCWD}, name \in Paths, copied \in BOOLEAN :
                name \in program.names[ProcOf(t)] /\ trace_enter_open(t, dirfd, name, copied)
           \/ KernelOpen(t)
           \/ trace_exit_open(t)
           \/ \E fd \in Fds, count \in Nat : trace_write(t, fd, count)
           \/ \E n \in -1 .. 1 : KernelWrite(t, n)
           \/ trace_exit_write(t)
           \/ StoreWriteBytes(t)
           \/ \E fd \in Fds, kind \in {"mmap_read", "mmap_write"} : trace_mmap(t, fd, kind)
           \/ \E fd \in Fds : trace_close(t, fd)
           \/ \E fd \in Fds : KernelRelease(t, fd)
           \/ KernelClose(t)
           \/ \E fd, new \in Fds : KernelDup(t, fd, new)
           \/ \E op \in PathOps, dirfd \in Fds \cup {AT_FDCWD}, name \in Paths, copied \in BOOLEAN :
                /\ name \in program.names[ProcOf(t)]
                /\ trace_path(t, op, dirfd, name, copied)
  BY Steps
<1>2. CASE \/ \E dirfd, name, copied : trace_enter_open(t, dirfd, name, copied)
           \/ KernelOpen(t) \/ trace_exit_write(t) \/ StoreWriteBytes(t) \/ KernelClose(t)
           \/ \E fd, count : trace_write(t, fd, count)
           \/ \E n : KernelWrite(t, n)
           \/ \E fd : KernelRelease(t, fd)
           \/ \E fd, new : KernelDup(t, fd, new)
  <2>1. evt' = None
    BY <1>2, ZenonT(40) DEF trace_enter_open, KernelOpen, trace_exit_write, StoreWriteBytes,
       KernelClose, trace_write, KernelWrite, KernelRelease, KernelDup, NoEvent
  <2> QED
    BY <2>1
<1> QED
  BY <1>1, <1>2, ExitOpenEvent, MmapEvent, CloseEvent, PathEvent, ZenonT(90)

LEMMA NextTruth ==
    Shape /\ Truth /\ EventsTrue /\ [Next]_vars => Truth' /\ EventsTrue'
<1> SUFFICES ASSUME Shape, Truth, EventsTrue, [Next]_vars
             PROVE  Truth' /\ EventsTrue'
  OBVIOUS
<1>1. Shape' /\ UNCHANGED program
  BY NextShape DEF Next, vars
<1>2. CASE Next
  BY <1>1, <1>2, NextExclusive, NextEvents DEF Truth, EventsTrue
<1>3. CASE UNCHANGED vars
  <2>1. UNCHANGED <<program, kernel, maps>> /\ evt' = evt
    BY <1>3 DEF vars
  <2>2. Truth'
    BY <1>1, <2>1, IdleStepTrue DEF Truth
  <2> QED
    BY <1>1, <2>1, <2>2 DEF EventsTrue
<1> QED
  BY <1>2, <1>3

LEMMA TruthHolds == Spec => [](Shape /\ Truth /\ EventsTrue)
<1>1. Init => Shape /\ Truth /\ EventsTrue
  BY InitShape, InitTruth DEF Truth, EventsTrue, Init
<1>2. Shape /\ Truth /\ EventsTrue /\ [Next]_vars => (Shape /\ Truth /\ EventsTrue)'
  BY NextShape, NextTruth
<1> QED
  BY <1>1, <1>2, PTL DEF Spec

(***************************************************************************)
(* For any number of processes, threads and descriptors, any paths and any *)
(* sizes of the maps: while no call uses a descriptor, its entry of        *)
(* fd_paths names its file and counts its bytes, unless the entry was      *)
(* evicted, torn or left stale, and unless threads share descriptors.      *)
(***************************************************************************)
THEOREM EntriesTrueTheorem == Spec => []EntriesTrue
<1>1. Shape /\ Truth => EntriesTrue
  <2> SUFFICES ASSUME Shape, Truth, ~program.shared, NEW p \in Procs, NEW fd \in Fds, Quiet(p, fd)
               PROVE  LET entry == fd_paths[p][fd]
                          file == table[p][fd] IN
                      /\ file # None /\ ~file.excused => entry # None /\ "stale" \notin entry.excuse
                      /\ entry # None /\ entry.excuse = {} =>
                           /\ file # None
                           /\ NamesPath(entry.path, file.path)
                           /\ entry.write_bytes = file.wrote
                           /\ "write" \in entry.seen <=> entry.write_bytes > 0
    BY DEF EntriesTrue
  <2>1. Agrees(fd_paths[p][fd], table[p][fd], 0)
    BY DEF Truth, Exclusive, Place
  <2>2. fd_paths[p][fd] # None => fd_paths[p][fd].write_bytes \in Nat
    BY Values DEF EntryRecords
  <2>3. ASSUME fd_paths[p][fd] # None, fd_paths[p][fd].excuse = {}
        PROVE  /\ table[p][fd] # None
               /\ NamesPath(fd_paths[p][fd].path, table[p][fd].path)
               /\ fd_paths[p][fd].write_bytes = table[p][fd].wrote
               /\ "write" \in fd_paths[p][fd].seen <=> fd_paths[p][fd].write_bytes > 0
    <3>1. fd_paths[p][fd].excuse \ {"torn"} = {}
      BY <2>3
    <3> QED
      BY <2>1, <2>2, <2>3, <3>1, SMTT(20) DEF Agrees
  <2> QED
    BY <2>1, <2>3 DEF Agrees
<1> QED
  BY <1>1, TruthHolds, PTL

(***************************************************************************)
(* For the same programs, the path of every event that is not excused is   *)
(* the real one of the file that was opened, written, mapped, removed or   *)
(* linked, or the end of it.                                               *)
(***************************************************************************)
THEOREM EventsTrueTheorem == Spec => []EventsTrue
BY TruthHolds, PTL
=============================================================================
