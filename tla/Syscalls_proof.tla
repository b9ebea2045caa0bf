--------------------------- MODULE Syscalls_proof ---------------------------
(***************************************************************************)
(* The events of the exec and stdio probes are true of the calls, and the  *)
(* entries of their maps and of the Postgres probe's are of descriptors    *)
(* that are open or were released unseen.                                  *)
(***************************************************************************)
EXTENDS Syscalls, FiniteSetTheorems, WellFoundedInduction, TLAPS

\* Leaves are for Zenon; those about numbers and records of several fields name SMT.
USE ZenonT(20)

-----------------------------------------------------------------------------
(* The values of the variables, as far as the programs differ. *)

LibFiles == [kind : {"file"}, file : Files, by : Threads, seen : BOOLEAN, reports : 0 .. 1]
Sockets == [kind : {"socket"}, by : Threads, flag : -1 .. 4, sync : BOOLEAN]
Objects == IF program = "libs" THEN LibFiles ELSE IF program = "pg" THEN Sockets ELSE {}

Opens == [call : {"openat"}, file : Files, ret : Fds \cup {-1, 0}, seen : BOOLEAN]
Reads == [call : {"read"}, seen : BOOLEAN]
CallsOf == IF program = "libs" THEN Opens ELSE IF program = "stdio" THEN Reads ELSE {}

Shape ==
    /\ program \in Programs
    /\ fds \in [Fds -> {NoFile} \cup Objects]
    /\ sys \in [Threads -> {NoCall} \cup CallsOf]
    /\ stale \subseteq Threads \X Fds
    /\ DOMAIN inflight \subseteq Threads \X Fds
    /\ DOMAIN inflight_mmap \subseteq Fds \X Threads

\* A read that is in progress has its entry, and only such a read.
ReadsInv ==
    program = "stdio" =>
        DOMAIN inflight_read = Seen /\ \A t \in Seen : inflight_read[t] = 0

\* What thread t has just opened, or will see at the exit of openat.
Opened(t, file) == [kind |-> "file", file |-> file, by |-> t, seen |-> TRUE, reports |-> 0]

\* fd was given to a call of thread t that the probe has an entry of.
Opening(t, fd) == sys[t].call = "openat" /\ sys[t].ret = fd /\ sys[t].seen

\* inflight_mmap has a place for every thread and descriptor.
Roomy == IsFiniteSet(Fds \X Threads) /\ Cardinality(Fds \X Threads) <= MMAP_ENTRIES

OpensInv == DOMAIN inflight_open = Seen /\ \A t \in Seen : inflight_open[t] = sys[t].file

\* If thread t saw fd released whenever it was: an entry of inflight_mmap is
\* of what t opened and was not yet reported, and what t opened has its entry
\* or was reported, if no entry has to make room for another.
FdInv(t, fd) ==
    <<t, fd>> \notin stale =>
        /\ Opening(t, fd) => fds[fd] = Opened(t, sys[t].file)
        /\ <<fd, t>> \in DOMAIN inflight_mmap /\ ~Opening(t, fd) =>
             fds[fd] = Opened(t, inflight_mmap[<<fd, t>>])
        /\ Roomy /\ fds[fd] # NoFile /\ fds[fd].by = t /\ fds[fd].seen =>
             \/ Opening(t, fd)
             \/ <<fd, t>> \in DOMAIN inflight_mmap
             \/ fds[fd].reports = 1

LibsInv == program = "libs" => OpensInv /\ \A t \in Threads, fd \in Fds : FdInv(t, fd)

\* An event says what its exec was, as far as the probe could read it.
Submitted(e) ==
    /\ e.filename \in 1 .. Len(log)
    /\ log[e.filename].pid = e.pid
    /\ IF log[e.filename].complete THEN e.args = e.filename /\ ~e.args_truncated
       ELSE e.args \in {0, e.filename} /\ (e.args_truncated \/ e.args = 0)

Told(r) ==
    /\ r.filename \in 1 .. Len(log)
    /\ log[r.filename].pid = r.pid
    /\ IF log[r.filename].complete THEN r.args = r.filename
       ELSE r.args \in r.filename .. Len(log) /\ log[r.args].pid = r.pid

HeapValues == [pid : Pids \cup {0}, filename : Nat, args : Nat, args_len : Nat, args_truncated : BOOLEAN]
ProcEvents == [pid : Pids, filename : Nat, args : Nat, args_truncated : BOOLEAN]
Reports == [pid : Pids, filename : Nat, args : Nat]
Execs == [pid : Pids, complete : BOOLEAN]

ExecsInv ==
    /\ log \in Seq(Execs)
    /\ cmdline \in [Pids -> 0 .. Len(log)]
    /\ \A n \in 1 .. Len(log) : cmdline[log[n].pid] = 0 \/ n <= cmdline[log[n].pid]
    /\ \A pid \in Pids : cmdline[pid] # 0 => log[cmdline[pid]].pid = pid
    /\ exec_heap \in [Cpus -> HeapValues]
    /\ proc_events \in Seq(ProcEvents)
    /\ \A j \in 1 .. Len(proc_events) : Submitted(proc_events[j])
    /\ reported \in Seq(Reports)
    /\ \A j \in 1 .. Len(reported) : Told(reported[j])


-----------------------------------------------------------------------------
(* Standard input and output. *)

\* What is_mcp_json_str looks at is there after the data was cut.
LEMMA ClampKeepsJson ==
    ASSUME NEW data \in Texts
    PROVE  /\ Stdio!is_mcp_json_str(Stdio!Clamp(data)) <=> data \in JsonTexts
           /\ data \in JsonTexts => data # << >>
<1> DEFINE cut == Stdio!Clamp(data)
           n == IF Len(data) > MAX_DATA THEN MAX_DATA ELSE Len(data)
<1>0. Texts \subseteq Seq(STRING) /\ MAX_DATA \in Nat /\ PEEK_BYTES \in 1 .. MAX_DATA
  BY SyscallsAssumption, Zenon DEF SyscallsAssumption
<1>1. data \in Seq(STRING) /\ Len(data) \in Nat /\ n \in Nat /\ n <= Len(data)
  BY <1>0, SMTT(20)
<1>2. cut = SubSeq(data, 1, n)
  BY DEF Stdio!Clamp
<1>3. Len(cut) = n /\ \A i \in 1 .. n : cut[i] = data[i]
  BY <1>1, <1>2, SMTT(20)
<1>4. PEEK_BYTES \in Nat /\ PEEK_BYTES >= 1 /\ (n >= PEEK_BYTES <=> Len(data) >= PEEK_BYTES)
  BY <1>0, <1>1, SMTT(20)
<1>5. PICK brace, blank : brace = "{" /\ blank = " "
  BY Zenon
<1>6. Stdio!is_mcp_json_str(cut) <=>
        /\ Len(cut) >= PEEK_BYTES
        /\ \E i \in 1 .. PEEK_BYTES : cut[i] = brace /\ \A j \in 1 .. i - 1 : cut[j] = blank
  BY <1>5, Zenon DEF Stdio!is_mcp_json_str
<1>7. data \in JsonTexts <=>
        /\ Len(data) >= PEEK_BYTES
        /\ \E i \in 1 .. PEEK_BYTES : data[i] = brace /\ \A j \in 1 .. i - 1 : data[j] = blank
  BY <1>5, SyscallsAssumption, Zenon DEF SyscallsAssumption
<1> HIDE DEF cut, n
<1>8. Stdio!is_mcp_json_str(cut) <=> data \in JsonTexts
  BY <1>1, <1>3, <1>4, <1>6, <1>7, SMTT(20)
<1>9. data \in JsonTexts => data # << >>
  BY <1>1, <1>4, <1>7, SMTT(20)
<1> QED
  BY <1>8, <1>9 DEF cut


LEMMA SameCardinality ==
    ASSUME NEW S
    PROVE  Stdio!Cardinality(S) = Cardinality(S) /\ Exec!Cardinality(S) = Cardinality(S)
BY Zenon DEF Cardinality, Stdio!Cardinality, Exec!Cardinality

\* No step changes what the threads do.
LEMMA ProgramKept == [Next]_vars => program' = program
<1>1. ASSUME NEW t \in Threads, NEW fd, NEW x, NEW y, NEW z
      PROVE  /\ OpenEnter(t, x) \/ OpenKernel(t) \/ OpenExit(t) => program' = program
             /\ Mmap(t, fd, x) \/ Close(t, fd) \/ Socket(t) => program' = program
             /\ Send(t, fd, x, y, z) => program' = program
             /\ ReadEnter(t, fd, x) \/ ReadExit(t, x, y, z) \/ Write(t, fd, x, y) => program' = program
  BY Zenon DEF OpenEnter, OpenKernel, OpenExit, Mmap, Close, Socket, Send,
               ReadEnter, ReadExit, Write
<1>2. ASSUME NEW cpu, NEW pid, NEW raw, NEW readable
      PROVE  /\ ExecProgram(cpu, pid, raw, readable) \/ ExitProgram(pid) => program' = program
             /\ Report \/ Taken \/ Release(raw) \/ UNCHANGED vars => program' = program
  BY Zenon DEF ExecProgram, ExitProgram, Report, Taken, Release, vars
<1> QED
  BY <1>1, <1>2, ZenonT(30) DEF Next, ThreadStep

\* A program that only uses standard input and output is in no other call.
LEMMA StdioCalls ==
    ASSUME Shape, program = "stdio"
    PROVE  /\ sys \in [Threads -> {NoCall} \cup Reads]
           /\ fds = [fd \in Fds |-> NoFile]
           /\ \A t \in Threads : sys[t] # NoCall => sys[t].call = "read" /\ sys[t].seen \in BOOLEAN
           /\ Seen = {t \in Threads : sys[t] # NoCall /\ sys[t].seen}
<1>1. sys \in [Threads -> {NoCall} \cup Reads] /\ fds \in [Fds -> {NoFile}]
  BY DEF Shape, CallsOf, Objects
<1>2. fds = [fd \in Fds |-> NoFile]
  BY <1>1
<1>3. \A t \in Threads : sys[t] # NoCall => sys[t].call = "read" /\ sys[t].seen \in BOOLEAN
  BY <1>1 DEF Reads
<1>4. NoCall.call = "none"
  BY DEF NoCall
<1>5. Seen = {t \in Threads : sys[t] # NoCall /\ sys[t].seen}
  BY <1>3, <1>4 DEF Seen
<1> QED
  BY <1>1, <1>2, <1>3, <1>5

LEMMA ReadEnterStep ==
    ASSUME Shape, ReadsInv, program = "stdio",
           NEW t \in Threads, NEW fd \in {0, 5}, NEW count \in {0, 1}, ReadEnter(t, fd, count)
    PROVE  ReadsInv'
<1> DEFINE took == fd = 0 /\ count > 0 /\ Cardinality(Seen) < STDIO_ENTRIES
<1>1. sys' = [sys EXCEPT ![t] = [call |-> "read", seen |-> took]] /\ sys[t] = NoCall
  BY Zenon DEF ReadEnter, Ready
<1>2. t \notin Seen
  BY <1>1, StdioCalls
<1>3. Seen' = IF took THEN Seen \cup {t} ELSE Seen
  <2>1. \A u \in Threads : u # t => sys'[u] = sys[u]
    BY <1>1, StdioCalls
  <2>2. sys'[t] = [call |-> "read", seen |-> took]
    BY <1>1, StdioCalls
  <2>3. sys'[t].call = "read" /\ sys'[t].seen = took
    BY <2>2, SMTT(20)
  <2> HIDE DEF took
  <2> QED
    BY <1>2, <2>1, <2>3 DEF Seen
<1>4. inflight_read' = IF took THEN Stdio!With(inflight_read, t, fd) ELSE inflight_read
  <2>1. inflight_read' = IF count = 0 \/ fd # 0 THEN inflight_read
                         ELSE Stdio!HashUpdate(inflight_read, t, fd, STDIO_ENTRIES)
    BY Zenon DEF ReadEnter, Stdio!enter_read
  <2>2. Stdio!HashUpdate(inflight_read, t, fd, STDIO_ENTRIES) =
          IF Cardinality(Seen) < STDIO_ENTRIES THEN Stdio!With(inflight_read, t, fd) ELSE inflight_read
    BY <1>2, SameCardinality DEF Stdio!HashUpdate, Stdio!HasRoom, ReadsInv
  <2> QED
    BY <2>1, <2>2, SMTT(20)
<1> QED
  BY <1>3, <1>4 DEF ReadsInv, Stdio!With

LEMMA ReadExitStep ==
    ASSUME Shape, ReadsInv, program = "stdio",
           NEW t \in Threads, NEW data \in Texts, NEW failed \in BOOLEAN, NEW room \in BOOLEAN,
           ReadExit(t, data, failed, room)
    PROVE  ReadsInv' /\ StdioExact'
<1>1. sys' = [sys EXCEPT ![t] = NoCall] /\ sys[t].call = "read"
  BY Zenon DEF ReadExit
<1>2. Seen' = Seen \ {t}
  <2>1. \A u \in Threads : u # t => sys'[u] = sys[u]
    BY <1>1, StdioCalls
  <2>2. sys'[t].call = "none"
    BY <1>1, StdioCalls DEF NoCall
  <2> QED
    BY <2>1, <2>2 DEF Seen
<1>3. inflight_read' = [u \in DOMAIN inflight_read \ {t} |-> inflight_read[u]]
  BY DEF ReadExit, Stdio!exit_read, Stdio!DeleteRead, Stdio!Without, Stdio!Restrict
<1>4. ReadsInv'
  BY <1>2, <1>3 DEF ReadsInv
<1>5. t \in DOMAIN inflight_read <=> sys[t].seen
  BY <1>1 DEF ReadsInv, Seen
<1>6. t \in DOMAIN inflight_read => inflight_read[t] = 0
  BY DEF ReadsInv
<1>7. stdio_events' = IF ~failed /\ sys[t].seen /\ data \in JsonTexts /\ room
                      THEN <<[pid_tgid |-> t, fd |-> 0, rw |-> 4, data |-> Stdio!Clamp(data)]>>
                      ELSE << >>
  BY <1>5, <1>6, ClampKeepsJson DEF ReadExit, Stdio!exit_read, Stdio!emit_stdio_event
<1>8. last' = [by |-> t, fd |-> 0, rw |-> 4, data |-> data,
               due |-> ~failed /\ sys[t].seen /\ data \in JsonTexts /\ room]
  BY Zenon DEF ReadExit
<1>9. StdioExact'
  BY <1>7, <1>8 DEF StdioExact, Stdio!Clamp
<1> QED
  BY <1>4, <1>9

LEMMA WriteStep ==
    ASSUME Shape, program = "stdio",
           NEW t \in Threads, NEW fd \in {1, 5}, NEW data \in Texts, NEW room \in BOOLEAN,
           Write(t, fd, data, room)
    PROVE  StdioExact'
<1>1. stdio_events' = IF fd = 1 /\ data \in JsonTexts /\ room
                      THEN <<[pid_tgid |-> t, fd |-> fd, rw |-> 2, data |-> Stdio!Clamp(data)]>>
                      ELSE << >>
  BY ClampKeepsJson DEF Write, Stdio!enter_write, Stdio!emit_stdio_event
<1>2. last' = [by |-> t, fd |-> fd, rw |-> 2, data |-> data,
               due |-> fd = 1 /\ data \in JsonTexts /\ room]
  BY Zenon DEF Write
<1> QED
  BY <1>1, <1>2 DEF StdioExact, Stdio!Clamp


\* The steps that are not of this program, or leave its state alone.
LEMMA StdioSteps ==
    ASSUME Shape, program = "stdio", [Next]_vars
    PROVE  \/ \E t \in Threads, fd \in {0, 5}, count \in {0, 1} : ReadEnter(t, fd, count)
           \/ \E t \in Threads, data \in Texts, failed, room \in BOOLEAN : ReadExit(t, data, failed, room)
           \/ \E t \in Threads, fd \in {1, 5}, data \in Texts, room \in BOOLEAN : Write(t, fd, data, room)
           \/ UNCHANGED <<sys, inflight_read>> /\ (last' = NoCall \/ UNCHANGED <<last, stdio_events>>)
<1>1. \A fd \in Fds : fds[fd] = NoFile
  BY StdioCalls, Zenon
<1>2. \A t \in Threads : sys[t].call # "openat"
  BY StdioCalls, SMTT(20) DEF NoCall
<1>3. ASSUME NEW t \in Threads, NEW fd, NEW x, NEW y, NEW z
      PROVE  /\ ~OpenEnter(t, x) /\ ~OpenKernel(t) /\ ~OpenExit(t) /\ ~Mmap(t, fd, x)
             /\ fd \in Fds => ~Close(t, fd)
             /\ ~Socket(t) /\ ~Send(t, fd, x, y, z)
  BY <1>1, <1>2, Zenon DEF OpenEnter, OpenKernel, OpenExit, Mmap, Close, Socket, Send
<1>4. ASSUME NEW fd \in Fds PROVE ~Release(fd)
  BY <1>1, Zenon DEF Release
<1>5. ASSUME NEW cpu, NEW pid, NEW raw, NEW readable
      PROVE  /\ ~ExecProgram(cpu, pid, raw, readable)
             /\ ExitProgram(pid) \/ Report \/ UNCHANGED vars =>
                  UNCHANGED <<sys, inflight_read, last, stdio_events>>
             /\ Taken => UNCHANGED <<sys, inflight_read>> /\ last' = NoCall
  BY Zenon DEF ExecProgram, ExitProgram, Report, Taken, vars, stdioVars
<1>6. ASSUME NEW t \in Threads, ThreadStep(t)
      PROVE  \/ \E fd \in {0, 5}, count \in {0, 1} : ReadEnter(t, fd, count)
             \/ \E data \in Texts, failed, room \in BOOLEAN : ReadExit(t, data, failed, room)
             \/ \E fd \in {1, 5}, data \in Texts, room \in BOOLEAN : Write(t, fd, data, room)
  BY <1>3, <1>6, ZenonT(30) DEF ThreadStep
<1>7. ASSUME ~(\E t \in Threads : ThreadStep(t))
      PROVE  UNCHANGED <<sys, inflight_read>> /\ (last' = NoCall \/ UNCHANGED <<last, stdio_events>>)
  BY <1>4, <1>5, <1>7, ZenonT(30) DEF Next
<1> QED
  BY <1>6, <1>7, ZenonT(30)

LEMMA NextReads == ASSUME Shape, ReadsInv, StdioExact, [Next]_vars PROVE ReadsInv' /\ StdioExact'
<1>1. program' = program
  BY ProgramKept
<1>2. CASE program # "stdio"
  BY <1>1, <1>2, Zenon DEF ReadsInv, StdioExact
<1>3. CASE program = "stdio"
  <2>1. ASSUME NEW t \in Threads, NEW fd \in {0, 5}, NEW count \in {0, 1}, ReadEnter(t, fd, count)
        PROVE  ReadsInv' /\ StdioExact'
    <3>1. last' = NoCall
      BY <2>1, Zenon DEF ReadEnter
    <3> QED
      BY <2>1, <3>1, <1>3, ReadEnterStep, Zenon DEF StdioExact, NoCall
  <2>2. ASSUME NEW t \in Threads, NEW data \in Texts, NEW failed \in BOOLEAN, NEW room \in BOOLEAN,
               ReadExit(t, data, failed, room)
        PROVE  ReadsInv' /\ StdioExact'
    BY <2>2, <1>3, ReadExitStep, Zenon
  <2>3. ASSUME NEW t \in Threads, NEW fd \in {1, 5}, NEW data \in Texts, NEW room \in BOOLEAN,
               Write(t, fd, data, room)
        PROVE  ReadsInv' /\ StdioExact'
    <3>1. UNCHANGED <<sys, inflight_read>>
      BY <2>3, Zenon DEF Write, Stdio!enter_write
    <3>2. ReadsInv'
      BY <3>1, <1>1, Zenon DEF ReadsInv, Seen
    <3> QED
      BY <2>3, <3>2, <1>3, WriteStep, Zenon
  <2>4. ASSUME UNCHANGED <<sys, inflight_read>>, last' = NoCall \/ UNCHANGED <<last, stdio_events>>
        PROVE  ReadsInv' /\ StdioExact'
    <3>1. ReadsInv'
      BY <2>4, <1>1, Zenon DEF ReadsInv, Seen
    <3>2. StdioExact'
      BY <2>4, <1>1, Zenon DEF StdioExact, NoCall, Stdio!Clamp
    <3> QED
      BY <3>1, <3>2
  <2> QED
    BY <1>3, <2>1, <2>2, <2>3, <2>4, StdioSteps, Zenon
<1> QED
  BY <1>2, <1>3


-----------------------------------------------------------------------------
(* The maps and the descriptors. *)

LEMMA Replaced ==
    ASSUME NEW key, NEW file,
           inflight_mmap' \in Exec!LruUpdates(inflight_mmap, key, file, MMAP_ENTRIES)
    PROVE  /\ DOMAIN inflight_mmap' \subseteq DOMAIN inflight_mmap \cup {key}
           /\ key \in DOMAIN inflight_mmap' /\ inflight_mmap'[key] = file
           /\ \A k \in DOMAIN inflight_mmap' : k # key => inflight_mmap'[k] = inflight_mmap[k]
           /\ Exec!HasRoom(inflight_mmap, key, MMAP_ENTRIES) =>
                DOMAIN inflight_mmap' = DOMAIN inflight_mmap \cup {key}
<1>1. CASE Exec!HasRoom(inflight_mmap, key, MMAP_ENTRIES)
  <2>1. inflight_mmap' = Exec!With(inflight_mmap, key, file)
    BY <1>1 DEF Exec!LruUpdates
  <2> QED
    BY <2>1 DEF Exec!With
<1>2. CASE ~Exec!HasRoom(inflight_mmap, key, MMAP_ENTRIES)
  <2>1. PICK old \in DOMAIN inflight_mmap :
          inflight_mmap' = Exec!With(Exec!Without(inflight_mmap, old), key, file)
    BY <1>2 DEF Exec!LruUpdates
  <2> QED
    BY <1>2, <2>1 DEF Exec!With, Exec!Without, Exec!Restrict
<1> QED
  BY <1>1, <1>2

\* If there is a place for every thread and descriptor, nothing is evicted.
LEMMA RoomForAll ==
    ASSUME Roomy, DOMAIN inflight_mmap \subseteq Fds \X Threads, NEW key \in Fds \X Threads
    PROVE  Exec!HasRoom(inflight_mmap, key, MMAP_ENTRIES)
<1> DEFINE S == Fds \X Threads
           T == DOMAIN inflight_mmap
<1> SUFFICES ASSUME key \notin T PROVE Cardinality(T) < MMAP_ENTRIES
  BY SameCardinality DEF Exec!HasRoom
<1>1. IsFiniteSet(S) /\ Cardinality(S) <= MMAP_ENTRIES /\ T \subseteq S /\ T # S
  BY DEF Roomy
<1>2. Cardinality(T) \in Nat /\ Cardinality(S) \in Nat /\ Cardinality(T) < Cardinality(S)
  <2> HIDE DEF S, T
  <2> QED
    BY <1>1, FS_Subset, FS_CardinalityType, SMTT(20)
<1>3. MMAP_ENTRIES \in Nat
  BY SyscallsAssumption, Zenon DEF SyscallsAssumption
<1> QED
  BY <1>1, <1>2, <1>3, SMTT(20)

LEMMA LowestFree ==
    ASSUME program \in Programs, program \in {"libs", "pg"}, Free # {}
    PROVE  Lowest \in Fds /\ fds[Lowest] = NoFile
<1>1. Free \subseteq Fds /\ Free \subseteq Nat
  BY SyscallsAssumption, Zenon DEF SyscallsAssumption, Free
<1>2. \E x \in Free : \A y \in Free : ~(<<y, x>> \in OpToRel(<, Nat))
  BY <1>1, NatLessThanWellFounded, WFMin, Zenon
<1>3. \E x \in Free : \A y \in Free : ~(y < x)
  BY <1>1, <1>2 DEF OpToRel
<1>4. \E x \in Free : \A y \in Free : x <= y
  BY <1>1, <1>3, SMTT(20)
<1>5. Lowest \in Free
  BY <1>4, Zenon DEF Lowest
<1> QED
  BY <1>1, <1>5, Zenon DEF Free


\* What the operations of the "libs" program do, in terms of the invariant.

LEMMA LibCalls ==
    ASSUME Shape, program = "libs"
    PROVE  /\ sys \in [Threads -> {NoCall} \cup Opens]
           /\ fds \in [Fds -> {NoFile} \cup LibFiles]
           /\ \A t \in Threads : sys[t] = NoCall \/ sys[t].call = "openat"
           /\ \A t \in Threads : sys[t].call = "openat" => sys[t] \in Opens
           /\ \A fd \in Fds : fds[fd] # NoFile => fds[fd] \in LibFiles
<1>1. sys \in [Threads -> {NoCall} \cup Opens] /\ fds \in [Fds -> {NoFile} \cup LibFiles]
  BY DEF Shape, CallsOf, Objects
<1>2. NoCall.call = "none"
  BY DEF NoCall
<1>3. \A o \in Opens : o.call = "openat"
  BY DEF Opens
<1> QED
  BY <1>1, <1>2, <1>3

LEMMA OpenProgram ==
    ASSUME Shape, NEW t \in Threads, sys[t].call = "openat"
    PROVE  program = "libs"
<1>1. sys[t] \in {NoCall} \cup CallsOf
  BY DEF Shape
<1>2. sys[t] # NoCall
  BY SMTT(20) DEF NoCall
<1>3. \A o \in Reads : o.call = "read"
  BY DEF Reads
<1> QED
  BY <1>1, <1>2, <1>3 DEF CallsOf

LEMMA OpenEnterEffect ==
    ASSUME Shape, LibsInv, NEW t \in Threads, NEW file \in Files, OpenEnter(t, file)
    PROVE  /\ program = "libs" /\ sys[t] = NoCall
           /\ UNCHANGED <<program, fds, stale, inflight, inflight_mmap>>
           /\ \E took \in BOOLEAN :
                /\ sys' = [sys EXCEPT ![t] = [call |-> "openat", file |-> file, ret |-> 0, seen |-> took]]
                /\ inflight_open' = IF took THEN Exec!With(inflight_open, t, file) ELSE inflight_open
<1> DEFINE took == Exec!is_libssl(file) /\ Cardinality(Seen) < OPEN_ENTRIES
<1>1. /\ program = "libs" /\ sys[t] = NoCall
      /\ UNCHANGED <<program, fds, stale, inflight>>
      /\ sys' = [sys EXCEPT ![t] = [call |-> "openat", file |-> file, ret |-> 0, seen |-> took]]
      /\ Exec!enter_openat(t, file)
  BY Zenon DEF OpenEnter, Ready, pgVars
<1>2. t \notin Seen
  BY <1>1, SMTT(20) DEF Seen, NoCall
<1>3. DOMAIN inflight_open = Seen
  BY <1>1, Zenon DEF LibsInv, OpensInv
<1>4. inflight_open' = IF took THEN Exec!With(inflight_open, t, file) ELSE inflight_open
  BY <1>1, <1>2, <1>3, SameCardinality DEF Exec!enter_openat, Exec!HashUpdate, Exec!HasRoom
<1>5. UNCHANGED inflight_mmap
  BY <1>1, Zenon DEF Exec!enter_openat
<1>6. took \in BOOLEAN
  BY DEF Exec!is_libssl
<1> HIDE DEF took
<1> QED
  BY <1>1, <1>4, <1>5, <1>6, Zenon

LEMMA OpenKernelEffect ==
    ASSUME Shape, NEW t \in Threads, OpenKernel(t)
    PROVE  /\ program = "libs" /\ sys[t] \in Opens /\ sys[t].ret = 0
           /\ UNCHANGED <<program, inflight_open, inflight_mmap, inflight>>
           /\ \/ \E fd \in Fds :
                   /\ fds[fd] = NoFile
                   /\ fds' = [fds EXCEPT ![fd] = [kind |-> "file", file |-> sys[t].file, by |-> t,
                                                  seen |-> sys[t].seen, reports |-> 0]]
                   /\ stale' = IF sys[t].seen THEN stale \ {<<t, fd>>} ELSE stale
                   /\ sys' = [sys EXCEPT ![t].ret = fd]
              \/ /\ sys' = [sys EXCEPT ![t].ret = -1]
                 /\ UNCHANGED <<fds, stale>>
<1>1. sys[t].call = "openat" /\ sys[t].ret = 0
  BY Zenon DEF OpenKernel
<1>2. program = "libs" /\ sys[t] \in Opens
  BY <1>1, OpenProgram, LibCalls, Zenon
<1>3. Free # {} => Lowest \in Fds /\ fds[Lowest] = NoFile
  BY <1>2, LowestFree, Zenon DEF Shape
<1> QED
  BY <1>1, <1>2, <1>3, Zenon DEF OpenKernel, libVars, pgVars

LEMMA OpenExitEffect ==
    ASSUME Shape, LibsInv, NEW t \in Threads, OpenExit(t)
    PROVE  /\ program = "libs" /\ sys[t] \in Opens /\ sys[t].ret # 0
           /\ UNCHANGED <<program, fds, stale, inflight>>
           /\ sys' = [sys EXCEPT ![t] = NoCall]
           /\ inflight_open' = Exec!Without(inflight_open, t)
           /\ IF sys[t].seen /\ sys[t].ret # -1
              THEN inflight_mmap' \in Exec!LruUpdates(inflight_mmap, <<sys[t].ret, t>>,
                                                      sys[t].file, MMAP_ENTRIES)
              ELSE UNCHANGED inflight_mmap
<1>1. /\ sys[t].call = "openat" /\ sys[t].ret # 0
      /\ UNCHANGED <<program, fds, stale, inflight>>
      /\ sys' = [sys EXCEPT ![t] = NoCall]
      /\ Exec!exit_openat(t, sys[t].ret)
  BY Zenon DEF OpenExit, pgVars
<1>2. program = "libs" /\ sys[t] \in Opens
  BY <1>1, OpenProgram, LibCalls, Zenon
<1>3. (t \in DOMAIN inflight_open <=> sys[t].seen) /\ (sys[t].seen => inflight_open[t] = sys[t].file)
  BY <1>1, <1>2, Zenon DEF LibsInv, OpensInv, Seen
<1>4. sys[t].ret < 0 <=> sys[t].ret = -1
  <2>1. sys[t].ret \in Fds \cup {-1, 0}
    BY <1>2 DEF Opens
  <2>2. Fds \subseteq Nat
    BY SyscallsAssumption, Zenon DEF SyscallsAssumption
  <2>3. \A r \in Fds \cup {-1, 0} : r < 0 <=> r = -1
    BY <2>2, SMTT(20)
  <2> QED
    BY <2>1, <2>3, Zenon
<1>5. /\ IF t \notin DOMAIN inflight_open \/ sys[t].ret < 0 THEN UNCHANGED inflight_mmap
         ELSE inflight_mmap' \in Exec!LruUpdates(inflight_mmap, <<sys[t].ret, t>>,
                                                 inflight_open[t], MMAP_ENTRIES)
      /\ inflight_open' = Exec!Without(inflight_open, t)
  BY <1>1, Zenon DEF Exec!exit_openat
<1> QED
  BY <1>1, <1>2, <1>3, <1>4, <1>5, Zenon


Clean(t, fd) == <<t, fd>> \notin stale
Found(t, fd, room) == <<fd, t>> \in DOMAIN inflight_mmap /\ room

LEMMA MmapEffect ==
    ASSUME Shape, LibsInv, NEW t \in Threads, NEW fd \in Fds, NEW room \in BOOLEAN, Mmap(t, fd, room)
    PROVE  /\ program = "libs" /\ sys[t] = NoCall /\ fds[fd] \in LibFiles
           /\ UNCHANGED <<program, sys, stale, inflight, inflight_open>>
           /\ inflight_mmap' = IF Found(t, fd, room) THEN Exec!Without(inflight_mmap, <<fd, t>>) ELSE inflight_mmap
           /\ dynlib_events' = IF Found(t, fd, room)
                THEN <<[fd |-> fd, pid_tgid |-> t, filename |-> inflight_mmap[<<fd, t>>]]>> ELSE << >>
           /\ Found(t, fd, room) /\ Clean(t, fd) => fds[fd] = Opened(t, inflight_mmap[<<fd, t>>])
           /\ fds' = IF Found(t, fd, room) /\ Clean(t, fd) THEN [fds EXCEPT ![fd] = [fds[fd] EXCEPT !.reports = 1]] ELSE fds
           /\ last' = [file |-> fds'[fd], clean |-> Clean(t, fd),
                       due |-> room /\ Clean(t, fd) /\ fds[fd].seen /\ fds[fd].by = t]
<1> DEFINE clean == Clean(t, fd)
           found == Found(t, fd, room)
           e == [fd |-> fd, pid_tgid |-> t, filename |-> inflight_mmap[<<fd, t>>]]
<1>1. /\ program = "libs" /\ sys[t] = NoCall /\ fds[fd] # NoFile
      /\ UNCHANGED <<program, sys, stale, inflight>>
      /\ Exec!enter_mmap(t, fd, room)
      /\ fds' = IF clean /\ dynlib_events' # << >>
                THEN [fds EXCEPT ![fd].reports = IF @ = 0 THEN 1 ELSE 2] ELSE fds
      /\ last' = [file |-> fds'[fd], clean |-> clean,
                  due |-> room /\ clean /\ fds[fd].seen /\ fds[fd].by = t]
  BY Zenon DEF Mmap, Ready, pgVars, Clean
<1>2. fds[fd] \in LibFiles
  BY <1>1, LibCalls, Zenon
<1>3. /\ dynlib_events' = IF found THEN <<e>> ELSE << >>
      /\ inflight_mmap' = IF found THEN Exec!Without(inflight_mmap, <<fd, t>>) ELSE inflight_mmap
      /\ UNCHANGED inflight_open
  BY <1>1, Zenon DEF Exec!enter_mmap, Found
<1>4. found /\ clean => fds[fd] = Opened(t, inflight_mmap[<<fd, t>>])
  <2>1. ~Opening(t, fd)
    BY <1>1, SMTT(20) DEF Opening, NoCall
  <2> QED
    BY <1>1, <2>1, Zenon DEF LibsInv, FdInv, Found, Clean
<1>5. fds' = IF found /\ clean THEN [fds EXCEPT ![fd] = [fds[fd] EXCEPT !.reports = 1]] ELSE fds
  <2>1. <<e>> # << >>
    OBVIOUS
  <2>2. CASE found /\ clean
    <3>1. fds[fd].reports = 0
      BY <1>4, <2>2, SMTT(20) DEF Opened
    <3>2. dynlib_events' # << >>
      BY <1>3, <2>1, <2>2, Zenon
    <3> HIDE DEF clean, found, e
    <3>3. fds' = [fds EXCEPT ![fd].reports = IF @ = 0 THEN 1 ELSE 2]
      BY <1>1, <2>2, <3>2, Zenon
    <3>4. fds' = [fds EXCEPT ![fd] = [fds[fd] EXCEPT !.reports = 1]]
      BY <3>1, <3>3
    <3> QED
      BY <2>2, <3>4
  <2>3. CASE ~(found /\ clean)
    BY <1>1, <1>3, <2>3, Zenon
  <2> QED
    BY <2>2, <2>3
<1> QED
  BY <1>1, <1>2, <1>3, <1>4, <1>5, Zenon

LEMMA CloseEffect ==
    ASSUME NEW t \in Threads, NEW fd \in Fds, Close(t, fd)
    PROVE  /\ sys[t] = NoCall /\ fds[fd] # NoFile
           /\ UNCHANGED <<program, sys, inflight_open>>
           /\ inflight_mmap' = Exec!Without(inflight_mmap, <<fd, t>>)
           /\ inflight' = Pg!Without(inflight, <<t, fd>>)
           /\ fds' = [fds EXCEPT ![fd] = NoFile]
           /\ stale' = (stale \cup {<<u, fd>> : u \in Threads}) \ {<<t, fd>>}
           /\ last' = NoCall
BY Zenon DEF Close, Ready, Exec!exec_enter_close, Pg!pg_enter_close

LEMMA ReleaseEffect ==
    ASSUME NEW fd \in Fds, Release(fd)
    PROVE  /\ fds[fd] # NoFile
           /\ UNCHANGED <<program, sys, inflight_open, inflight_mmap, inflight>>
           /\ fds' = [fds EXCEPT ![fd] = NoFile]
           /\ stale' = stale \cup {<<u, fd>> : u \in Threads}
           /\ last' = NoCall
BY Zenon DEF Release, libVars, pgVars

LEMMA SocketEffect ==
    ASSUME Shape, NEW t \in Threads, Socket(t)
    PROVE  /\ program = "pg"
           /\ UNCHANGED <<program, sys, stale, inflight_open, inflight_mmap, inflight>>
           /\ \E fd \in Fds :
                /\ fds[fd] = NoFile
                /\ fds' = [fds EXCEPT ![fd] = [kind |-> "socket", by |-> t, flag |-> -1, sync |-> TRUE]]
<1>1. program = "pg" /\ Free # {}
  BY Zenon DEF Socket
<1>2. Lowest \in Fds /\ fds[Lowest] = NoFile
  BY <1>1, LowestFree, Zenon DEF Shape
<1> QED
  BY <1>1, <1>2, Zenon DEF Socket, libVars, pgVars


LEMMA SendEffect ==
    ASSUME Shape, NEW t \in Threads, NEW fd \in Fds, NEW buf, NEW mapped, NEW room,
           Send(t, fd, buf, mapped, room)
    PROVE  /\ program = "pg" /\ fds[fd] # NoFile
           /\ UNCHANGED <<program, sys, stale, inflight_open, inflight_mmap>>
           /\ \E conn \in Sockets : fds' = [fds EXCEPT ![fd] = conn]
           /\ DOMAIN inflight' \subseteq DOMAIN inflight \cup {<<t, fd>>}
<1> DEFINE first == fds[fd].flag = -1
           known == /\ <<t, fd>> \notin stale /\ fds[fd].by = t
                    /\ mapped > 0 /\ Cardinality(DOMAIN inflight) < PG_ENTRIES
           flag == IF ~first THEN fds[fd].flag ELSE IF known THEN buf.startup ELSE 0
           sync == first \/ (fds[fd].sync /\ Whole(buf.cells))
<1>1. /\ program = "pg" /\ fds[fd] # NoFile
      /\ UNCHANGED <<program, sys, stale, inflight_open, inflight_mmap>>
      /\ buf \in IF first THEN Startups ELSE Buffers
      /\ Pg!enter_sendto(t, fd, buf, mapped, room)
  BY Zenon DEF Send, libVars
<1>2. fds \in [Fds -> {NoFile} \cup Sockets] /\ fds[fd] \in Sockets
  BY <1>1 DEF Shape, Objects
<1>3. fds' = [fds EXCEPT ![fd].flag = flag, ![fd].sync = sync]
  BY <1>2 DEF Send
<1>4. flag \in -1 .. 4
  <2>1. first => buf.startup \in 0 .. 4
    BY <1>1, SyscallsAssumption, Zenon DEF SyscallsAssumption
  <2>2. fds[fd].flag \in -1 .. 4
    BY <1>2 DEF Sockets
  <2>3. first /\ known => flag = buf.startup
    OBVIOUS
  <2>4. first /\ ~known => flag = 0
    OBVIOUS
  <2>5. ~first => flag = fds[fd].flag
    OBVIOUS
  <2> HIDE DEF first, known, flag
  <2> QED
    BY <2>1, <2>2, <2>3, <2>4, <2>5, SMTT(20)
<1>5. sync \in BOOLEAN
  OBVIOUS
<1> HIDE DEF flag, sync
<1>6. \E conn \in Sockets : fds' = [fds EXCEPT ![fd] = conn]
  <2> DEFINE conn == [fds[fd] EXCEPT !.flag = flag, !.sync = sync]
  <2>1. conn \in Sockets
    BY <1>2, <1>4, <1>5 DEF Sockets
  <2>2. fds' = [fds EXCEPT ![fd] = conn]
    BY <1>2, <1>3
  <2> QED
    BY <2>1, <2>2, Zenon
<1>7. DOMAIN inflight' \subseteq DOMAIN inflight \cup {<<t, fd>>}
  <2>1. \/ UNCHANGED inflight
        \/ \E flg : inflight' = Pg!With(inflight, <<t, fd>>, flg)
    BY <1>1, Zenon DEF Pg!enter_sendto, Pg!HashUpdate
  <2> QED
    BY <2>1 DEF Pg!With
<1> QED
  BY <1>1, <1>6, <1>7, Zenon

\* The descriptors and their maps are left alone by everything else, and the
\* calls by all of it but read.
LEMMA OtherEffect ==
    ASSUME NEW t, NEW fd, NEW x, NEW y, NEW z, NEW w,
           \/ ReadEnter(t, fd, x) \/ ReadExit(t, x, y, z) \/ Write(t, fd, x, y)
           \/ ExecProgram(x, y, z, w) \/ ExitProgram(x) \/ Report \/ Taken \/ UNCHANGED vars
    PROVE  /\ UNCHANGED <<fds, stale, inflight, inflight_open, inflight_mmap>>
           /\ \/ ReadEnter(t, fd, x) \/ ReadExit(t, x, y, z)
              \/ UNCHANGED sys
BY Zenon DEF ReadEnter, ReadExit, Write, ExecProgram, ExitProgram, Report, Taken, vars, libVars, pgVars


-----------------------------------------------------------------------------
(* The values stay what they are, and the entries live. *)

IInv == Shape /\ LibsInv /\ EntriesLive

LEMMA SameValues ==
    ASSUME program' = program
    PROVE  Objects' = Objects /\ CallsOf' = CallsOf
BY Zenon DEF Objects, CallsOf, LibFiles, Sockets, Opens, Reads

LEMMA OpenEnterShape ==
    ASSUME IInv, NEW t \in Threads, NEW file \in Files, OpenEnter(t, file)
    PROVE  Shape' /\ EntriesLive'
<1>1. PICK took \in BOOLEAN :
        sys' = [sys EXCEPT ![t] = [call |-> "openat", file |-> file, ret |-> 0, seen |-> took]]
  BY OpenEnterEffect, Zenon DEF IInv
<1>2. program = "libs" /\ UNCHANGED <<program, fds, stale, inflight, inflight_mmap>>
  BY OpenEnterEffect, Zenon DEF IInv
<1>3. [call |-> "openat", file |-> file, ret |-> 0, seen |-> took] \in Opens
  BY DEF Opens
<1>4. sys' \in [Threads -> {NoCall} \cup CallsOf]
  BY <1>1, <1>2, <1>3 DEF IInv, Shape, CallsOf
<1> QED
  BY <1>2, <1>4, SameValues, Zenon DEF IInv, Shape, EntriesLive

LEMMA OpenKernelShape ==
    ASSUME IInv, NEW t \in Threads, OpenKernel(t)
    PROVE  Shape' /\ EntriesLive'
<1>0. /\ program = "libs" /\ sys[t] \in Opens
      /\ UNCHANGED <<program, inflight_open, inflight_mmap, inflight>>
  BY OpenKernelEffect, Zenon DEF IInv
<1>1. sys \in [Threads -> {NoCall} \cup Opens] /\ fds \in [Fds -> {NoFile} \cup LibFiles]
  BY <1>0, LibCalls, Zenon DEF IInv
<1>2. ASSUME NEW r \in Fds \cup {-1}, sys' = [sys EXCEPT ![t].ret = r]
      PROVE  sys' \in [Threads -> {NoCall} \cup Opens]
  <2>1. [sys[t] EXCEPT !.ret = r] \in Opens
    BY <1>0, <1>2 DEF Opens
  <2> QED
    BY <1>1, <1>2, <2>1
<1>3. CASE sys' = [sys EXCEPT ![t].ret = -1] /\ UNCHANGED <<fds, stale>>
  <2>1. sys' \in [Threads -> {NoCall} \cup Opens]
    BY <1>2, <1>3, Zenon
  <2> QED
    BY <1>0, <1>3, <2>1, SameValues, Zenon DEF IInv, Shape, EntriesLive, CallsOf
<1>4. ASSUME NEW fd \in Fds, fds[fd] = NoFile,
             fds' = [fds EXCEPT ![fd] = [kind |-> "file", file |-> sys[t].file, by |-> t,
                                         seen |-> sys[t].seen, reports |-> 0]],
             stale' = IF sys[t].seen THEN stale \ {<<t, fd>>} ELSE stale,
             sys' = [sys EXCEPT ![t].ret = fd]
      PROVE  Shape' /\ EntriesLive'
  <2>1. sys' \in [Threads -> {NoCall} \cup Opens]
    BY <1>2, <1>4, Zenon
  <2>2. PICK new : new = [kind |-> "file", file |-> sys[t].file, by |-> t,
                          seen |-> sys[t].seen, reports |-> 0]
    OBVIOUS
  <2>3. new \in LibFiles /\ new # NoFile
    BY <1>0, <2>2, SMTT(20) DEF LibFiles, Opens, NoFile
  <2>4. fds' \in [Fds -> {NoFile} \cup LibFiles] /\ fds'[fd] # NoFile /\ \A x \in Fds : x # fd => fds'[x] = fds[x]
    BY <1>1, <1>4, <2>2, <2>3
  <2>5. stale' \subseteq stale /\ \A key \in stale : key # <<t, fd>> => key \in stale'
    BY <1>4
  <2>6. Shape'
    BY <1>0, <2>1, <2>4, <2>5, SameValues, Zenon DEF IInv, Shape, CallsOf, Objects
  <2>7. ASSUME NEW u \in Threads, NEW x \in Fds, fds[x] # NoFile \/ <<u, x>> \in stale
        PROVE  fds'[x] # NoFile \/ <<u, x>> \in stale'
    BY <2>4, <2>5, <2>7
  <2>8. EntriesLive'
    BY <1>0, <2>7, SMTT(20) DEF IInv, Shape, EntriesLive
  <2> QED
    BY <2>6, <2>8
<1> QED
  BY <1>3, <1>4, OpenKernelEffect, Zenon DEF IInv

LEMMA OpenExitShape ==
    ASSUME IInv, NEW t \in Threads, OpenExit(t)
    PROVE  Shape' /\ EntriesLive'
<1> DEFINE r == sys[t].ret
<1>0. /\ program = "libs" /\ sys[t] \in Opens /\ r # 0
      /\ UNCHANGED <<program, fds, stale, inflight>>
      /\ sys' = [sys EXCEPT ![t] = NoCall]
      /\ IF sys[t].seen /\ r # -1
         THEN inflight_mmap' \in Exec!LruUpdates(inflight_mmap, <<r, t>>, sys[t].file, MMAP_ENTRIES)
         ELSE UNCHANGED inflight_mmap
  BY OpenExitEffect, Zenon DEF IInv
<1>1. sys' \in [Threads -> {NoCall} \cup CallsOf]
  BY <1>0 DEF IInv, Shape
<1>2. CASE UNCHANGED inflight_mmap
  BY <1>0, <1>1, <1>2, SameValues, Zenon DEF IInv, Shape, EntriesLive
<1>3. CASE /\ sys[t].seen /\ r # -1
           /\ inflight_mmap' \in Exec!LruUpdates(inflight_mmap, <<r, t>>, sys[t].file, MMAP_ENTRIES)
  <2>1. r \in Fds /\ sys[t].call = "openat"
    BY <1>0, <1>3 DEF Opens
  <2>2. DOMAIN inflight_mmap' \subseteq DOMAIN inflight_mmap \cup {<<r, t>>}
    BY <1>3, Replaced, Zenon
  <2>3. fds[r] # NoFile \/ <<t, r>> \in stale
    <3>1. Opening(t, r) /\ FdInv(t, r)
      BY <1>0, <1>3, <2>1, Zenon DEF IInv, LibsInv, Opening
    <3>2. Opened(t, sys[t].file) # NoFile
      BY DEF Opened, NoFile
    <3> QED
      BY <3>1, <3>2, Zenon DEF FdInv
  <2> HIDE DEF r
  <2>4. Shape'
    BY <1>0, <1>1, <2>1, <2>2, SameValues, SMTT(20) DEF IInv, Shape
  <2>5. EntriesLive'
    BY <1>0, <2>2, <2>3, SMTT(20) DEF IInv, EntriesLive
  <2> QED
    BY <2>4, <2>5
<1> QED
  BY <1>0, <1>2, <1>3, Zenon


LEMMA MmapShape ==
    ASSUME IInv, NEW t \in Threads, NEW fd \in Fds, NEW room \in BOOLEAN, Mmap(t, fd, room)
    PROVE  Shape' /\ EntriesLive'
<1>0. /\ program = "libs" /\ fds[fd] \in LibFiles
      /\ UNCHANGED <<program, sys, stale, inflight, inflight_open>>
      /\ inflight_mmap' = IF Found(t, fd, room) THEN Exec!Without(inflight_mmap, <<fd, t>>) ELSE inflight_mmap
      /\ fds' = IF Found(t, fd, room) /\ Clean(t, fd)
                THEN [fds EXCEPT ![fd] = [fds[fd] EXCEPT !.reports = 1]] ELSE fds
  BY MmapEffect, ZenonT(60) DEF IInv
<1>1. /\ program = "libs" /\ fds[fd] \in LibFiles
      /\ UNCHANGED <<program, sys, stale, inflight, inflight_open>>
      /\ \/ UNCHANGED inflight_mmap
         \/ inflight_mmap' = Exec!Without(inflight_mmap, <<fd, t>>)
      /\ UNCHANGED fds \/ fds' = [fds EXCEPT ![fd] = [fds[fd] EXCEPT !.reports = 1]]
  BY <1>0, Zenon
<1>2. DOMAIN inflight_mmap' \subseteq DOMAIN inflight_mmap
  BY <1>1 DEF Exec!Without, Exec!Restrict
<1>3. fds \in [Fds -> {NoFile} \cup LibFiles]
  BY <1>1, LibCalls, Zenon DEF IInv
<1>4. PICK new : new = [fds[fd] EXCEPT !.reports = 1]
  OBVIOUS
<1>5. new \in LibFiles /\ new # NoFile /\ fds[fd] # NoFile
  BY <1>1, <1>4, SMTT(20) DEF LibFiles, NoFile
<1>6. fds' \in [Fds -> {NoFile} \cup LibFiles] /\ \A x \in Fds : fds[x] # NoFile => fds'[x] # NoFile
  BY <1>1, <1>3, <1>4, <1>5
<1>7. Shape'
  BY <1>1, <1>2, <1>6, SameValues, Zenon DEF IInv, Shape, Objects
<1>8. EntriesLive'
  BY <1>1, <1>2, <1>6 DEF IInv, Shape, EntriesLive
<1> QED
  BY <1>7, <1>8

\* A descriptor is released: the entries of it that stay are stale.
LEMMA ReleasedShape ==
    ASSUME IInv, NEW fd \in Fds,
           UNCHANGED <<program, sys>>,
           fds' = [fds EXCEPT ![fd] = NoFile],
           stale' \subseteq Threads \X Fds,
           \A u \in Threads, x \in Fds :
               x # fd /\ <<u, x>> \in stale => <<u, x>> \in stale',
           DOMAIN inflight' \subseteq DOMAIN inflight,
           DOMAIN inflight_mmap' \subseteq DOMAIN inflight_mmap,
           \A u \in Threads :
               \/ <<u, fd>> \in stale'
               \/ <<u, fd>> \notin DOMAIN inflight' /\ <<fd, u>> \notin DOMAIN inflight_mmap'
    PROVE  Shape' /\ EntriesLive'
<1>1. fds' \in [Fds -> {NoFile} \cup Objects] /\ \A x \in Fds : x # fd => fds'[x] = fds[x]
  BY DEF IInv, Shape
<1>2. Shape'
  BY <1>1, SameValues DEF IInv, Shape
<1>3. ASSUME NEW key \in DOMAIN inflight'
      PROVE  fds'[key[2]] # NoFile \/ key \in stale'
  <2>1. PICK u \in Threads, x \in Fds : key = <<u, x>>
    BY <1>3, SMTT(20) DEF IInv, Shape
  <2>2. fds[x] # NoFile \/ <<u, x>> \in stale
    BY <1>3, <2>1 DEF IInv, EntriesLive
  <2>3. x # fd \/ <<u, fd>> \in stale'
    BY <1>3, <2>1
  <2> QED
    BY <1>1, <2>1, <2>2, <2>3
<1>4. ASSUME NEW key \in DOMAIN inflight_mmap'
      PROVE  fds'[key[1]] # NoFile \/ <<key[2], key[1]>> \in stale'
  <2>1. PICK u \in Threads, x \in Fds : key = <<x, u>>
    BY <1>4, SMTT(20) DEF IInv, Shape
  <2>2. fds[x] # NoFile \/ <<u, x>> \in stale
    BY <1>4, <2>1 DEF IInv, EntriesLive
  <2>3. x # fd \/ <<u, fd>> \in stale'
    BY <1>4, <2>1
  <2> QED
    BY <1>1, <2>1, <2>2, <2>3
<1> QED
  BY <1>2, <1>3, <1>4 DEF EntriesLive

LEMMA CloseShape ==
    ASSUME IInv, NEW t \in Threads, NEW fd \in Fds, Close(t, fd)
    PROVE  Shape' /\ EntriesLive'
<1>1. /\ UNCHANGED <<program, sys>>
      /\ inflight_mmap' = Exec!Without(inflight_mmap, <<fd, t>>)
      /\ inflight' = Pg!Without(inflight, <<t, fd>>)
      /\ fds' = [fds EXCEPT ![fd] = NoFile]
      /\ stale' = (stale \cup {<<u, fd>> : u \in Threads}) \ {<<t, fd>>}
  BY CloseEffect, Zenon
<1>2. /\ DOMAIN inflight' = DOMAIN inflight \ {<<t, fd>>}
      /\ DOMAIN inflight_mmap' = DOMAIN inflight_mmap \ {<<fd, t>>}
  BY <1>1 DEF Exec!Without, Exec!Restrict, Pg!Without, Pg!Restrict
<1>3. stale' \subseteq Threads \X Fds
  BY <1>1, SMTT(20) DEF IInv, Shape
<1>4. \A u \in Threads, x \in Fds : x # fd /\ <<u, x>> \in stale => <<u, x>> \in stale'
  BY <1>1
<1>5. \A u \in Threads : u # t => <<u, fd>> \in stale'
  BY <1>1
<1>6. <<t, fd>> \notin DOMAIN inflight' /\ <<fd, t>> \notin DOMAIN inflight_mmap'
  BY <1>2
<1> QED
  BY <1>1, <1>2, <1>3, <1>4, <1>5, <1>6, ReleasedShape, Zenon

LEMMA ReleaseShape ==
    ASSUME IInv, NEW fd \in Fds, Release(fd)
    PROVE  Shape' /\ EntriesLive'
<1>1. /\ UNCHANGED <<program, sys, inflight_mmap, inflight>>
      /\ fds' = [fds EXCEPT ![fd] = NoFile]
      /\ stale' = stale \cup {<<u, fd>> : u \in Threads}
  BY ReleaseEffect, Zenon
<1>2. stale' \subseteq Threads \X Fds
  BY <1>1, SMTT(20) DEF IInv, Shape
<1>3. \A u \in Threads, x \in Fds : <<u, x>> \in stale => <<u, x>> \in stale'
  BY <1>1
<1>4. \A u \in Threads : <<u, fd>> \in stale'
  BY <1>1
<1> QED
  BY <1>1, <1>2, <1>3, <1>4, ReleasedShape, Zenon

\* A descriptor stands for a socket.
LEMMA ConnectedShape ==
    ASSUME IInv, program = "pg", NEW t \in Threads, NEW fd \in Fds, NEW conn \in Sockets,
           UNCHANGED <<program, sys, stale, inflight_mmap>>,
           fds' = [fds EXCEPT ![fd] = conn],
           DOMAIN inflight' \subseteq DOMAIN inflight \cup {<<t, fd>>}
    PROVE  Shape' /\ EntriesLive'
<1>1. conn # NoFile
  BY SMTT(20) DEF Sockets, NoFile
<1>2. fds' \in [Fds -> {NoFile} \cup Objects] /\ fds'[fd] # NoFile /\ \A x \in Fds : x # fd => fds'[x] = fds[x]
  BY <1>1 DEF IInv, Shape, Objects
<1>3. DOMAIN inflight' \subseteq Threads \X Fds
  BY SMTT(20) DEF IInv, Shape
<1>4. Shape'
  BY <1>2, <1>3, SameValues, Zenon DEF IInv, Shape
<1>5. EntriesLive'
  BY <1>2, SMTT(20) DEF IInv, Shape, EntriesLive
<1> QED
  BY <1>4, <1>5


LEMMA OthersShape ==
    ASSUME IInv, [Next]_vars,
           UNCHANGED <<fds, stale, inflight, inflight_open, inflight_mmap>>,
           sys' \in [Threads -> {NoCall} \cup CallsOf]
    PROVE  Shape' /\ EntriesLive'
<1>1. program' = program
  BY ProgramKept
<1> QED
  BY <1>1, SameValues, Zenon DEF IInv, Shape, EntriesLive

LEMMA ReadCalls ==
    ASSUME IInv, NEW t \in Threads, NEW fd, NEW x, NEW y, NEW z,
           ReadEnter(t, fd, x) \/ ReadExit(t, x, y, z)
    PROVE  program = "stdio" /\ sys' \in [Threads -> {NoCall} \cup CallsOf]
<1>1. CASE ReadEnter(t, fd, x)
  <2>1. PICK took : /\ program = "stdio" /\ sys' = [sys EXCEPT ![t] = [call |-> "read", seen |-> took]]
                    /\ took \in BOOLEAN
    BY <1>1, Zenon DEF ReadEnter
  <2>2. [call |-> "read", seen |-> took] \in CallsOf
    BY <2>1 DEF CallsOf, Reads
  <2> QED
    BY <2>1, <2>2 DEF IInv, Shape
<1>2. CASE ReadExit(t, x, y, z)
  <2>1. sys' = [sys EXCEPT ![t] = NoCall] /\ sys[t].call = "read"
    BY <1>2, Zenon DEF ReadExit
  <2>2. sys[t] \in {NoCall} \cup CallsOf
    BY DEF IInv, Shape
  <2>3. NoCall.call = "none" /\ \A o \in Opens : o.call = "openat"
    BY DEF NoCall, Opens
  <2>4. program = "stdio"
    BY <2>1, <2>2, <2>3 DEF CallsOf
  <2> QED
    BY <2>1, <2>4 DEF IInv, Shape
<1> QED
  BY <1>1, <1>2

\* What a thread and a descriptor have to do with each other stays.
LEMMA FdKept ==
    ASSUME NEW u, NEW x, FdInv(u, x), fds'[x] = fds[x],
           <<u, x>> \in stale => <<u, x>> \in stale',
           Opening(u, x)' <=> Opening(u, x),
           Opening(u, x) => sys'[u].file = sys[u].file,
           <<x, u>> \in DOMAIN inflight_mmap' =>
               <<x, u>> \in DOMAIN inflight_mmap /\ inflight_mmap'[<<x, u>>] = inflight_mmap[<<x, u>>],
           Roomy /\ <<x, u>> \in DOMAIN inflight_mmap => <<x, u>> \in DOMAIN inflight_mmap'
    PROVE  FdInv(u, x)'
<1>1. Roomy' <=> Roomy
  BY Zenon DEF Roomy
<1>2. Opened(u, sys[u].file)' = Opened(u, sys'[u].file)
  BY Zenon DEF Opened
<1> QED
  BY <1>1, <1>2, ZenonT(30) DEF FdInv, Opened

LEMMA OpenEnterLibs ==
    ASSUME IInv, NEW t \in Threads, NEW file \in Files, OpenEnter(t, file)
    PROVE  LibsInv'
<1>1. PICK took \in BOOLEAN :
        /\ sys' = [sys EXCEPT ![t] = [call |-> "openat", file |-> file, ret |-> 0, seen |-> took]]
        /\ inflight_open' = IF took THEN Exec!With(inflight_open, t, file) ELSE inflight_open
  BY OpenEnterEffect, Zenon DEF IInv
<1>2. program = "libs" /\ sys[t] = NoCall /\ UNCHANGED <<program, fds, stale, inflight_mmap>>
  BY OpenEnterEffect, Zenon DEF IInv
<1>3. OpensInv /\ \A u \in Threads, x \in Fds : FdInv(u, x)
  BY <1>2, Zenon DEF IInv, LibsInv
<1>4. \A u \in Threads : u # t => sys'[u] = sys[u]
  BY <1>1 DEF IInv, Shape
<1>5. sys'[t].call = "openat" /\ sys'[t].seen = took /\ sys'[t].file = file /\ sys'[t].ret = 0
  BY <1>1 DEF IInv, Shape
<1>6. sys[t].call = "none"
  BY <1>2, SMTT(20) DEF NoCall
<1>7. OpensInv'
  <2>1. Seen' = (IF took THEN Seen \cup {t} ELSE Seen) /\ t \notin Seen
    BY <1>4, <1>5, <1>6 DEF Seen
  <2>2. DOMAIN inflight_open = Seen /\ \A u \in Seen : u # t /\ sys'[u] = sys[u]
    BY <1>3, <1>4, <2>1 DEF OpensInv, Seen
  <2> QED
    BY <1>1, <1>3, <1>5, <2>1, <2>2 DEF OpensInv, Exec!With
<1>8. ASSUME NEW u \in Threads, NEW x \in Fds
      PROVE  FdInv(u, x)'
  <2>1. x # 0
    BY SyscallsAssumption, Zenon DEF SyscallsAssumption
  <2>2. Opening(u, x)' <=> Opening(u, x)
    BY <1>4, <1>5, <1>6, <2>1 DEF Opening
  <2>3. Opening(u, x) => sys'[u].file = sys[u].file
    BY <1>4, <1>6 DEF Opening
  <2> QED
    BY <1>2, <1>3, <2>2, <2>3, FdKept, Zenon
<1> QED
  BY <1>2, <1>7, <1>8, Zenon DEF LibsInv


\* A descriptor that is not open has no entry of a thread that saw it closed.
LEMMA FreeFd ==
    ASSUME IInv, program = "libs", NEW u \in Threads, NEW fd \in Fds,
           fds[fd] = NoFile, <<u, fd>> \notin stale
    PROVE  <<fd, u>> \notin DOMAIN inflight_mmap /\ ~Opening(u, fd)
<1>1. <<fd, u>> \notin DOMAIN inflight_mmap
  BY DEF IInv, EntriesLive
<1>2. Opened(u, sys[u].file) # NoFile
  BY DEF Opened, NoFile
<1> QED
  BY <1>1, <1>2, Zenon DEF IInv, LibsInv, FdInv

LEMMA OpenKernelLibs ==
    ASSUME IInv, NEW t \in Threads, OpenKernel(t)
    PROVE  LibsInv'
<1>0. /\ program = "libs" /\ sys[t] \in Opens /\ sys[t].ret = 0
      /\ UNCHANGED <<program, inflight_open, inflight_mmap, inflight>>
  BY OpenKernelEffect, Zenon DEF IInv
<1>1. OpensInv /\ \A u \in Threads, x \in Fds : FdInv(u, x)
  BY <1>0, Zenon DEF IInv, LibsInv
<1>2. 0 \notin Fds /\ -1 \notin Fds
  <2>1. Fds \subseteq Nat \ {0}
    BY SyscallsAssumption, Zenon DEF SyscallsAssumption
  <2> QED
    BY <2>1, SMTT(20)
<1>3. ASSUME NEW r, sys' = [sys EXCEPT ![t].ret = r]
      PROVE  /\ \A u \in Threads : u # t => sys'[u] = sys[u]
             /\ sys'[t].ret = r /\ sys'[t].call = "openat"
             /\ sys'[t].seen = sys[t].seen /\ sys'[t].file = sys[t].file
             /\ OpensInv'
  <2>1. \A u \in Threads : u # t => sys'[u] = sys[u]
    BY <1>3 DEF IInv, Shape
  <2>2. /\ sys'[t].ret = r /\ sys'[t].call = "openat" /\ sys[t].call = "openat"
        /\ sys'[t].seen = sys[t].seen /\ sys'[t].file = sys[t].file
    BY <1>0, <1>3 DEF IInv, Shape, Opens
  <2>3. Seen' = Seen
    BY <2>1, <2>2 DEF Seen
  <2>4. \A u \in Seen : sys'[u].file = sys[u].file
    BY <2>1, <2>2 DEF Seen
  <2> QED
    BY <1>0, <1>1, <2>1, <2>2, <2>3, <2>4, Zenon DEF OpensInv
<1>4. CASE sys' = [sys EXCEPT ![t].ret = -1] /\ UNCHANGED <<fds, stale>>
  <2>1. ASSUME NEW u \in Threads, NEW x \in Fds
        PROVE  FdInv(u, x)'
    <3>1. CASE u = t
      <4>1. ~Opening(u, x) /\ ~Opening(u, x)'
        BY <1>0, <1>2, <1>3, <1>4, <3>1, Zenon DEF Opening
      <4> QED
        BY <1>0, <1>1, <1>4, <4>1, FdKept, Zenon
    <3>2. CASE u # t
      <4>1. sys'[u] = sys[u]
        BY <1>3, <1>4, <3>2, Zenon
      <4>2. Opening(u, x)' <=> Opening(u, x)
        BY <4>1, Zenon DEF Opening
      <4> QED
        BY <1>0, <1>1, <1>4, <4>1, <4>2, FdKept, Zenon
    <3> QED
      BY <3>1, <3>2
  <2> QED
    BY <1>0, <1>3, <1>4, <2>1, Zenon DEF LibsInv
<1>5. ASSUME NEW fd \in Fds, fds[fd] = NoFile,
             fds' = [fds EXCEPT ![fd] = [kind |-> "file", file |-> sys[t].file, by |-> t,
                                         seen |-> sys[t].seen, reports |-> 0]],
             stale' = IF sys[t].seen THEN stale \ {<<t, fd>>} ELSE stale,
             sys' = [sys EXCEPT ![t].ret = fd]
      PROVE  LibsInv'
  <2>1. \A x \in Fds : x # fd => fds'[x] = fds[x]
    BY <1>5 DEF IInv, Shape
  <2>2. fds'[fd] = [kind |-> "file", file |-> sys[t].file, by |-> t,
                    seen |-> sys[t].seen, reports |-> 0]
    BY <1>5 DEF IInv, Shape
  <2>3. \A u, x : u # t \/ x # fd \/ ~sys[t].seen => (<<u, x>> \in stale <=> <<u, x>> \in stale')
    BY <1>5
  <2>4. ASSUME NEW u \in Threads, NEW x \in Fds, x # fd
        PROVE  FdInv(u, x)'
    <3>1. Opening(u, x)' <=> Opening(u, x)
      <4>1. CASE u = t
        BY <1>0, <1>2, <1>3, <1>5, <2>4, <4>1, Zenon DEF Opening
      <4>2. CASE u # t
        BY <1>3, <1>5, <4>2, Zenon DEF Opening
      <4> QED
        BY <4>1, <4>2
    <3>2. sys'[u].file = sys[u].file
      BY <1>3, <1>5, Zenon
    <3> QED
      BY <1>0, <1>1, <2>1, <2>3, <2>4, <3>1, <3>2, FdKept, Zenon
  <2>5. ASSUME NEW u \in Threads, u # t
        PROVE  FdInv(u, fd)'
    <3>1. SUFFICES ASSUME <<u, fd>> \notin stale' PROVE FdInv(u, fd)'
      BY Zenon DEF FdInv
    <3>2. <<u, fd>> \notin stale
      BY <2>3, <2>5, <3>1, Zenon
    <3>3. <<fd, u>> \notin DOMAIN inflight_mmap /\ ~Opening(u, fd)
      BY <1>0, <1>5, <3>2, FreeFd, Zenon
    <3>4. ~Opening(u, fd)'
      BY <1>3, <1>5, <2>5, <3>3, Zenon DEF Opening
    <3>5. fds'[fd].by # u
      BY <2>2, <2>5, SMTT(20)
    <3> QED
      BY <1>0, <3>3, <3>4, <3>5, Zenon DEF FdInv
  <2>6. FdInv(t, fd)'
    <3>1. CASE sys[t].seen
      <4>1. Opening(t, fd)'
        BY <1>3, <1>5, <3>1, Zenon DEF Opening
      <4>2. sys[t].seen = TRUE
        BY <1>0, <3>1 DEF Opens
      <4>3. fds'[fd] = Opened(t, sys'[t].file)
        BY <1>3, <1>5, <2>2, <4>2, Zenon DEF Opened
      <4> QED
        BY <4>1, <4>3, Zenon DEF FdInv, Opened
    <3>2. CASE ~sys[t].seen
      <4>1. SUFFICES ASSUME <<t, fd>> \notin stale' PROVE FdInv(t, fd)'
        BY Zenon DEF FdInv
      <4>2. <<t, fd>> \notin stale
        BY <2>3, <3>2, <4>1, Zenon
      <4>3. <<fd, t>> \notin DOMAIN inflight_mmap
        BY <1>0, <1>5, <4>2, FreeFd, Zenon
      <4>4. ~Opening(t, fd)'
        BY <1>3, <1>5, <3>2, Zenon DEF Opening
      <4>5. ~fds'[fd].seen
        BY <2>2, <3>2, SMTT(20)
      <4> QED
        BY <1>0, <4>3, <4>4, <4>5, Zenon DEF FdInv
    <3> QED
      BY <3>1, <3>2
  <2>7. \A u \in Threads, x \in Fds : FdInv(u, x)'
    BY <2>4, <2>5, <2>6, Zenon
  <2> QED
    BY <1>0, <1>3, <1>5, <2>7, Zenon DEF LibsInv
<1> QED
  BY <1>4, <1>5, OpenKernelEffect, Zenon DEF IInv


LEMMA OpenExitLibs ==
    ASSUME IInv, NEW t \in Threads, OpenExit(t)
    PROVE  LibsInv'
<1>r. PICK r : r = sys[t].ret
  BY Zenon
<1>0. /\ program = "libs" /\ sys[t] \in Opens /\ r # 0
      /\ UNCHANGED <<program, fds, stale, inflight>>
      /\ sys' = [sys EXCEPT ![t] = NoCall]
      /\ inflight_open' = Exec!Without(inflight_open, t)
      /\ IF sys[t].seen /\ r # -1
         THEN inflight_mmap' \in Exec!LruUpdates(inflight_mmap, <<r, t>>, sys[t].file, MMAP_ENTRIES)
         ELSE UNCHANGED inflight_mmap
  BY <1>r, OpenExitEffect, Zenon DEF IInv
<1>1. OpensInv /\ \A u \in Threads, x \in Fds : FdInv(u, x)
  BY <1>0, Zenon DEF IInv, LibsInv
<1>2. \A u \in Threads : u # t => sys'[u] = sys[u]
  BY <1>0 DEF IInv, Shape
<1>3. sys'[t].call = "none" /\ sys[t].call = "openat" /\ sys[t].seen \in BOOLEAN
  BY <1>0 DEF IInv, Shape, NoCall, Opens
<1>4. OpensInv'
  <2>1. Seen' = Seen \ {t}
    BY <1>2, <1>3 DEF Seen
  <2>2. \A u \in Seen : u # t => sys'[u] = sys[u]
    BY <1>2 DEF Seen
  <2>3. inflight_open' = [u \in DOMAIN inflight_open \ {t} |-> inflight_open[u]]
    BY <1>0, Zenon DEF Exec!Without, Exec!Restrict
  <2> QED
    BY <1>1, <2>1, <2>2, <2>3 DEF OpensInv
<1>5. -1 \notin Fds
  <2>1. Fds \subseteq Nat
    BY SyscallsAssumption, Zenon DEF SyscallsAssumption
  <2> QED
    BY <2>1, SMTT(20)
<1>6. \A x \in Fds : ~Opening(t, x)'
  BY <1>3, Zenon DEF Opening
<1>7. \A u \in Threads, x \in Fds : u # t => (Opening(u, x)' <=> Opening(u, x)) /\ sys'[u].file = sys[u].file
  BY <1>2, Zenon DEF Opening
<1>8. ASSUME NEW u \in Threads, NEW x \in Fds, ~(u = t /\ x = r /\ sys[t].seen)
      PROVE  FdInv(u, x)'
  <2>1. (Opening(u, x)' <=> Opening(u, x)) /\ (Opening(u, x) => sys'[u].file = sys[u].file)
    <3>1. CASE u = t
      BY <1>r, <1>6, <1>8, <3>1, Zenon DEF Opening
    <3>2. CASE u # t
      BY <1>7, <3>2, Zenon
    <3> QED
      BY <3>1, <3>2
  <2>2. CASE UNCHANGED inflight_mmap
    BY <1>0, <1>1, <2>1, <2>2, FdKept, Zenon
  <2>3. CASE /\ sys[t].seen /\ r # -1
             /\ inflight_mmap' \in Exec!LruUpdates(inflight_mmap, <<r, t>>, sys[t].file, MMAP_ENTRIES)
    <3>1. r \in Fds
      BY <1>r, <1>0, <2>3 DEF Opens
    <3>2. <<x, u>> # <<r, t>>
      BY <1>8, <2>3
    <3>3. /\ DOMAIN inflight_mmap' \subseteq DOMAIN inflight_mmap \cup {<<r, t>>}
          /\ \A k \in DOMAIN inflight_mmap' : k # <<r, t>> => inflight_mmap'[k] = inflight_mmap[k]
          /\ Exec!HasRoom(inflight_mmap, <<r, t>>, MMAP_ENTRIES) =>
               DOMAIN inflight_mmap' = DOMAIN inflight_mmap \cup {<<r, t>>}
      BY <2>3, Replaced, Zenon
    <3>4. Roomy => Exec!HasRoom(inflight_mmap, <<r, t>>, MMAP_ENTRIES)
      BY <3>1, RoomForAll DEF IInv, Shape
    <3>5. <<x, u>> \in DOMAIN inflight_mmap' =>
            <<x, u>> \in DOMAIN inflight_mmap /\ inflight_mmap'[<<x, u>>] = inflight_mmap[<<x, u>>]
      BY <3>2, <3>3, Zenon
    <3>6. Roomy /\ <<x, u>> \in DOMAIN inflight_mmap => <<x, u>> \in DOMAIN inflight_mmap'
      BY <3>3, <3>4, Zenon
    <3> QED
      BY <1>0, <1>1, <2>1, <3>5, <3>6, FdKept, Zenon
  <2> QED
    BY <1>0, <2>2, <2>3, Zenon
<1>9. ASSUME r \in Fds, sys[t].seen
      PROVE  FdInv(t, r)'
  <2>1. SUFFICES ASSUME <<t, r>> \notin stale PROVE FdInv(t, r)'
    BY <1>0, Zenon DEF FdInv
  <2>2. Opening(t, r)
    BY <1>r, <1>3, <1>9, Zenon DEF Opening
  <2>3. fds[r] = Opened(t, sys[t].file)
    BY <1>1, <1>9, <2>1, <2>2, Zenon DEF FdInv
  <2>4. <<r, t>> \in DOMAIN inflight_mmap' /\ inflight_mmap'[<<r, t>>] = sys[t].file
    BY <1>0, <1>5, <1>9, Replaced, Zenon
  <2>5. ~Opening(t, r)'
    <3> SUFFICES sys'[t].call # "openat"
      BY Zenon DEF Opening
    <3> QED
      BY <1>3
  <2>6. fds'[r] = Opened(t, inflight_mmap'[<<r, t>>])
    BY <1>0, <2>3, <2>4, Zenon
  <2> QED
    BY <2>4, <2>5, <2>6, Zenon DEF FdInv, Opened
<1> QED
  BY <1>0, <1>4, <1>8, <1>9, Zenon DEF LibsInv


LEMMA MmapLibs ==
    ASSUME IInv, NEW t \in Threads, NEW fd \in Fds, NEW room \in BOOLEAN, Mmap(t, fd, room)
    PROVE  LibsInv'
<1>0. /\ program = "libs" /\ sys[t] = NoCall /\ fds[fd] \in LibFiles
      /\ UNCHANGED <<program, sys, stale, inflight, inflight_open>>
      /\ inflight_mmap' = IF Found(t, fd, room) THEN Exec!Without(inflight_mmap, <<fd, t>>) ELSE inflight_mmap
      /\ Found(t, fd, room) /\ Clean(t, fd) => fds[fd] = Opened(t, inflight_mmap[<<fd, t>>])
      /\ fds' = IF Found(t, fd, room) /\ Clean(t, fd)
                THEN [fds EXCEPT ![fd] = [fds[fd] EXCEPT !.reports = 1]] ELSE fds
  BY MmapEffect, ZenonT(60) DEF IInv
<1>1. OpensInv /\ \A u \in Threads, x \in Fds : FdInv(u, x)
  BY <1>0, Zenon DEF IInv, LibsInv
<1>2. OpensInv'
  BY <1>0, <1>1, Zenon DEF OpensInv, Seen
<1>3. \A u \in Threads, x \in Fds : Opening(u, x)' <=> Opening(u, x)
  BY <1>0, Zenon DEF Opening
<1>4. \A u \in Threads, x \in Fds : <<x, u>> # <<fd, t>> =>
        /\ <<x, u>> \in DOMAIN inflight_mmap' <=> <<x, u>> \in DOMAIN inflight_mmap
        /\ <<x, u>> \in DOMAIN inflight_mmap' => inflight_mmap'[<<x, u>>] = inflight_mmap[<<x, u>>]
  BY <1>0 DEF Exec!Without, Exec!Restrict
<1>5. ASSUME NEW u \in Threads, NEW x \in Fds, u # t \/ x # fd, fds'[x] = fds[x]
      PROVE  FdInv(u, x)'
  <2>1. <<x, u>> # <<fd, t>>
    BY <1>5
  <2> QED
    BY <1>0, <1>1, <1>3, <1>4, <1>5, <2>1, FdKept, Zenon
<1>6. CASE ~(Found(t, fd, room) /\ Clean(t, fd))
  <2>1. UNCHANGED fds
    BY <1>0, <1>6, Zenon
  <2>2. FdInv(t, fd)'
    <3>1. CASE ~Clean(t, fd)
      BY <1>0, <3>1, Zenon DEF FdInv, Clean
    <3>2. CASE ~Found(t, fd, room)
      <4>1. UNCHANGED inflight_mmap
        BY <1>0, <3>2, Zenon
      <4> QED
        BY <1>0, <1>1, <1>3, <2>1, <4>1, FdKept, Zenon
    <3> QED
      BY <1>6, <3>1, <3>2
  <2> QED
    BY <1>0, <1>2, <1>5, <2>1, <2>2, Zenon DEF LibsInv
<1>7. CASE Found(t, fd, room) /\ Clean(t, fd)
  <2>1. /\ \A x \in Fds : x # fd => fds'[x] = fds[x]
        /\ fds'[fd] = [fds[fd] EXCEPT !.reports = 1]
    BY <1>0, <1>7 DEF IInv, Shape
  <2>2. fds[fd].by = t /\ fds'[fd].by = t /\ fds'[fd].reports = 1
    BY <1>0, <1>7, <2>1, SMTT(20) DEF Opened
  <2>3. ASSUME NEW u \in Threads, u # t
        PROVE  FdInv(u, fd)'
    <3>1. SUFFICES ASSUME <<u, fd>> \notin stale PROVE FdInv(u, fd)'
      BY <1>0, Zenon DEF FdInv
    <3>2. \A file : fds[fd] # Opened(u, file)
      BY <2>2, <2>3, SMTT(20) DEF Opened
    <3>3. ~Opening(u, fd) /\ <<fd, u>> \notin DOMAIN inflight_mmap
      BY <1>1, <3>1, <3>2, Zenon DEF FdInv
    <3>4. <<fd, u>> # <<fd, t>>
      BY <2>3
    <3> QED
      BY <1>3, <1>4, <2>2, <2>3, <3>3, <3>4, Zenon DEF FdInv
  <2>4. FdInv(t, fd)'
    <3>1. <<fd, t>> \notin DOMAIN inflight_mmap'
      BY <1>0, <1>7 DEF Exec!Without, Exec!Restrict
    <3>2. ~Opening(t, fd)
      BY <1>0, SMTT(20) DEF Opening, NoCall
    <3> QED
      BY <1>3, <2>2, <3>1, <3>2, Zenon DEF FdInv
  <2> QED
    BY <1>0, <1>2, <1>5, <2>1, <2>3, <2>4, Zenon DEF LibsInv
<1> QED
  BY <1>6, <1>7

\* LibsReported holds after the mmap it speaks of.
LEMMA MmapReported ==
    ASSUME IInv, NEW t \in Threads, NEW fd \in Fds, NEW room \in BOOLEAN, Mmap(t, fd, room)
    PROVE  /\ last'.clean => /\ \A e \in Range(dynlib_events') : e.filename = last'.file.file
                             /\ last'.file.reports <= 1
           /\ last'.clean /\ last'.due /\ Roomy => last'.file.reports = 1
<1>0. /\ program = "libs" /\ sys[t] = NoCall /\ fds[fd] \in LibFiles
      /\ Found(t, fd, room) /\ Clean(t, fd) => fds[fd] = Opened(t, inflight_mmap[<<fd, t>>])
      /\ fds' = IF Found(t, fd, room) /\ Clean(t, fd)
                THEN [fds EXCEPT ![fd] = [fds[fd] EXCEPT !.reports = 1]] ELSE fds
  BY MmapEffect, ZenonT(60) DEF IInv
<1>1. /\ dynlib_events' = IF Found(t, fd, room)
           THEN <<[fd |-> fd, pid_tgid |-> t, filename |-> inflight_mmap[<<fd, t>>]]>> ELSE << >>
      /\ last' = [file |-> fds'[fd], clean |-> Clean(t, fd),
                  due |-> room /\ Clean(t, fd) /\ fds[fd].seen /\ fds[fd].by = t]
  BY MmapEffect, ZenonT(60) DEF IInv
<1>2. SUFFICES ASSUME Clean(t, fd)
               PROVE  /\ \A e \in Range(dynlib_events') : e.filename = fds'[fd].file
                      /\ fds'[fd].reports <= 1
                      /\ room /\ fds[fd].seen /\ fds[fd].by = t /\ Roomy => fds'[fd].reports = 1
  BY <1>1
<1>3. CASE Found(t, fd, room)
  <2>1. fds'[fd] = [Opened(t, inflight_mmap[<<fd, t>>]) EXCEPT !.reports = 1]
    BY <1>0, <1>2, <1>3 DEF IInv, Shape
  <2>2. fds'[fd].file = inflight_mmap[<<fd, t>>] /\ fds'[fd].reports = 1
    BY <2>1 DEF Opened
  <2>3. \A e \in Range(dynlib_events') : e.filename = inflight_mmap[<<fd, t>>]
    BY <1>1, <1>3, SMTT(20) DEF Range
  <2> QED
    BY <2>2, <2>3, SMTT(20)
<1>4. CASE ~Found(t, fd, room)
  <2>1. UNCHANGED fds /\ Range(dynlib_events') = {}
    BY <1>0, <1>1, <1>4, SMTT(20) DEF Range
  <2>2. fds[fd].reports \in 0 .. 1 /\ fds[fd] # NoFile
    BY <1>0, SMTT(20) DEF LibFiles, NoFile
  <2>3. ASSUME room, fds[fd].seen, fds[fd].by = t, Roomy
        PROVE  fds[fd].reports = 1
    <3>1. ~Opening(t, fd)
      BY <1>0, SMTT(20) DEF Opening, NoCall
    <3>2. <<fd, t>> \notin DOMAIN inflight_mmap
      BY <1>4, <2>3 DEF Found
    <3> QED
      BY <1>0, <1>2, <2>2, <2>3, <3>1, <3>2, Zenon DEF IInv, LibsInv, FdInv, Clean
  <2> QED
    BY <2>1, <2>2, <2>3, SMTT(20)
<1> QED
  BY <1>3, <1>4


\* A descriptor is released: no thread but the one that closed it knows.
LEMMA ReleasedLibs ==
    ASSUME IInv, program = "libs", NEW fd \in Fds,
           UNCHANGED <<program, sys, inflight_open>>,
           fds' = [fds EXCEPT ![fd] = NoFile],
           \A u \in Threads, x \in Fds : x # fd =>
               /\ <<u, x>> \in stale => <<u, x>> \in stale'
               /\ <<x, u>> \in DOMAIN inflight_mmap' <=> <<x, u>> \in DOMAIN inflight_mmap
               /\ <<x, u>> \in DOMAIN inflight_mmap' => inflight_mmap'[<<x, u>>] = inflight_mmap[<<x, u>>],
           \A u \in Threads :
               <<u, fd>> \in stale' \/ (sys[u] = NoCall /\ <<fd, u>> \notin DOMAIN inflight_mmap')
    PROVE  LibsInv'
<1>1. OpensInv /\ \A u \in Threads, x \in Fds : FdInv(u, x)
  BY Zenon DEF IInv, LibsInv
<1>2. OpensInv'
  BY <1>1, Zenon DEF OpensInv, Seen
<1>3. \A u \in Threads, x \in Fds : Opening(u, x)' <=> Opening(u, x)
  BY Zenon DEF Opening
<1>4. fds'[fd] = NoFile /\ \A x \in Fds : x # fd => fds'[x] = fds[x]
  BY DEF IInv, Shape
<1>5. ASSUME NEW u \in Threads, NEW x \in Fds, x # fd
      PROVE  FdInv(u, x)'
  BY <1>1, <1>3, <1>4, <1>5, FdKept, Zenon
<1>6. ASSUME NEW u \in Threads
      PROVE  FdInv(u, fd)'
  <2>1. CASE <<u, fd>> \in stale'
    BY <2>1, Zenon DEF FdInv
  <2>2. CASE sys[u] = NoCall /\ <<fd, u>> \notin DOMAIN inflight_mmap'
    <3>1. ~Opening(u, fd)
      BY <2>2, SMTT(20) DEF Opening, NoCall
    <3>2. NoFile' = NoFile
      BY Zenon DEF NoFile
    <3> QED
      BY <1>3, <1>4, <2>2, <3>1, <3>2, Zenon DEF FdInv
  <2> QED
    BY <2>1, <2>2
<1> QED
  BY <1>2, <1>5, <1>6, Zenon DEF LibsInv

LEMMA CloseLibs ==
    ASSUME IInv, NEW t \in Threads, NEW fd \in Fds, Close(t, fd)
    PROVE  LibsInv'
<1>1. /\ UNCHANGED <<program, sys, inflight_open>> /\ sys[t] = NoCall
      /\ inflight_mmap' = Exec!Without(inflight_mmap, <<fd, t>>)
      /\ fds' = [fds EXCEPT ![fd] = NoFile]
      /\ stale' = (stale \cup {<<u, fd>> : u \in Threads}) \ {<<t, fd>>}
  BY CloseEffect, Zenon
<1>2. SUFFICES ASSUME program = "libs" PROVE LibsInv'
  BY <1>1, Zenon DEF LibsInv
<1>3. inflight_mmap' = [k \in DOMAIN inflight_mmap \ {<<fd, t>>} |-> inflight_mmap[k]]
  BY <1>1, Zenon DEF Exec!Without, Exec!Restrict
<1>4. \A u \in Threads, x \in Fds : x # fd =>
        /\ <<u, x>> \in stale => <<u, x>> \in stale'
        /\ <<x, u>> \in DOMAIN inflight_mmap' <=> <<x, u>> \in DOMAIN inflight_mmap
        /\ <<x, u>> \in DOMAIN inflight_mmap' => inflight_mmap'[<<x, u>>] = inflight_mmap[<<x, u>>]
  BY <1>1, <1>3
<1>5. \A u \in Threads : u # t => <<u, fd>> \in stale'
  BY <1>1
<1>6. <<fd, t>> \notin DOMAIN inflight_mmap'
  BY <1>3
<1> QED
  BY <1>1, <1>2, <1>4, <1>5, <1>6, ReleasedLibs, Zenon

LEMMA ReleaseLibs ==
    ASSUME IInv, NEW fd \in Fds, Release(fd)
    PROVE  LibsInv'
<1>1. /\ UNCHANGED <<program, sys, inflight_open, inflight_mmap>>
      /\ fds' = [fds EXCEPT ![fd] = NoFile]
      /\ stale' = stale \cup {<<u, fd>> : u \in Threads}
  BY ReleaseEffect, Zenon
<1>2. SUFFICES ASSUME program = "libs" PROVE LibsInv'
  BY <1>1, Zenon DEF LibsInv
<1>3. \A u, x : <<u, x>> \in stale => <<u, x>> \in stale'
  BY <1>1
<1>4. \A u \in Threads : <<u, fd>> \in stale'
  BY <1>1
<1> QED
  BY <1>1, <1>2, <1>3, <1>4, ReleasedLibs, Zenon

\* A step that leaves the descriptors, their maps and the calls alone.
LEMMA SameLibs ==
    ASSUME IInv, UNCHANGED <<program, fds, stale, sys, inflight_open, inflight_mmap>>
    PROVE  LibsInv'
<1>1. \A u \in Threads, x \in Fds : Opening(u, x)' <=> Opening(u, x)
  BY Zenon DEF Opening
<1>2. OpensInv => OpensInv'
  BY Zenon DEF OpensInv, Seen
<1>3. ASSUME NEW u \in Threads, NEW x \in Fds, FdInv(u, x)
      PROVE  FdInv(u, x)'
  BY <1>1, <1>3, FdKept, Zenon
<1> QED
  BY <1>2, <1>3, Zenon DEF IInv, LibsInv


LEMMA NextIInv == ASSUME IInv, [Next]_vars PROVE IInv'
<1>0. program' = program
  BY ProgramKept
<1>1. ASSUME NEW t \in Threads, NEW file \in Files, OpenEnter(t, file) PROVE IInv'
  BY <1>1, OpenEnterShape, OpenEnterLibs, Zenon DEF IInv
<1>2. ASSUME NEW t \in Threads, OpenKernel(t) PROVE IInv'
  BY <1>2, OpenKernelShape, OpenKernelLibs, Zenon DEF IInv
<1>3. ASSUME NEW t \in Threads, OpenExit(t) PROVE IInv'
  BY <1>3, OpenExitShape, OpenExitLibs, Zenon DEF IInv
<1>4. ASSUME NEW t \in Threads, NEW fd \in Fds, NEW room \in BOOLEAN, Mmap(t, fd, room) PROVE IInv'
  BY <1>4, MmapShape, MmapLibs, Zenon DEF IInv
<1>5. ASSUME NEW t \in Threads, NEW fd \in Fds, Close(t, fd) PROVE IInv'
  BY <1>5, CloseShape, CloseLibs, Zenon DEF IInv
<1>6. ASSUME NEW fd \in Fds, Release(fd) PROVE IInv'
  BY <1>6, ReleaseShape, ReleaseLibs, Zenon DEF IInv
<1>7. ASSUME NEW t \in Threads, Socket(t) PROVE IInv'
  <2>1. PICK fd \in Fds :
          fds' = [fds EXCEPT ![fd] = [kind |-> "socket", by |-> t, flag |-> -1, sync |-> TRUE]]
    BY <1>7, SocketEffect, Zenon DEF IInv
  <2>2. program = "pg" /\ UNCHANGED <<program, sys, stale, inflight_mmap, inflight>>
    BY <1>7, SocketEffect, Zenon DEF IInv
  <2>3. [kind |-> "socket", by |-> t, flag |-> -1, sync |-> TRUE] \in Sockets
    BY SMTT(20) DEF Sockets
  <2> QED
    BY <1>0, <2>1, <2>2, <2>3, ConnectedShape, Zenon DEF IInv, LibsInv
<1>8. ASSUME NEW t \in Threads, NEW fd \in Fds, NEW buf, NEW mapped, NEW room,
             Send(t, fd, buf, mapped, room)
      PROVE  IInv'
  <2>1. PICK conn \in Sockets : fds' = [fds EXCEPT ![fd] = conn]
    BY <1>8, SendEffect, Zenon DEF IInv
  <2>2. /\ program = "pg" /\ UNCHANGED <<program, sys, stale, inflight_mmap>>
        /\ DOMAIN inflight' \subseteq DOMAIN inflight \cup {<<t, fd>>}
    BY <1>8, SendEffect, Zenon DEF IInv
  <2> QED
    BY <1>0, <2>1, <2>2, ConnectedShape, Zenon DEF IInv, LibsInv
<1>9. ASSUME NEW t \in Threads, NEW fd, NEW x, NEW y, NEW z,
             ReadEnter(t, fd, x) \/ ReadExit(t, x, y, z)
      PROVE  IInv'
  <2>1. program = "stdio" /\ sys' \in [Threads -> {NoCall} \cup CallsOf]
    BY <1>9, ReadCalls, Zenon
  <2>2. UNCHANGED <<fds, stale, inflight, inflight_open, inflight_mmap>>
    BY <1>9, OtherEffect, Zenon
  <2> QED
    BY <1>0, <2>1, <2>2, OthersShape, Zenon DEF IInv, LibsInv
<1>10. ASSUME NEW t, NEW fd, NEW x, NEW y, NEW z, NEW w,
              \/ Write(t, fd, x, y) \/ ExecProgram(x, y, z, w) \/ ExitProgram(x)
              \/ Report \/ Taken \/ UNCHANGED vars
       PROVE  IInv'
  <2>1. UNCHANGED <<fds, stale, inflight, inflight_open, inflight_mmap, sys>>
    BY <1>10, Zenon DEF Write, ExecProgram, ExitProgram, Report, Taken, vars, libVars, pgVars
  <2>2. sys' \in [Threads -> {NoCall} \cup CallsOf]
    BY <2>1, Zenon DEF IInv, Shape
  <2> QED
    BY <1>0, <2>1, <2>2, OthersShape, SameLibs, Zenon DEF IInv
<1>11. ASSUME NEW t \in Threads, ThreadStep(t) PROVE IInv'
  BY <1>1, <1>2, <1>3, <1>4, <1>5, <1>7, <1>8, <1>9, <1>10, <1>11, ZenonT(30) DEF ThreadStep
<1> QED
  BY <1>6, <1>10, <1>11, ZenonT(30) DEF Next

\* What an mmap was told is true, whatever has to make room.
LastInv ==
    program = "libs" /\ last # NoCall /\ last.clean =>
        /\ \A e \in Range(dynlib_events) : e.filename = last.file.file
        /\ last.file.reports <= 1
        /\ last.due /\ Roomy => last.file.reports = 1

LEMMA NextLast == ASSUME IInv, LastInv, [Next]_vars PROVE LastInv'
<1>0. program' = program
  BY ProgramKept
<1>1. SUFFICES ASSUME program = "libs" PROVE LastInv'
  BY <1>0, Zenon DEF LastInv
<1>2. ASSUME NEW t \in Threads, NEW fd \in Fds, NEW room \in BOOLEAN, Mmap(t, fd, room) PROVE LastInv'
  BY <1>2, MmapReported, ZenonT(30) DEF LastInv, Roomy
<1>3. ASSUME last' = NoCall PROVE LastInv'
  BY <1>3, Zenon DEF LastInv, NoCall
<1>4. ASSUME UNCHANGED <<last, dynlib_events>> PROVE LastInv'
  BY <1>0, <1>4, ZenonT(30) DEF LastInv, Roomy, NoCall, Range
<1>5. ASSUME NEW t \in Threads, NEW fd, NEW x, NEW y, NEW z
      PROVE  /\ OpenEnter(t, x) \/ OpenKernel(t) \/ OpenExit(t) \/ Close(t, fd) \/ Socket(t) => last' = NoCall
             /\ ~Send(t, fd, x, y, z) /\ ~ReadEnter(t, fd, x) /\ ~Write(t, fd, x, y)
  BY <1>1, Zenon DEF OpenEnter, OpenKernel, OpenExit, Close, Socket, Send, ReadEnter, Write
<1>6. ASSUME NEW t \in Threads, NEW x, NEW y, NEW z PROVE ~ReadExit(t, x, y, z)
  <2>1. sys[t].call # "read"
    BY <1>1, LibCalls, SMTT(20) DEF IInv, NoCall
  <2> QED
    BY <2>1, Zenon DEF ReadExit
<1>7. ASSUME NEW x, NEW y, NEW z, NEW w
      PROVE  /\ Release(x) \/ Taken => last' = NoCall
             /\ ExitProgram(x) \/ Report \/ UNCHANGED vars => UNCHANGED <<last, dynlib_events>>
             /\ ~ExecProgram(x, y, z, w)
  BY <1>1, Zenon DEF Release, Taken, ExitProgram, Report, ExecProgram, vars, libVars
<1>8. ASSUME NEW t \in Threads, ThreadStep(t) PROVE LastInv'
  BY <1>2, <1>3, <1>5, <1>6, <1>8, ZenonT(30) DEF ThreadStep
<1> QED
  BY <1>3, <1>4, <1>7, <1>8, ZenonT(30) DEF Next


-----------------------------------------------------------------------------
(* Programs that are started. *)

\* The event of the n-th exec, whatever the CPU's value held before.
LEMMA EventTrue ==
    ASSUME NEW old \in HeapValues, NEW pid \in Pids, NEW n \in Nat, n > 0,
           NEW raw \in 0 .. MAX_ARGS_LEN + 1, NEW readable \in BOOLEAN,
           NEW value, value = Exec!read_exec_args(Exec!Reset(old, pid, n), n, raw, readable),
           NEW event, event = [pid |-> value.pid, filename |-> value.filename,
                               args |-> IF value.args_len = 0 THEN 0 ELSE value.args,
                               args_truncated |-> value.args_truncated]
    PROVE  /\ value \in HeapValues
           /\ event \in ProcEvents
           /\ event.pid = pid /\ event.filename = n
           /\ IF readable /\ raw \in 1 .. MAX_ARGS_LEN THEN event.args = n /\ ~event.args_truncated
              ELSE event.args \in {0, n} /\ (event.args_truncated \/ event.args = 0)
<1>0. MAX_ARGS_LEN \in Nat /\ raw \in Nat
  <2>1. MAX_ARGS_LEN \in Nat
    BY SyscallsAssumption, Zenon DEF SyscallsAssumption
  <2> QED
    BY <2>1, SMTT(20)
<1>1. PICK reset : reset = Exec!Reset(old, pid, n)
  OBVIOUS
<1>2. /\ reset \in HeapValues
      /\ reset.pid = pid /\ reset.filename = n /\ reset.args_len = 0 /\ reset.args_truncated = FALSE
  BY <1>1 DEF Exec!Reset, HeapValues
<1>3. CASE raw = 0
  <2>1. value = reset
    BY <1>1, <1>3 DEF Exec!read_exec_args
  <2> QED
    BY <1>0, <1>2, <1>3, <2>1, SMTT(20) DEF HeapValues, ProcEvents
<1>4. CASE raw # 0
  <2>1. value = [reset EXCEPT
                   !.args_truncated = reset.args_truncated \/ raw > MAX_ARGS_LEN \/ ~readable,
                   !.args = IF readable THEN n ELSE 0,
                   !.args_len = IF readable
                                THEN IF raw > MAX_ARGS_LEN THEN MAX_ARGS_LEN ELSE raw
                                ELSE reset.args_len]
    BY <1>1, <1>2, <1>4 DEF Exec!read_exec_args, HeapValues
  <2>2. /\ value \in HeapValues /\ value.pid = pid /\ value.filename = n
        /\ value.args_truncated <=> raw > MAX_ARGS_LEN \/ ~readable
        /\ value.args = IF readable THEN n ELSE 0
        /\ value.args_len = IF readable
                            THEN IF raw > MAX_ARGS_LEN THEN MAX_ARGS_LEN ELSE raw ELSE 0
    BY <1>0, <1>2, <2>1 DEF HeapValues
  <2>3. /\ event \in ProcEvents /\ event.pid = pid /\ event.filename = n
        /\ event.args = IF value.args_len = 0 THEN 0 ELSE value.args
        /\ event.args_truncated = value.args_truncated
    BY <2>2 DEF HeapValues, ProcEvents
  <2> QED
    BY <1>0, <1>4, <2>2, <2>3, SMTT(20)
<1> QED
  BY <1>3, <1>4

\* What was said of earlier execs is true of a longer log.
LEMMA LogGrows ==
    ASSUME ExecsInv, NEW entry \in Execs, log' = Append(log, entry)
    PROVE  /\ log' \in Seq(Execs) /\ Len(log') = Len(log) + 1 /\ Len(log) \in Nat
           /\ log'[Len(log) + 1] = entry
           /\ \A n \in 1 .. Len(log) : log'[n] = log[n]
           /\ \A e \in ProcEvents : Submitted(e) => Submitted(e)'
           /\ \A r \in Reports : Told(r) => Told(r)'
<1>1. /\ log' \in Seq(Execs) /\ Len(log') = Len(log) + 1 /\ Len(log) \in Nat
      /\ log'[Len(log) + 1] = entry
      /\ \A n \in 1 .. Len(log) : log'[n] = log[n]
  BY SMTT(20) DEF ExecsInv, Execs
<1>2. ASSUME NEW e \in ProcEvents, Submitted(e) PROVE Submitted(e)'
  BY <1>1, <1>2, SMTT(20) DEF Submitted, ProcEvents
<1>3. ASSUME NEW r \in Reports, Told(r) PROVE Told(r)'
  BY <1>1, <1>3, SMTT(20) DEF Told, Reports
<1> QED
  BY <1>1, <1>2, <1>3


LEMMA ExecProgramStep ==
    ASSUME ExecsInv, NEW cpu \in Cpus, NEW pid \in Pids, NEW raw \in 0 .. MAX_ARGS_LEN + 1,
           NEW readable \in BOOLEAN, ExecProgram(cpu, pid, raw, readable)
    PROVE  ExecsInv'
<1>1. PICK n : n = Len(log) + 1
  OBVIOUS
<1>2. PICK value : value = Exec!read_exec_args(Exec!Reset(exec_heap[cpu], pid, n), n, raw, readable)
  OBVIOUS
<1>3. PICK event : event = [pid |-> value.pid, filename |-> value.filename,
                            args |-> IF value.args_len = 0 THEN 0 ELSE value.args,
                            args_truncated |-> value.args_truncated]
  OBVIOUS
<1>4. /\ exec_heap' = [exec_heap EXCEPT ![cpu] = value]
      /\ proc_events' = (IF Len(proc_events) < RING THEN Append(proc_events, event) ELSE proc_events)
      /\ reported' = reported
      /\ cmdline' = [cmdline EXCEPT ![pid] = n]
  BY <1>1, <1>2, <1>3, Zenon DEF ExecProgram, Exec!sched_process_exec
<1>5. PICK entry : entry = [pid |-> pid, complete |-> readable /\ raw \in 1 .. MAX_ARGS_LEN]
  OBVIOUS
<1>6. /\ log' = Append(log, entry) /\ entry \in Execs
      /\ entry.pid = pid /\ (entry.complete <=> readable /\ raw \in 1 .. MAX_ARGS_LEN)
  BY <1>5 DEF ExecProgram, Execs
<1>7. n \in Nat /\ n > 0 /\ exec_heap[cpu] \in HeapValues
  BY <1>1, SMTT(20) DEF ExecsInv
<1>8. /\ value \in HeapValues /\ event \in ProcEvents /\ event.pid = pid /\ event.filename = n
      /\ IF readable /\ raw \in 1 .. MAX_ARGS_LEN THEN event.args = n /\ ~event.args_truncated
         ELSE event.args \in {0, n} /\ (event.args_truncated \/ event.args = 0)
  <2>1. PICK old : old = exec_heap[cpu]
    OBVIOUS
  <2>2. /\ old \in HeapValues /\ n \in Nat /\ n > 0
        /\ value = Exec!read_exec_args(Exec!Reset(old, pid, n), n, raw, readable)
    BY <1>2, <1>7, <2>1, Zenon
  <2> QED
    BY <1>3, <2>2, EventTrue, SMTT(20)
<1>9. /\ log' \in Seq(Execs) /\ Len(log') = n /\ Len(log) \in Nat /\ log'[n] = entry
      /\ \A i \in 1 .. Len(log) : log'[i] = log[i]
      /\ \A e \in ProcEvents : Submitted(e) => Submitted(e)'
      /\ \A r \in Reports : Told(r) => Told(r)'
  <2>1. /\ log' \in Seq(Execs) /\ Len(log') = Len(log) + 1 /\ Len(log) \in Nat
        /\ log'[Len(log) + 1] = entry
        /\ \A i \in 1 .. Len(log) : log'[i] = log[i]
        /\ \A e \in ProcEvents : Submitted(e) => Submitted(e)'
        /\ \A r \in Reports : Told(r) => Told(r)'
    BY <1>6, LogGrows, Zenon
  <2> QED
    BY <1>1, <2>1, Zenon
<1>10. Submitted(event)'
  BY <1>6, <1>7, <1>8, <1>9, SMTT(20) DEF Submitted
<1>11. exec_heap' \in [Cpus -> HeapValues]
  BY <1>4, <1>8 DEF ExecsInv
<1>12. cmdline' \in [Pids -> 0 .. Len(log')]
  BY <1>1, <1>4, <1>7, <1>9, SMTT(20) DEF ExecsInv
<1>13. \A i \in 1 .. Len(log') : cmdline'[log'[i].pid] = 0 \/ i <= cmdline'[log'[i].pid]
  <2> SUFFICES ASSUME NEW i \in 1 .. Len(log')
               PROVE  cmdline'[log'[i].pid] = 0 \/ i <= cmdline'[log'[i].pid]
    OBVIOUS
  <2>1. cmdline'[pid] = n /\ \A q \in Pids : q # pid => cmdline'[q] = cmdline[q]
    BY <1>4 DEF ExecsInv
  <2>2. CASE log'[i].pid = pid
    BY <1>9, <2>1, <2>2, SMTT(20)
  <2>3. CASE log'[i].pid # pid
    <3>1. i # n
      BY <1>6, <1>9, <2>3
    <3>2. i \in 1 .. Len(log) /\ log'[i] = log[i]
      BY <1>1, <1>9, <3>1, SMTT(20)
    <3>3. log[i].pid \in Pids
      <4>1. log \in Seq(Execs)
        BY Zenon DEF ExecsInv
      <4>2. log[i] \in Execs
        BY <3>2, <4>1, SMTT(20)
      <4> QED
        BY <4>2 DEF Execs
    <3>4. cmdline[log[i].pid] = 0 \/ i <= cmdline[log[i].pid]
      BY <3>2, Zenon DEF ExecsInv
    <3> QED
      BY <2>1, <2>3, <3>2, <3>3, <3>4, Zenon
  <2> QED
    BY <2>2, <2>3
<1>14. \A q \in Pids : cmdline'[q] # 0 => log'[cmdline'[q]].pid = q
  <2> SUFFICES ASSUME NEW q \in Pids, cmdline'[q] # 0 PROVE log'[cmdline'[q]].pid = q
    OBVIOUS
  <2>1. CASE q = pid
    BY <1>4, <1>6, <1>9, <2>1 DEF ExecsInv
  <2>2. CASE q # pid
    <3>1. cmdline'[q] = cmdline[q] /\ cmdline[q] \in 1 .. Len(log)
      BY <1>4, <2>2, SMTT(20) DEF ExecsInv
    <3> QED
      BY <1>9, <3>1 DEF ExecsInv
  <2> QED
    BY <2>1, <2>2
<1>15. PICK evs, told : evs = proc_events' /\ told = reported'
  OBVIOUS
<1>16. evs \in Seq(ProcEvents) /\ \A j \in 1 .. Len(evs) : Submitted(evs[j])'
  <2>1. PICK old : old = proc_events
    OBVIOUS
  <2>2. old \in Seq(ProcEvents) /\ \A j \in 1 .. Len(old) : Submitted(old[j])
    BY <2>1, Zenon DEF ExecsInv
  <2>3. \A j \in 1 .. Len(old) : old[j] \in ProcEvents
    BY <2>2, SMTT(20)
  <2>4. \A j \in 1 .. Len(old) : Submitted(old[j])'
    BY <1>9, <2>2, <2>3, Zenon
  <2>5. CASE evs = old
    BY <2>2, <2>4, <2>5, Zenon
  <2>6. CASE evs = Append(old, event)
    <3>1. /\ evs \in Seq(ProcEvents)
          /\ \A j \in 1 .. Len(evs) : (j \in 1 .. Len(old) /\ evs[j] = old[j]) \/ evs[j] = event
      BY <1>8, <2>2, <2>6, SMTT(20)
    <3>2. ASSUME NEW j \in 1 .. Len(evs) PROVE Submitted(evs[j])'
      <4>1. CASE j \in 1 .. Len(old) /\ evs[j] = old[j]
        BY <2>4, <4>1, Zenon
      <4>2. CASE evs[j] = event
        BY <1>10, <4>2, Zenon
      <4> QED
        BY <3>1, <4>1, <4>2
    <3> QED
      BY <3>1, <3>2
  <2> QED
    BY <1>4, <1>15, <2>1, <2>5, <2>6
<1>17. told \in Seq(Reports) /\ \A j \in 1 .. Len(told) : Told(told[j])'
  <2>1. \A j \in 1 .. Len(reported) : reported[j] \in Reports /\ Told(reported[j])
    BY SMTT(20) DEF ExecsInv
  <2>2. told = reported /\ reported \in Seq(Reports)
    BY <1>4, <1>15 DEF ExecsInv
  <2>3. \A j \in 1 .. Len(told) : told[j] \in Reports /\ Told(told[j])
    BY <2>1, <2>2
  <2> QED
    BY <1>9, <2>2, <2>3, Zenon
<1> QED
  BY <1>9, <1>11, <1>12, <1>13, <1>14, <1>15, <1>16, <1>17, ZenonT(30) DEF ExecsInv, Submitted, Told


LEMMA ExitProgramStep ==
    ASSUME ExecsInv, NEW pid \in Pids, ExitProgram(pid)
    PROVE  ExecsInv'
<1>1. /\ cmdline' = [cmdline EXCEPT ![pid] = 0]
      /\ UNCHANGED <<exec_heap, proc_events, reported, log>>
  BY Zenon DEF ExitProgram
<1>2. /\ log \in Seq(Execs) /\ Len(log) \in Nat
      /\ \A n \in 1 .. Len(log) : log[n].pid \in Pids
  <2>1. log \in Seq(Execs)
    BY Zenon DEF ExecsInv
  <2>2. Len(log) \in Nat /\ \A n \in 1 .. Len(log) : log[n] \in Execs
    BY <2>1, SMTT(20)
  <2> QED
    BY <2>1, <2>2 DEF Execs
<1>3. /\ cmdline' \in [Pids -> 0 .. Len(log)] /\ cmdline'[pid] = 0
      /\ \A q \in Pids : q # pid => cmdline'[q] = cmdline[q]
  BY <1>1, <1>2, SMTT(20) DEF ExecsInv
<1>4. \A n \in 1 .. Len(log) : cmdline'[log[n].pid] = 0 \/ n <= cmdline'[log[n].pid]
  BY <1>2, <1>3, Zenon DEF ExecsInv
<1>5. \A q \in Pids : cmdline'[q] # 0 => log[cmdline'[q]].pid = q
  BY <1>3, Zenon DEF ExecsInv
<1>6. /\ \A j \in 1 .. Len(proc_events) : Submitted(proc_events[j])'
      /\ \A j \in 1 .. Len(reported) : Told(reported[j])'
  BY <1>1, Zenon DEF ExecsInv, Submitted, Told
<1> QED
  BY <1>1, <1>3, <1>4, <1>5, <1>6, ZenonT(30) DEF ExecsInv, Submitted, Told

\* What the reader makes of an event, whenever it reads it.
LEMMA ReportTrue ==
    ASSUME ExecsInv, NEW event \in ProcEvents, Submitted(event),
           NEW shown, shown = cmdline[event.pid],
           NEW args, args = IF (event.args_truncated \/ event.args = 0) /\ shown # 0
                            THEN shown ELSE event.args,
           NEW r, r = [pid |-> event.pid, filename |-> event.filename,
                       args |-> IF args = 0 THEN event.filename ELSE args]
    PROVE  r \in Reports /\ Told(r)
<1>1. PICK f : f = event.filename
  OBVIOUS
<1>2. /\ event.pid \in Pids /\ event.args \in Nat /\ f \in Nat
  BY <1>1 DEF ProcEvents
<1>3. /\ f \in 1 .. Len(log) /\ log[f].pid = event.pid
      /\ IF log[f].complete THEN event.args = f /\ ~event.args_truncated
         ELSE event.args \in {0, f} /\ (event.args_truncated \/ event.args = 0)
  BY <1>1, Zenon DEF Submitted
<1>4. /\ Len(log) \in Nat /\ shown \in 0 .. Len(log)
  BY <1>2, SMTT(20) DEF ExecsInv
<1>5. /\ shown = 0 \/ f <= shown
      /\ shown # 0 => log[shown].pid = event.pid
  <2>1. cmdline[log[f].pid] = 0 \/ f <= cmdline[log[f].pid]
    BY <1>3, Zenon DEF ExecsInv
  <2>2. shown # 0 => log[shown].pid = event.pid
    BY <1>2, Zenon DEF ExecsInv
  <2> QED
    BY <1>3, <2>1, <2>2, Zenon
<1>6. PICK told : told = IF args = 0 THEN f ELSE args
  OBVIOUS
<1>7. r.pid = event.pid /\ r.filename = f /\ r.args = told
  BY <1>1, <1>6
<1>8. told \in Nat
  BY <1>2, <1>4, <1>6, SMTT(20)
<1>9. r \in Reports
  BY <1>1, <1>2, <1>6, <1>8 DEF Reports
<1>10. IF log[f].complete THEN told = f ELSE told \in f .. Len(log) /\ log[told].pid = event.pid
  <2>1. CASE log[f].complete
    BY <1>2, <1>3, <1>6, <2>1, SMTT(20)
  <2>2. CASE ~log[f].complete
    <3>1. told = f \/ (shown # 0 /\ told = shown)
      BY <1>2, <1>3, <1>4, <1>6, <2>2
    <3> QED
      BY <1>2, <1>3, <1>4, <1>5, <2>2, <3>1, SMTT(20)
  <2> QED
    BY <2>1, <2>2
<1> QED
  BY <1>3, <1>7, <1>9, <1>10, Zenon DEF Told

LEMMA ReportStep ==
    ASSUME ExecsInv, Report
    PROVE  ExecsInv'
<1>1. PICK old, told : old = proc_events /\ told = reported
  OBVIOUS
<1>2. PICK event : event = Head(old)
  OBVIOUS
<1>3. PICK shown : shown = cmdline[event.pid]
  OBVIOUS
<1>4. PICK args : args = IF (event.args_truncated \/ event.args = 0) /\ shown # 0
                         THEN shown ELSE event.args
  OBVIOUS
<1>5. PICK r : r = [pid |-> event.pid, filename |-> event.filename,
                    args |-> IF args = 0 THEN event.filename ELSE args]
  OBVIOUS
<1>6. /\ old # << >> /\ proc_events' = Tail(old) /\ reported' = Append(told, r)
      /\ UNCHANGED <<exec_heap, cmdline, log>>
  BY <1>1, <1>2, <1>3, <1>4, <1>5, Zenon DEF Report, Exec!ReadExec
<1>7. /\ old \in Seq(ProcEvents) /\ \A j \in 1 .. Len(old) : Submitted(old[j])
      /\ told \in Seq(Reports) /\ \A j \in 1 .. Len(told) : Told(told[j])
  BY <1>1, Zenon DEF ExecsInv
<1>8. event \in ProcEvents /\ 1 \in 1 .. Len(old) /\ event = old[1]
  BY <1>2, <1>6, <1>7, SMTT(20)
<1>9. r \in Reports /\ Told(r)
  <2>1. Submitted(event)
    BY <1>7, <1>8, Zenon
  <2> QED
    BY <1>3, <1>4, <1>5, <1>8, <2>1, ReportTrue
<1>10. PICK evs, all : evs = Tail(old) /\ all = Append(told, r)
  OBVIOUS
<1>11. evs \in Seq(ProcEvents) /\ \A j \in 1 .. Len(evs) : Submitted(evs[j])
  <2>1. /\ evs \in Seq(ProcEvents)
        /\ \A j \in 1 .. Len(evs) : j + 1 \in 1 .. Len(old) /\ evs[j] = old[j + 1]
    BY <1>6, <1>7, <1>10, SMTT(20)
  <2> QED
    BY <1>7, <2>1, Zenon
<1>12. all \in Seq(Reports) /\ \A j \in 1 .. Len(all) : Told(all[j])
  <2>1. /\ all \in Seq(Reports)
        /\ \A j \in 1 .. Len(all) : (j \in 1 .. Len(told) /\ all[j] = told[j]) \/ all[j] = r
    BY <1>7, <1>9, <1>10, SMTT(20)
  <2> QED
    BY <1>7, <1>9, <2>1, Zenon
<1>13. /\ \A j \in 1 .. Len(evs) : Submitted(evs[j])'
       /\ \A j \in 1 .. Len(all) : Told(all[j])'
  BY <1>6, <1>11, <1>12, Zenon DEF Submitted, Told
<1>14. /\ proc_events' = evs /\ reported' = all
  BY <1>6, <1>10
<1>15. /\ log' \in Seq(Execs)
       /\ cmdline' \in [Pids -> 0 .. Len(log')]
       /\ \A n \in 1 .. Len(log') : cmdline'[log'[n].pid] = 0 \/ n <= cmdline'[log'[n].pid]
       /\ \A pid \in Pids : cmdline'[pid] # 0 => log'[cmdline'[pid]].pid = pid
       /\ exec_heap' \in [Cpus -> HeapValues]
  BY <1>6, Zenon DEF ExecsInv
<1> QED
  BY <1>11, <1>12, <1>13, <1>14, <1>15, ZenonT(30) DEF ExecsInv, Submitted, Told

LEMMA NextExecs == ASSUME ExecsInv, [Next]_vars PROVE ExecsInv'
<1>1. ASSUME NEW t, ThreadStep(t) PROVE UNCHANGED execVars
  <2>1. ASSUME NEW fd, NEW x, NEW y, NEW z
        PROVE  /\ OpenEnter(t, x) \/ OpenKernel(t) \/ OpenExit(t) => UNCHANGED execVars
               /\ Mmap(t, fd, x) \/ Close(t, fd) \/ Socket(t) => UNCHANGED execVars
               /\ Send(t, fd, x, y, z) => UNCHANGED execVars
               /\ ReadEnter(t, fd, x) \/ ReadExit(t, x, y, z) \/ Write(t, fd, x, y) =>
                    UNCHANGED execVars
    BY Zenon DEF OpenEnter, OpenKernel, OpenExit, Mmap, Close, Socket, Send,
                 ReadEnter, ReadExit, Write
  <2> QED
    BY <1>1, <2>1, ZenonT(30) DEF ThreadStep
<1>2. ASSUME NEW fd PROVE Release(fd) \/ Taken \/ UNCHANGED vars => UNCHANGED execVars
  BY Zenon DEF Release, Taken, vars
<1>3. ASSUME UNCHANGED execVars PROVE ExecsInv'
  BY <1>3, Zenon DEF execVars, ExecsInv, Submitted, Told
<1>4. \/ UNCHANGED execVars
      \/ \E cpu \in Cpus, pid \in Pids, raw \in 0 .. MAX_ARGS_LEN + 1, readable \in BOOLEAN :
            ExecProgram(cpu, pid, raw, readable)
      \/ \E pid \in Pids : ExitProgram(pid)
      \/ Report
  BY <1>1, <1>2, ZenonT(30) DEF Next
<1> QED
  BY <1>3, <1>4, ExecProgramStep, ExitProgramStep, ReportStep, Zenon


-----------------------------------------------------------------------------
(* The initial states, and the theorems. *)

LEMMA InitInvs == Init => IInv /\ LastInv /\ ReadsInv /\ StdioExact /\ ExecsInv
<1> SUFFICES ASSUME Init PROVE IInv /\ LastInv /\ ReadsInv /\ StdioExact /\ ExecsInv
  OBVIOUS
<1>1. /\ program \in Programs
      /\ fds = [fd \in Fds |-> NoFile] /\ sys = [t \in Threads |-> NoCall]
      /\ stale = {} /\ last = NoCall
      /\ cmdline = [pid \in Pids |-> 0] /\ log = << >>
  BY Zenon DEF Init
<1>2. /\ DOMAIN inflight_open = {} /\ DOMAIN inflight_mmap = {}
      /\ DOMAIN inflight = {} /\ DOMAIN inflight_read = {}
  BY Zenon DEF Init, Exec!ExecInit, Pg!PgInit, Stdio!StdioInit,
               Exec!NoEntries, Pg!NoEntries, Stdio!NoEntries
<1>3. exec_heap = [cpu \in Cpus |-> Exec!NoExec] /\ proc_events = << >> /\ reported = << >>
  BY Zenon DEF Init, Exec!ExecInit
<1>4. NoCall.call = "none" /\ Seen = {}
  <2>1. NoCall.call = "none"
    BY DEF NoCall
  <2>2. \A t \in Threads : sys[t].call = "none"
    BY <1>1, <2>1
  <2> QED
    BY <2>1, <2>2 DEF Seen
<1>5. Shape
  BY <1>1, <1>2 DEF Shape
<1>6. LibsInv
  <2>1. OpensInv
    BY <1>2, <1>4 DEF OpensInv
  <2>2. ASSUME NEW t \in Threads, NEW fd \in Fds PROVE FdInv(t, fd)
    <3>1. sys[t].call = "none" /\ fds[fd] = NoFile
      BY <1>1, <1>4
    <3>2. ~Opening(t, fd)
      BY <3>1 DEF Opening
    <3> QED
      BY <1>2, <3>1, <3>2, Zenon DEF FdInv
  <2> QED
    BY <2>1, <2>2, Zenon DEF LibsInv
<1>7. EntriesLive
  BY <1>2 DEF EntriesLive
<1>8. LastInv /\ StdioExact
  BY <1>1, Zenon DEF LastInv, StdioExact
<1>9. ReadsInv
  BY <1>2, <1>4 DEF ReadsInv
<1>10. ExecsInv
  <2>1. Exec!NoExec \in HeapValues
    BY DEF Exec!NoExec, HeapValues
  <2>2. exec_heap \in [Cpus -> HeapValues]
    BY <1>3, <2>1
  <2>3. /\ log \in Seq(Execs) /\ Len(log) = 0 /\ cmdline \in [Pids -> 0 .. Len(log)]
        /\ proc_events \in Seq(ProcEvents) /\ Len(proc_events) = 0
        /\ reported \in Seq(Reports) /\ Len(reported) = 0
    BY <1>1, <1>3, SMTT(20)
  <2>4. 1 .. 0 = {}
    BY SMTT(20)
  <2>5. \A pid \in Pids : cmdline[pid] = 0
    BY <1>1
  <2> QED
    BY <2>2, <2>3, <2>4, <2>5, Zenon DEF ExecsInv
<1> QED
  BY <1>5, <1>6, <1>7, <1>8, <1>9, <1>10 DEF IInv

LEMMA InvariantHolds == Spec => [](IInv /\ LastInv)
<1>1. Init => IInv /\ LastInv
  BY InitInvs
<1>2. IInv /\ LastInv /\ [Next]_vars => IInv' /\ LastInv'
  BY NextIInv, NextLast
<1> QED
  BY <1>1, <1>2, PTL DEF Spec

(***************************************************************************)
(* An entry of the maps of descriptors, inflight of the Postgres probe and *)
(* inflight_mmap of the exec probe, is of a descriptor that is open, or    *)
(* was released in a way the close of its thread did not see; for any      *)
(* number of threads and descriptors and any limits of the maps.           *)
(***************************************************************************)
THEOREM EntriesStayLive == Spec => []EntriesLive
<1>1. IInv => EntriesLive
  BY DEF IInv
<1> QED
  BY <1>1, InvariantHolds, PTL

\* What LibsReported says of the events that there are.
LibsNamed ==
    program = "libs" /\ last # NoCall /\ last.clean =>
        /\ \A e \in Range(dynlib_events) : e.filename = last.file.file
        /\ last.file.reports <= 1

(***************************************************************************)
(* What sys_enter_mmap submits names the file that the descriptor stands   *)
(* for, and no open is reported twice, whatever the limits of the maps and *)
(* whatever entry inflight_mmap, an LRU map, has dropped.                  *)
(***************************************************************************)
THEOREM LibsAreNamed == Spec => []LibsNamed
<1>1. LastInv => LibsNamed
  BY Zenon DEF LastInv, LibsNamed
<1> QED
  BY <1>1, InvariantHolds, PTL

(***************************************************************************)
(* Where inflight_mmap has a place for every thread and descriptor, the    *)
(* first mmap by the thread that opened a libssl is reported as well, if   *)
(* the ring buffer has room and inflight_open had room for the open.       *)
(***************************************************************************)
THEOREM LibsAreReported == ASSUME Roomy PROVE Spec => []LibsReported
<1>1. LastInv => LibsReported
  BY Zenon DEF LastInv, LibsReported
<1> QED
  BY <1>1, InvariantHolds, PTL

(***************************************************************************)
(* The events of the stdio probe are exactly the reads of descriptor 0 and *)
(* the writes to descriptor 1 of JSON text for which there was room, cut   *)
(* at MAX_DATA: no entry outlives its read, and cutting the text does not  *)
(* change whether is_mcp_json_str takes it for JSON.                       *)
(***************************************************************************)
THEOREM StdioIsExact == Spec => []StdioExact
<1> DEFINE I == IInv /\ ReadsInv /\ StdioExact
<1>1. Init => I
  BY InitInvs
<1>2. I /\ [Next]_vars => I'
  BY NextIInv, NextReads DEF IInv
<1>3. I => StdioExact
  OBVIOUS
<1> QED
  BY <1>1, <1>2, <1>3, PTL DEF Spec

(***************************************************************************)
(* A reported exec names its own file and, if the probe read them whole,   *)
(* its own arguments; else those of an exec of the same process that is    *)
(* not earlier.  The one exec_value of a CPU never lets arguments of the   *)
(* exec before through.                                                    *)
(***************************************************************************)
THEOREM ExecsAreTrue == Spec => []ExecsTrue
<1>1. Init => ExecsInv
  BY InitInvs
<1>2. ExecsInv /\ [Next]_vars => ExecsInv'
  BY NextExecs
<1>3. ExecsInv => ExecsTrue
  <2> SUFFICES ASSUME ExecsInv, NEW r \in Range(reported)
               PROVE  /\ log[r.filename].pid = r.pid
                      /\ IF log[r.filename].complete THEN r.args = r.filename
                         ELSE r.args >= r.filename /\ log[r.args].pid = r.pid
    BY Zenon DEF ExecsTrue
  <2>1. PICK j \in 1 .. Len(reported) : r = reported[j]
    BY SMTT(20) DEF Range, ExecsInv
  <2>2. Told(r)
    BY <2>1, Zenon DEF ExecsInv
  <2>3. /\ r.filename \in 1 .. Len(log) /\ log[r.filename].pid = r.pid
        /\ IF log[r.filename].complete THEN r.args = r.filename
           ELSE r.args \in r.filename .. Len(log) /\ log[r.args].pid = r.pid
    BY <2>2, Zenon DEF Told
  <2>4. PICK f, a : f = r.filename /\ a = r.args
    OBVIOUS
  <2>5. f \in Nat /\ Len(log) \in Nat
    <3>1. reported \in Seq(Reports) /\ log \in Seq(Execs)
      BY Zenon DEF ExecsInv
    <3>2. r \in Reports /\ Len(log) \in Nat
      BY <2>1, <3>1, SMTT(20)
    <3> QED
      BY <2>4, <3>2 DEF Reports
  <2>6. a \in f .. Len(log) => a >= f
    BY <2>5, SMTT(20)
  <2> QED
    BY <2>3, <2>4, <2>6, Zenon
<1> QED
  BY <1>1, <1>2, <1>3, PTL DEF Spec

=============================================================================
