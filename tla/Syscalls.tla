------------------------------ MODULE Syscalls ------------------------------
(***************************************************************************)
(* A traced program with the exec, Postgres and stdio probes attached: the *)
(* threads of a process share a table of descriptors, and each system call *)
(* runs every eBPF program hooked to it.  close is hooked by ExecProbe and *)
(* PgProbe, which both keep entries under a thread and a descriptor.       *)
(*                                                                         *)
(* program says what the threads do: open and map files ("libs"), talk to  *)
(* a database ("pg"), use standard input and output ("stdio"), or start    *)
(* programs ("exec").                                                      *)
(***************************************************************************)
EXTENDS Integers, Sequences, FiniteSets, Functions

CONSTANTS
    Programs,      \* what the threads may do
    Threads, Fds,
    Limit,         \* Limit[p]: the descriptors program p may have open
    Files,         \* filenames
    Startups,      \* first buffers of a connection
    Buffers,       \* later buffers
    Texts,         \* data of reads and writes
    JsonTexts,     \* those that begin with a brace after blanks
    Pids, Cpus,
    MaxExecs,      \* bound on execs
    OPEN_ENTRIES, MMAP_ENTRIES, MAX_ARGS_LEN, RING,
    PG_ENTRIES, MAX_BUF_SIZE, MAX_LOOP,
    STDIO_ENTRIES, PEEK_BYTES, MAX_DATA

\* Descriptor 0 is standard input, and what is looked at fits an event.
ASSUME SyscallsAssumption ==
    /\ Fds \subseteq Nat \ {0}
    /\ \A p \in Programs \cap {"libs", "pg"} : Limit[p] \subseteq Fds
    /\ \A buf \in Startups : buf.startup \in 0 .. 4
    /\ MAX_ARGS_LEN \in Nat /\ MAX_DATA \in Nat /\ MMAP_ENTRIES \in Nat
    /\ PEEK_BYTES \in 1 .. MAX_DATA
    /\ Texts \subseteq Seq(STRING)
    /\ JsonTexts = {data \in Texts :
           /\ Len(data) >= PEEK_BYTES
           /\ \E i \in 1 .. PEEK_BYTES : data[i] = "{" /\ \A j \in 1 .. i - 1 : data[j] = " "}

VARIABLES
    program,
    fds,      \* fds[fd]: the file or socket the descriptor stands for
    sys,      \* sys[t]: the system call thread t is inside of, or NoCall
    stale,    \* <<t, fd>>: fd was released without thread t's close
    last,     \* what the last mmap, read or write was, see the properties
    cmdline,  \* cmdline[pid]: the last exec of the process, 0 if it is gone
    log       \* the execs so far

VARIABLES inflight_open, inflight_mmap, dynlib_events,
          exec_heap, proc_events, reported,
          inflight, pg_events,
          inflight_read, stdio_events

Exec == INSTANCE ExecProbe
Pg == INSTANCE PgProbe
Stdio == INSTANCE StdioProbe

libVars == <<inflight_open, inflight_mmap, dynlib_events>>
execVars == <<exec_heap, proc_events, reported, cmdline, log>>
pgVars == <<inflight, pg_events>>
stdioVars == <<inflight_read, stdio_events>>
vars == <<program, fds, sys, stale, last, libVars, execVars, pgVars, stdioVars>>

NoCall == [call |-> "none"]
NoFile == [kind |-> "none"]

Init ==
    /\ program \in Programs
    /\ fds = [fd \in Fds |-> NoFile]
    /\ sys = [t \in Threads |-> NoCall]
    /\ stale = {}
    /\ last = NoCall
    /\ cmdline = [pid \in Pids |-> 0]
    /\ log = << >>
    /\ Exec!ExecInit(Cpus)
    /\ Pg!PgInit
    /\ Stdio!StdioInit

Ready(t) == sys[t] = NoCall

Free == {fd \in Limit[program] : fds[fd] = NoFile}
Lowest == CHOOSE fd \in Free : \A other \in Free : fd <= other

\* The threads whose call took an entry of a map of calls in progress.
Seen == {t \in Threads : sys[t].call \in {"openat", "read"} /\ sys[t].seen}

-----------------------------------------------------------------------------
\* Files.  openat installs the descriptor before its exit is traced.

OpenEnter(t, file) ==
    /\ program = "libs" /\ Ready(t)
    /\ Exec!enter_openat(t, file)
    /\ sys' = [sys EXCEPT ![t] =
           [call |-> "openat", file |-> file, ret |-> 0,
            seen |-> Exec!is_libssl(file) /\ Cardinality(Seen) < OPEN_ENTRIES]]
    /\ last' = NoCall
    /\ UNCHANGED <<program, fds, stale, execVars, pgVars, stdioVars>>

OpenKernel(t) ==
    /\ sys[t].call = "openat" /\ sys[t].ret = 0
    /\ \/ /\ Free # {}
          /\ fds' = [fds EXCEPT ![Lowest] = [kind |-> "file", file |-> sys[t].file, by |-> t,
                                             seen |-> sys[t].seen, reports |-> 0]]
          /\ stale' = IF sys[t].seen THEN stale \ {<<t, Lowest>>} ELSE stale
          /\ sys' = [sys EXCEPT ![t].ret = Lowest]
       \/ /\ sys' = [sys EXCEPT ![t].ret = -1]
          /\ UNCHANGED <<fds, stale>>
    /\ last' = NoCall
    /\ UNCHANGED <<program, libVars, execVars, pgVars, stdioVars>>

OpenExit(t) ==
    /\ sys[t].call = "openat" /\ sys[t].ret # 0
    /\ Exec!exit_openat(t, sys[t].ret)
    /\ sys' = [sys EXCEPT ![t] = NoCall]
    /\ last' = NoCall
    /\ UNCHANGED <<program, fds, stale, execVars, pgVars, stdioVars>>

\* mmap of a descriptor.  The event is due if this thread opened a libssl
\* there and nobody else released what the thread's entry is of.
Mmap(t, fd, room) ==
    LET clean == <<t, fd>> \notin stale IN
    /\ program = "libs" /\ Ready(t) /\ fds[fd] # NoFile
    /\ Exec!enter_mmap(t, fd, room)
    /\ fds' = IF clean /\ dynlib_events' # << >>
              THEN [fds EXCEPT ![fd].reports = IF @ = 0 THEN 1 ELSE 2] ELSE fds
    /\ last' = [file |-> fds'[fd], clean |-> clean,
                due |-> room /\ clean /\ fds[fd].seen /\ fds[fd].by = t]
    /\ UNCHANGED <<program, sys, stale, execVars, pgVars, stdioVars>>

\* close: the probes only see it under the thread that calls it.
Close(t, fd) ==
    /\ Ready(t) /\ fds[fd] # NoFile
    /\ Exec!exec_enter_close(t, fd)
    /\ Pg!pg_enter_close(t, fd)
    /\ fds' = [fds EXCEPT ![fd] = NoFile]
    /\ stale' = (stale \cup {<<u, fd>> : u \in Threads}) \ {<<t, fd>>}
    /\ last' = NoCall
    /\ UNCHANGED <<program, sys, execVars, stdioVars>>

\* dup2, close_range or close-on-exec release a descriptor without close.
Release(fd) ==
    /\ fds[fd] # NoFile
    /\ fds' = [fds EXCEPT ![fd] = NoFile]
    /\ stale' = stale \cup {<<u, fd>> : u \in Threads}
    /\ last' = NoCall
    /\ UNCHANGED <<program, sys, libVars, execVars, pgVars, stdioVars>>

-----------------------------------------------------------------------------
\* Connections.

Socket(t) ==
    /\ program = "pg" /\ Ready(t)
    /\ Free # {}
    /\ fds' = [fds EXCEPT ![Lowest] = [kind |-> "socket", by |-> t, flag |-> -1, sync |-> TRUE]]
    /\ last' = NoCall
    /\ UNCHANGED <<program, sys, stale, libVars, execVars, pgVars, stdioVars>>

\* Where the messages of a buffer begin, if its first cell is a header.
Starts(cells) ==
    LET start[p \in 1 .. Len(cells) + 1] ==
            p = 1 \/ \E q \in 1 .. p - 1 : start[q] /\ p = q + 1 + cells[q].len
    IN {p \in 1 .. Len(cells) + 1 : start[p]}

Whole(cells) == Len(cells) + 1 \in Starts(cells)

\* sendto.  The first buffer opens the connection; its flag is known (not 0)
\* if the thread that opened the socket sent it and the map had room.
Send(t, fd, buf, mapped, room) ==
    LET conn == fds[fd]
        first == conn.flag = -1
        trusted == <<t, fd>> \notin stale /\ conn.by = t IN
    /\ program = "pg" /\ conn # NoFile /\ last = NoCall
    /\ buf \in IF first THEN Startups ELSE Buffers
    /\ Pg!enter_sendto(t, fd, buf, mapped, room)
    /\ fds' = [fds EXCEPT
           ![fd].flag = IF ~first THEN @
                        ELSE IF trusted /\ mapped > 0 /\ Cardinality(DOMAIN inflight) < PG_ENTRIES
                        THEN buf.startup ELSE 0,
           ![fd].sync = first \/ (@ /\ Whole(buf.cells))]
    /\ last' = [buf |-> buf.cells, mapped |-> mapped, room |-> room,
                exact |-> trusted /\ conn.sync /\ conn.flag = Pg!CONN_FLAG_PLAINTEXT]
    /\ UNCHANGED <<program, sys, stale, libVars, execVars, stdioVars>>

-----------------------------------------------------------------------------
\* Standard input and output: descriptors 0 and 1, and 5 for any other.

ReadEnter(t, fd, count) ==
    /\ program = "stdio" /\ Ready(t)
    /\ Stdio!enter_read(t, fd, count)
    /\ sys' = [sys EXCEPT ![t] =
           [call |-> "read",
            seen |-> fd = 0 /\ count > 0 /\ Cardinality(Seen) < STDIO_ENTRIES]]
    /\ last' = NoCall
    /\ UNCHANGED <<program, fds, stale, libVars, execVars, pgVars>>

ReadExit(t, data, failed, room) ==
    /\ sys[t].call = "read"
    /\ Stdio!exit_read(t, data, failed, room)
    /\ sys' = [sys EXCEPT ![t] = NoCall]
    /\ last' = [by |-> t, fd |-> 0, rw |-> 4, data |-> data,
                due |-> ~failed /\ sys[t].seen /\ data \in JsonTexts /\ room]
    /\ UNCHANGED <<program, fds, stale, libVars, execVars, pgVars>>

Write(t, fd, data, room) ==
    /\ program = "stdio" /\ Ready(t)
    /\ Stdio!enter_write(t, fd, data, room)
    /\ last' = [by |-> t, fd |-> fd, rw |-> 2, data |-> data,
                due |-> fd = 1 /\ data \in JsonTexts /\ room]
    /\ UNCHANGED <<program, fds, sys, stale, libVars, execVars, pgVars>>

-----------------------------------------------------------------------------
\* Programs that are started.  The n-th exec runs file n with arguments n, of
\* raw bytes.

ExecProgram(cpu, pid, raw, readable) ==
    LET n == Len(log) + 1 IN
    /\ program = "exec"
    /\ n <= MaxExecs
    /\ Exec!sched_process_exec(cpu, pid, n, n, raw, readable)
    /\ cmdline' = [cmdline EXCEPT ![pid] = n]
    /\ log' = Append(log, [pid |-> pid, complete |-> readable /\ raw \in 1 .. MAX_ARGS_LEN])
    /\ UNCHANGED <<program, fds, sys, stale, last, libVars, pgVars, stdioVars>>

ExitProgram(pid) ==
    /\ cmdline[pid] # 0
    /\ cmdline' = [cmdline EXCEPT ![pid] = 0]
    /\ UNCHANGED <<program, fds, sys, stale, last, exec_heap, proc_events, reported, log,
                   libVars, pgVars, stdioVars>>

Report ==
    /\ Exec!ReadExec(cmdline)
    /\ UNCHANGED <<program, fds, sys, stale, last, cmdline, log, libVars, pgVars, stdioVars>>

-----------------------------------------------------------------------------
\* The readers take what was submitted.
Taken ==
    /\ last # NoCall /\ last' = NoCall
    /\ dynlib_events' = << >> /\ pg_events' = << >> /\ stdio_events' = << >>
    /\ UNCHANGED <<program, fds, sys, stale, inflight_open, inflight_mmap, inflight,
                   inflight_read, execVars>>

ThreadStep(t) ==
    \/ \E file \in Files : OpenEnter(t, file)
    \/ OpenKernel(t)
    \/ OpenExit(t)
    \/ \E fd \in Fds, room \in BOOLEAN : Mmap(t, fd, room)
    \/ \E fd \in Fds : Close(t, fd)
    \/ Socket(t)
    \/ \E fd \in Fds, buf \in Startups \cup Buffers :
         \E mapped \in 0 .. Len(buf.cells), room \in 0 .. MAX_LOOP :
            Send(t, fd, buf, mapped, room)
    \/ \E fd \in {0, 5}, count \in {0, 1} : ReadEnter(t, fd, count)
    \/ \E data \in Texts, failed, room \in BOOLEAN : ReadExit(t, data, failed, room)
    \/ \E fd \in {1, 5}, data \in Texts, room \in BOOLEAN : Write(t, fd, data, room)

Next ==
    \/ \E t \in Threads : ThreadStep(t)
    \/ \E fd \in Fds : Release(fd)
    \/ \E cpu \in Cpus, pid \in Pids, raw \in 0 .. MAX_ARGS_LEN + 1, readable \in BOOLEAN :
         ExecProgram(cpu, pid, raw, readable)
    \/ \E pid \in Pids : ExitProgram(pid)
    \/ Report
    \/ Taken

Spec == Init /\ [][Next]_vars

-----------------------------------------------------------------------------
(***************************************************************************)
(* A libssl that a thread opens and maps is reported, once: whatever the   *)
(* threads do between the entry and the exit of openat and the mmap, an    *)
(* event names the file its descriptor stands for, no open is reported     *)
(* twice, and the first mmap by the thread that opened it is reported if   *)
(* the maps and the ring buffer had room.  Descriptors the thread used     *)
(* before and did not close itself are left out: close is only seen under  *)
(* the thread that calls it, and the entry stays.                          *)
(***************************************************************************)
LibsReported ==
    program = "libs" /\ last # NoCall /\ last.clean =>
        /\ \A e \in Range(dynlib_events) : e.filename = last.file.file
        /\ last.file.reports <= 1
        /\ last.due => last.file.reports = 1

(***************************************************************************)
(* The entries of inflight and inflight_mmap are of descriptors that are   *)
(* open, or were released in a way their thread's close did not see.  The  *)
(* first of them is a plain hash map: what is left there is never made     *)
(* room for.                                                               *)
(***************************************************************************)
EntriesLive ==
    /\ \A key \in DOMAIN inflight : fds[key[2]] # NoFile \/ key \in stale
    /\ \A key \in DOMAIN inflight_mmap : fds[key[1]] # NoFile \/ <<key[2], key[1]>> \in stale

(***************************************************************************)
(* The events are exactly the reads of descriptor 0 that returned JSON and *)
(* the writes of JSON to descriptor 1, in order, for which the map and the *)
(* ring buffer had room: a read that fails or ends leaves nothing behind   *)
(* that a read of another descriptor would be taken for.                   *)
(***************************************************************************)
StdioExact ==
    program = "stdio" /\ last # NoCall =>
        stdio_events = IF last.due
                       THEN <<[pid_tgid |-> last.by, fd |-> last.fd, rw |-> last.rw,
                               data |-> Stdio!Clamp(last.data)]>>
                       ELSE << >>

(***************************************************************************)
(* A reported exec names its own file, and its own arguments if the probe  *)
(* could read them whole.  Otherwise they are taken from /proc when the    *)
(* event is read, and may be those of a later exec of the same process;    *)
(* never those of the exec before on the same CPU.                         *)
(***************************************************************************)
ExecsTrue ==
    program = "exec" =>
    \A r \in Range(reported) :
        /\ log[r.filename].pid = r.pid
        /\ IF log[r.filename].complete THEN r.args = r.filename
           ELSE r.args >= r.filename /\ log[r.args].pid = r.pid
=============================================================================
