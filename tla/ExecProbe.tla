------------------------------ MODULE ExecProbe -----------------------------
(***************************************************************************)
(* execve/exec.bpf.c: one operator per eBPF program, to be conjoined with  *)
(* the kernel event it is attached to, and the readers of execve/probe.go. *)
(*                                                                         *)
(* A libssl that a thread opens is kept from the entry to the exit of      *)
(* openat under the thread, and from then under the descriptor and the     *)
(* thread until it is mapped, which is reported, or closed.  An exec is    *)
(* put together in the CPU's only exec_value, which keeps the data of the  *)
(* exec before.                                                            *)
(***************************************************************************)
EXTENDS BpfMaps, Sequences

CONSTANTS OPEN_ENTRIES,   \* max_entries of inflight_open
          MMAP_ENTRIES,   \* max_entries of inflight_mmap
          MAX_ARGS_LEN,   \* bytes of arguments that are kept
          RING            \* events a ring buffer holds

VARIABLES
    inflight_open,  \* thread -> filename
    inflight_mmap,  \* <<fd, thread>> -> filename
    dynlib_events,  \* what the last program run submitted: one event or none
    exec_heap,      \* cpu -> exec_value
    proc_events,    \* the events submitted and not yet read
    reported        \* the exec events built by the reader

libVars == <<inflight_open, inflight_mmap, dynlib_events>>
execVars == <<exec_heap, proc_events, reported>>

\* A filename is the pair of its directory and its base name.
is_libssl(filename) == filename[2] = "libssl"

NoExec == [pid |-> 0, filename |-> 0, args |-> 0, args_len |-> 0,
           args_truncated |-> FALSE]

ExecInit(Cpus) ==
    /\ inflight_open = NoEntries
    /\ inflight_mmap = NoEntries
    /\ dynlib_events = << >>
    /\ exec_heap = [cpu \in Cpus |-> NoExec]
    /\ proc_events = << >>
    /\ reported = << >>

\* sys_enter_openat and sys_enter_openat2.
enter_openat(thread, filename) ==
    /\ inflight_open' = IF is_libssl(filename)
                        THEN HashUpdate(inflight_open, thread, filename, OPEN_ENTRIES)
                        ELSE inflight_open
    /\ dynlib_events' = << >>
    /\ UNCHANGED inflight_mmap

\* sys_exit_openat and sys_exit_openat2.
exit_openat(thread, ret) ==
    /\ IF thread \notin DOMAIN inflight_open \/ ret < 0 THEN UNCHANGED inflight_mmap
       ELSE inflight_mmap' \in LruUpdates(inflight_mmap, <<ret, thread>>,
                                          inflight_open[thread], MMAP_ENTRIES)
    /\ inflight_open' = Without(inflight_open, thread)
    /\ dynlib_events' = << >>

\* Mutant: the entry stays when it was reported.
MmapKeeps(thread, fd, room) ==
    /\ IF <<fd, thread>> \in DOMAIN inflight_mmap /\ room
         THEN dynlib_events' = <<[fd |-> fd, pid_tgid |-> thread,
                                  filename |-> inflight_mmap[<<fd, thread>>]]>>
         ELSE dynlib_events' = << >>
    /\ UNCHANGED <<inflight_open, inflight_mmap>>

\* sys_enter_mmap: without room in the ring buffer the entry stays.  The
\* reader frees the ring buffer at its own pace.
enter_mmap(thread, fd, room) ==
    LET key == <<fd, thread>> IN
    /\ IF key \in DOMAIN inflight_mmap /\ room
         THEN /\ dynlib_events' = <<[fd |-> fd, pid_tgid |-> thread,
                                     filename |-> inflight_mmap[key]]>>
              /\ inflight_mmap' = Without(inflight_mmap, key)
         ELSE dynlib_events' = << >> /\ UNCHANGED inflight_mmap
    /\ UNCHANGED inflight_open

\* sys_enter_close.
exec_enter_close(thread, fd) ==
    /\ inflight_mmap' = Without(inflight_mmap, <<fd, thread>>)
    /\ dynlib_events' = << >>
    /\ UNCHANGED inflight_open

\* Mutant: the lengths of the last exec on this CPU are still there.
ResetNot(value, pid, filename) ==
    [value EXCEPT !.pid = pid, !.filename = filename]

\* sched_process_exec up to read_exec_args: every field is set but args.
Reset(value, pid, filename) ==
    [value EXCEPT !.pid = pid, !.filename = filename,
                  !.args_len = 0, !.args_truncated = FALSE]

\* read_exec_args, with raw bytes of arguments that can be read or not.
read_exec_args(value, args, raw, readable) ==
    IF raw = 0 THEN value
    ELSE [value EXCEPT
            !.args_truncated = @ \/ raw > MAX_ARGS_LEN \/ ~readable,
            !.args = IF readable THEN args ELSE 0,
            !.args_len = IF readable
                         THEN IF raw > MAX_ARGS_LEN THEN MAX_ARGS_LEN ELSE raw
                         ELSE @]

\* sched_process_exec: the event is the header and args_len bytes of args.
sched_process_exec(cpu, pid, filename, args, raw, readable) ==
    LET value == read_exec_args(Reset(exec_heap[cpu], pid, filename),
                                args, raw, readable)
        event == [pid |-> value.pid, filename |-> value.filename,
                  args |-> IF value.args_len = 0 THEN 0 ELSE value.args,
                  args_truncated |-> value.args_truncated] IN
    /\ exec_heap' = [exec_heap EXCEPT ![cpu] = value]
    /\ proc_events' = IF Len(proc_events) < RING
                      THEN Append(proc_events, event) ELSE proc_events
    /\ UNCHANGED reported

\* The reader of Start: parseExecRecord and buildExecEvent.  cmdline is what
\* /proc shows for a pid when the event is read, 0 if the process is gone.
ReadExec(cmdline) ==
    LET event == Head(proc_events)
        shown == cmdline[event.pid]
        args == IF (event.args_truncated \/ event.args = 0) /\ shown # 0
                THEN shown ELSE event.args IN
    /\ proc_events # << >>
    /\ proc_events' = Tail(proc_events)
    /\ reported' = Append(reported,
           [pid |-> event.pid, filename |-> event.filename,
            args |-> IF args = 0 THEN event.filename ELSE args])
    /\ UNCHANGED exec_heap
=============================================================================
