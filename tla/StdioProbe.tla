----------------------------- MODULE StdioProbe -----------------------------
(***************************************************************************)
(* stdio/stdio.bpf.c: JSON on standard input and output.  A read is kept   *)
(* from its entry to its exit, where the data is there; a write is         *)
(* reported at its entry.  Data is a sequence of characters, of which only *)
(* blanks and braces matter.                                               *)
(***************************************************************************)
EXTENDS BpfMaps, Sequences

CONSTANTS STDIO_ENTRIES,  \* max_entries of inflight
          PEEK_BYTES,     \* characters that are looked at
          MAX_DATA        \* characters that fit an event (MAX_BUF_SIZE)

VARIABLES
    inflight_read,   \* thread -> fd and buffer of a read
    stdio_events     \* what the last call submitted: one event or none

stdioVars == <<inflight_read, stdio_events>>

StdioInit == inflight_read = NoEntries /\ stdio_events = << >>

is_mcp_json_str(data) ==
    /\ Len(data) >= PEEK_BYTES
    /\ \E i \in 1 .. PEEK_BYTES :
          data[i] = "{" /\ \A j \in 1 .. i - 1 : data[j] = " "

Clamp(data) == SubSeq(data, 1, IF Len(data) > MAX_DATA THEN MAX_DATA ELSE Len(data))

emit_stdio_event(t, data, fd, rw, room) ==
    stdio_events' = IF room
        THEN <<[pid_tgid |-> t, fd |-> fd, rw |-> rw, data |-> data]>> ELSE << >>

\* sys_enter_read.
enter_read(t, fd, count) ==
    /\ inflight_read' = IF count = 0 \/ fd # 0 THEN inflight_read
                        ELSE HashUpdate(inflight_read, t, fd, STDIO_ENTRIES)
    /\ UNCHANGED stdio_events

\* Mutant: a read that fails keeps its entry.
ForgetRead(t, failed) ==
    inflight_read' = IF failed THEN inflight_read ELSE Without(inflight_read, t)

\* The cleanup label of exit_read.
DeleteRead(t, failed) == inflight_read' = Without(inflight_read, t)

\* sys_exit_read: data is what was read, empty at the end of the file or if
\* the read failed.
exit_read(t, data, failed, room) ==
    /\ IF /\ ~failed /\ data # << >>
          /\ t \in DOMAIN inflight_read
          /\ is_mcp_json_str(Clamp(data))
         THEN emit_stdio_event(t, Clamp(data), inflight_read[t], 4, room)
         ELSE stdio_events' = << >>
    /\ DeleteRead(t, failed)

\* sys_enter_write.
enter_write(t, fd, data, room) ==
    /\ IF data # << >> /\ fd = 1 /\ is_mcp_json_str(Clamp(data))
         THEN emit_stdio_event(t, Clamp(data), fd, 2, room)
         ELSE stdio_events' = << >>
    /\ UNCHANGED inflight_read
=============================================================================
