------------------------------- MODULE PgProbe ------------------------------
(***************************************************************************)
(* postgres/pg.bpf.c: the flag of a connection, kept under the thread and  *)
(* the descriptor, and the scan of a sendto buffer for messages.           *)
(*                                                                         *)
(* A buffer is a sequence of cells.  A cell stands for the five bytes of a *)
(* header or for as much of a body, and says what the code would read      *)
(* there if it took it for a header: a tag and the length of the body, in  *)
(* cells.  A length above MAX_BUF_SIZE is one that is too long for an      *)
(* event, or the length field is below 4 and wraps around.  The program    *)
(* takes one step: it shares nothing with other threads but the ring       *)
(* buffer, which has room for some number of events at the time.           *)
(***************************************************************************)
EXTENDS BpfMaps, Sequences

CONSTANTS PG_ENTRIES,     \* max_entries of inflight
          MAX_BUF_SIZE,   \* cells of a body that fit an event
          MAX_LOOP        \* turns of the loop in enter_sendto

VARIABLES
    inflight,    \* <<thread, fd>> -> conn_flag
    pg_events    \* what the last program run submitted

pgVars == <<inflight, pg_events>>

CONN_FLAG_PLAINTEXT == 1
CONN_FLAG_SSL == 2
CONN_FLAG_GSSENC == 3
CONN_FLAG_OTHER == 4

PgInit == inflight = NoEntries /\ pg_events = << >>

\* 0 for a buffer of less than 8 bytes or one that cannot be read; else by
\* the second four bytes.
detect_startup_flag(buf, mapped) == IF mapped = 0 THEN 0 ELSE buf.startup

is_supported_pg_msg_type(tag) == tag \in {"Q", "P", "B", "E", "C", "X"}

\* Mutant: the header is not part of the advance.
AdvanceBody(at, length) == at + length

\* buf += length + 5.
Advance(at, length) == at + length + 1

\* The events of the loop in enter_sendto over a buffer of which mapped cells
\* can be read, with room in the ring buffer for so many events.  A message
\* that is empty, incomplete, unreadable or finds no room ends the loop.
ScanMessages(cells, mapped, room) ==
    LET turn[at \in 1 .. Len(cells) + 1, turns \in 0 .. MAX_LOOP, left \in 0 .. room] ==
            LET total_length == Len(cells) - at + 1
                hdr == cells[at]
                length == IF hdr.len > MAX_BUF_SIZE THEN MAX_BUF_SIZE ELSE hdr.len
                next == Advance(at, length)
            IN IF turns = 0 \/ total_length < 1 \/ at > mapped THEN << >>
               ELSE IF length = 0 \/ length + 1 > total_length THEN << >>
               ELSE IF ~is_supported_pg_msg_type(hdr.tag) THEN turn[next, turns - 1, left]
               ELSE IF left = 0 THEN << >>
               ELSE <<[tag |-> hdr.tag, at |-> at, data_len |-> length]>>
                    \o turn[next, turns - 1, left - 1]
    IN turn[1, MAX_LOOP, room]

\* sys_enter_sendto.
enter_sendto(t, fd, buf, mapped, room) ==
    LET key == <<t, fd>>
        new_flag == detect_startup_flag(buf, mapped) IN
    IF key \notin DOMAIN inflight
      THEN /\ inflight' = IF new_flag = 0 THEN inflight
                          ELSE HashUpdate(inflight, key, new_flag, PG_ENTRIES)
           /\ pg_events' = << >>
      ELSE /\ pg_events' = IF inflight[key] > CONN_FLAG_GSSENC THEN << >>
                           ELSE ScanMessages(buf.cells, mapped, room)
           /\ UNCHANGED inflight

\* Mutant: the flag stays.
CloseKeeps(t, fd) == UNCHANGED inflight /\ pg_events' = << >>

\* sys_enter_close.
pg_enter_close(t, fd) ==
    inflight' = Without(inflight, <<t, fd>>) /\ pg_events' = << >>
=============================================================================
