----------------------------- MODULE SSLUprobes -----------------------------
(***************************************************************************)
(* The uprobes of tls/ssl.bpf.c and tls/boring.bpf.c on the read and write *)
(* functions of a TLS library, with emit_ssl_events of tls/ssl_common.h.   *)
(*                                                                         *)
(* An entry probe stores the arguments of the call under the thread; the   *)
(* return probe looks them up, submits the bytes that were moved in chunks *)
(* of at most MAX_BODY_SIZE, and deletes the entry.  SSL_read and          *)
(* SSL_write share start_map, the _ex functions share start_ex_map, and    *)
(* BoringSSL has the first pair only.  A buffer is named by the call it    *)
(* was passed to.  Each turn of the loop in emit_ssl_events is a step: the *)
(* ring buffer is shared with every other thread and with its reader.      *)
(*                                                                         *)
(* The library's calls may nest: a TLS connection inside another one is    *)
(* written from the outer call's output callback.                          *)
(***************************************************************************)
EXTENDS Integers, Sequences, FiniteSets, Functions, FiniteSetsExt

CONSTANTS
    Threads,        \* pid_tgid
    Conns,          \* SSL pointers
    Calls,          \* Calls[t]: the probed functions thread t calls
    MAX_ENTRIES,    \* of each hash map
    MAX_LOOP,       \* turns of the loop in emit_ssl_events
    MAX_BODY_SIZE,  \* bytes in a chunk
    RING,           \* chunks the ring buffer holds
    MaxCalls,       \* bound on the calls made
    MaxDepth,       \* bound on the nesting of calls
    Moves           \* the numbers of bytes a call may move, 0 if it fails

VARIABLES
    start_map,      \* thread -> call_info, where there is one
    start_ex_map,   \* thread -> call_info_ex
    calls,          \* the calls made so far, in order
    stack,          \* stack[t]: the calls thread t is inside of
    loop,           \* loop[t]: emit_ssl_events on thread t, or Idle
    events,         \* the chunks submitted so far
    taken           \* how many of them the reader has taken

vars == <<start_map, start_ex_map, calls, stack, loop, events, taken>>

Ex == {"SSL_read_ex", "SSL_write_ex"}
Rw(fn) == IF fn \in {"SSL_read", "SSL_read_ex"} THEN 4 ELSE 2

Idle == [turns |-> -1]

NoEntries == [t \in {} |-> 0]

Init ==
    /\ start_map = NoEntries
    /\ start_ex_map = NoEntries
    /\ calls = << >>
    /\ stack = [t \in Threads |-> << >>]
    /\ loop = [t \in Threads |-> Idle]
    /\ events = << >>
    /\ taken = 0

\* bpf_map_update_elem with BPF_ANY on a hash map, its result not looked at;
\* bpf_map_delete_elem.
Updated(map, t, info) ==
    IF t \in DOMAIN map \/ Cardinality(DOMAIN map) < MAX_ENTRIES
      THEN [u \in DOMAIN map \cup {t} |-> IF u = t THEN info ELSE map[u]]
      ELSE map

Deleted(map, t) == Restrict(map, DOMAIN map \ {t})

Top(t) == stack[t][Len(stack[t])]
Pop(t) == SubSeq(stack[t], 1, Len(stack[t]) - 1)

SameMap(fn, gn) == fn \in Ex <=> gn \in Ex

Inside(t, fn) == {c \in Range(stack[t]) : SameMap(fn, calls[c].fn)}

\* The calls whose capture is given up: a nested call takes over the entry of
\* the call around it, and a call that finds the map full of the entries of
\* threads that are inside calls has none.
GivenUp(t, fn) ==
    /\ Inside(t, fn) = {}
    /\ Cardinality({u \in Threads \ {t} : Inside(u, fn) # {}}) >= MAX_ENTRIES

\* The entry probes.  One thread at a time uses a connection, and a nested
\* call is on another one.
Entry(t, fn, ssl) ==
    LET c == Len(calls) + 1
        info == [ssl_ptr |-> ssl, buf |-> c] IN
    /\ loop[t] = Idle
    /\ c <= MaxCalls
    /\ Len(stack[t]) < MaxDepth
    /\ \A u \in Threads : \A b \in Range(stack[u]) : calls[b].ssl # ssl
    /\ IF fn \in Ex
         THEN start_ex_map' = Updated(start_ex_map, t, info) /\ UNCHANGED start_map
         ELSE start_map' = Updated(start_map, t, info) /\ UNCHANGED start_ex_map
    /\ stack' = [stack EXCEPT ![t] = Append(@, c)]
    /\ calls' = Append([b \in DOMAIN calls |->
                          [calls[b] EXCEPT !.lost = @ \/ b \in Inside(t, fn)]],
                       [fn |-> fn, ssl |-> ssl, thread |-> t, moved |-> 0,
                        full |-> 0, lost |-> GivenUp(t, fn)])
    /\ UNCHANGED <<loop, events, taken>>

\* Mutant: a cleanup that does not delete.
CleanupNot(t, fn) == UNCHANGED <<start_map, start_ex_map>>

\* The cleanup label of the exit probes.
Cleanup(t, fn) ==
    IF fn \in Ex
      THEN start_ex_map' = Deleted(start_ex_map, t) /\ UNCHANGED start_map
      ELSE start_map' = Deleted(start_map, t) /\ UNCHANGED start_ex_map

\* An exit probe of a call that moved so many bytes (0 if it failed), up to
\* the loop of emit_ssl_events.  The _ex functions tell the length through a
\* pointer; it stays 0 when it cannot be read.
Exit(t, moved) ==
    LET c == Top(t)
        fn == calls[c].fn
        map == IF fn \in Ex THEN start_ex_map ELSE start_map IN
    /\ stack[t] # << >> /\ loop[t] = Idle
    /\ \E known \in IF fn \in Ex THEN {moved, 0} ELSE {moved} :
         /\ calls' = [calls EXCEPT ![c].moved = moved, ![c].lost = @ \/ known # moved]
         /\ IF t \in DOMAIN map /\ moved > 0
              THEN /\ loop' = [loop EXCEPT ![t] =
                         [turns |-> 0, info |-> map[t], at |-> 0,
                          remaining |-> Min({known, MAX_LOOP * MAX_BODY_SIZE})]]
                   /\ UNCHANGED <<start_map, start_ex_map, stack>>
              ELSE /\ Cleanup(t, fn)
                   /\ stack' = [stack EXCEPT ![t] = Pop(t)]
                   /\ UNCHANGED loop
    /\ UNCHANGED <<events, taken>>

\* bpf_repeat has made its turns, or there is nothing left: the exit probe
\* cleans up and the call returns.
LoopEnds(t) ==
    /\ loop[t] # Idle
    /\ loop[t].turns = MAX_LOOP \/ loop[t].remaining = 0
    /\ Cleanup(t, calls[Top(t)].fn)
    /\ stack' = [stack EXCEPT ![t] = Pop(t)]
    /\ loop' = [loop EXCEPT ![t] = Idle]
    /\ UNCHANGED <<calls, events, taken>>

\* Mutant: the part that found no room is skipped.
NoRoomSkips(t) ==
    LET length == Min({loop[t].remaining, MAX_BODY_SIZE}) IN
    loop' = [loop EXCEPT ![t].turns = @ + 1, ![t].at = @ + length,
                         ![t].remaining = @ - length]

\* bpf_ringbuf_reserve fails: the turn is spent and nothing advances.
NoRoom(t) == loop' = [loop EXCEPT ![t].turns = @ + 1]

\* A turn of the loop in emit_ssl_events.
LoopTurn(t) ==
    LET length == Min({loop[t].remaining, MAX_BODY_SIZE}) IN
    /\ loop[t] # Idle
    /\ loop[t].turns < MAX_LOOP /\ loop[t].remaining > 0
    /\ \/ /\ Len(events) - taken = RING
          /\ NoRoom(t)
          /\ calls' = [calls EXCEPT ![Top(t)].full = @ + 1]
          /\ UNCHANGED events
       \/ /\ Len(events) - taken < RING
          /\ events' = Append(events,
                 [pid_tgid |-> t, ssl_ptr |-> loop[t].info.ssl_ptr,
                  rw |-> Rw(calls[Top(t)].fn), buf |-> loop[t].info.buf,
                  at |-> loop[t].at, data_len |-> length])
          /\ loop' = [loop EXCEPT ![t].turns = @ + 1, ![t].at = @ + length,
                                  ![t].remaining = @ - length]
          /\ UNCHANGED calls
    /\ UNCHANGED <<start_map, start_ex_map, stack, taken>>

\* The reader of the ring buffer takes the next chunk.
ReadBuffer ==
    /\ taken < Len(events)
    /\ taken' = taken + 1
    /\ UNCHANGED <<start_map, start_ex_map, calls, stack, loop, events>>

ThreadStep(t) ==
    \/ \E fn \in Calls[t], ssl \in Conns : Entry(t, fn, ssl)
    \/ \E moved \in Moves : Exit(t, moved)
    \/ LoopTurn(t)
    \/ LoopEnds(t)

Next == ReadBuffer \/ \E t \in Threads : ThreadStep(t)

Spec == Init /\ [][Next]_vars

\* What the proofs take of the constants.
Bounds == Moves \subseteq Nat /\ MAX_LOOP \in Nat /\ MAX_BODY_SIZE \in Nat \ {0}

-----------------------------------------------------------------------------
(***************************************************************************)
(* Every chunk is of a call that returned on the thread the chunk names:   *)
(* its connection, its direction, and bytes it moved.  Another call's      *)
(* entry is never taken for it, however calls nest, fail or find the map   *)
(* full.                                                                   *)
(***************************************************************************)
ChunksOfTheirCall ==
    \A e \in Range(events) :
        LET c == calls[e.buf] IN
        /\ e.pid_tgid = c.thread
        /\ e.ssl_ptr = c.ssl
        /\ e.rw = Rw(c.fn)
        /\ e.at + e.data_len <= c.moved

ChunksOf(c) == SelectSeq(events, LAMBDA e : e.buf = c)

Ends(chunk) == chunk.at + chunk.data_len

Ceil(bytes) == (bytes + MAX_BODY_SIZE - 1) \div MAX_BODY_SIZE

(***************************************************************************)
(* The chunks of a call follow each other without a gap, whatever was      *)
(* submitted between them.  Once the call has returned they are all the    *)
(* bytes it moved, up to MAX_LOOP chunks of MAX_BODY_SIZE, unless its      *)
(* entry was given up (a nested call, or MAX_ENTRIES other threads inside  *)
(* calls) or the ring buffer was full more often than there were turns of  *)
(* the loop to spare.  So no exit leaves an entry that takes up the map.   *)
(***************************************************************************)
CallsCaptured ==
    \A c \in DOMAIN calls :
        LET chunks == ChunksOf(c)
            bytes == Min({calls[c].moved, MAX_LOOP * MAX_BODY_SIZE}) IN
        /\ \A k \in DOMAIN chunks :
               chunks[k].at = IF k = 1 THEN 0 ELSE Ends(chunks[k - 1])
        /\ (/\ \A t \in Threads : c \notin Range(stack[t])
            /\ ~calls[c].lost
            /\ bytes > 0
            /\ calls[c].full + Ceil(bytes) <= MAX_LOOP)
           => chunks # << >> /\ Ends(chunks[Len(chunks)]) = bytes
=============================================================================
