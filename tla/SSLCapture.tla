----------------------------- MODULE SSLCapture -----------------------------
(***************************************************************************)
(* The capture of TLS plaintext from the library to the parser: the        *)
(* uprobes (SSLUprobes), handle in tls/probe.go, which takes chunks off    *)
(* the ring buffer and adds them to the store, and the byte accounting of  *)
(* one record of the store (SSLRecord).  The record is the one of the      *)
(* requests of connection Conn on thread Thread: SSLStore.Add files a      *)
(* chunk under its thread and connection, and by its direction.            *)
(***************************************************************************)
EXTENDS SSLRecord

CONSTANTS Threads, Conns, Calls, MAX_ENTRIES, MAX_LOOP, MAX_BODY_SIZE, RING,
          MaxCalls, MaxDepth, Moves,
          Thread, Conn

VARIABLES start_map, start_ex_map, calls, stack, loop, events, taken

Probes == INSTANCE SSLUprobes

ASSUME ProbeAssumption == Probes!Bounds

probeVars == <<start_map, start_ex_map, calls, stack, loop, events, taken>>
captureVars == <<vars, probeVars>>

CaptureInit == Init /\ Probes!Init

\* A thread of the traced program runs, with the probes it hits.
Traced(t) == Probes!ThreadStep(t) /\ UNCHANGED vars

\* handle: ReadBuffer, then SSLStore.Add, which waits for the mutex the
\* parser holds.  Chunks of other records do not change this one.
Handle ==
    LET event == events[taken + 1] IN
    /\ Probes!ReadBuffer
    /\ IF <<event.pid_tgid, event.ssl_ptr, event.rw>> = <<Thread, Conn, 2>>
         THEN AppendBuffer(event.data_len)
         ELSE UNCHANGED vars

\* parseRequest takes messages of any length off the stream.
ParseStep ==
    /\ \/ \E len \in Lengths : DetectStartup(len)
       \/ \E len \in Lengths : consumeRecord(len)
       \/ Walk
    /\ UNCHANGED probeVars

CaptureNext ==
    \/ \E t \in Threads : Traced(t)
    \/ Handle
    \/ ParseStep

CaptureSpec == CaptureInit /\ [][CaptureNext]_captureVars

-----------------------------------------------------------------------------
\* The promises of the probes, for the threads traced here.
ChunksOfTheirCall == Probes!ChunksOfTheirCall

CallsCaptured == Probes!CallsCaptured
=============================================================================
