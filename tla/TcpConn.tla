------------------------------ MODULE TcpConn ------------------------------
(***************************************************************************)
(* tcpconn/tcpconn.bpf.c: outbound TCP connects are attributed to the task *)
(* that called connect.  tcp_v{4,6}_connect runs in that task and writes   *)
(* inflight_connect[sk]; tcp_set_state runs later, often in softirq, and   *)
(* joins the entry by socket pointer to report the connection.             *)
(*                                                                         *)
(* The kernel (sock, connecting, closing) is the environment; a struct     *)
(* sock is a pointer that is freed and allocated again.  An attempt is one *)
(* call of connect, numbered in call order.                                *)
(***************************************************************************)
EXTENDS Naturals, Sequences, FiniteSets

CONSTANTS Socks,        \* addresses a struct sock can have
          Tasks,        \* tasks that call connect
          NoMeta,       \* "no entry" in inflight_connect
          MaxEntries,   \* capacity of inflight_connect, an LRU hash
          RingSize,     \* records the ring buffer holds
          MaxConnects   \* bound on the number of attempts

ASSUME TcpConnAssumption ==
    /\ NoMeta \notin Tasks
    /\ MaxEntries \in Nat \ {0}
    /\ RingSize \in Nat \ {0}
    /\ MaxConnects \in Nat

VARIABLES
    sock,        \* state of each struct sock, "FREE" when not allocated
    connecting,  \* sockets inside tcp_v{4,6}_connect, before SYN_SENT
    closing,     \* sockets tcp_close has been called on
    inflight,    \* the map inflight_connect
    events,      \* every event submitted to the ring, oldest first
    rd,          \* events the Go reader has consumed
    calls,       \* history: calls[a] is the task that made attempt a
    current,     \* history: the last attempt on each socket, 0 if none
    established, \* history: attempts that went SYN_SENT -> ESTABLISHED
    excused      \* history: attempts that lost their entry to the LRU, to a
                 \*   full ring, or to a close of the socket

kernel == <<sock, connecting, closing>>
history == <<calls, current, established>>
vars == <<sock, connecting, closing, inflight, events, rd, calls, current,
          established, excused>>

States == {"FREE", "CLOSE", "SYN_SENT", "SYN_RECV", "ESTABLISHED"}

Attempts == 1 .. Len(calls)

Entries == {sk \in Socks : inflight[sk] # NoMeta}

Init ==
    /\ sock = [sk \in Socks |-> "FREE"]
    /\ connecting = {}
    /\ closing = {}
    /\ inflight = [sk \in Socks |-> NoMeta]
    /\ events = << >>
    /\ rd = 0
    /\ calls = << >>
    /\ current = [sk \in Socks |-> 0]
    /\ established = {}
    /\ excused = {}

-----------------------------------------------------------------------------
(* The kernel, outside the probe. *)

\* socket(), or a child of a listening socket created for an incoming SYN.
Alloc(sk) ==
    /\ sock[sk] = "FREE"
    /\ \E s \in {"CLOSE", "SYN_RECV"} : sock' = [sock EXCEPT ![sk] = s]
    /\ current' = [current EXCEPT ![sk] = 0]
    /\ UNCHANGED <<connecting, closing, inflight, events, rd, calls,
                   established, excused>>

\* connect returns an error before it has changed the state (no route, ...).
ConnectFails(sk) ==
    /\ sk \in connecting
    /\ connecting' = connecting \ {sk}
    /\ UNCHANGED <<sock, closing, inflight, events, rd, history, excused>>

Free(sk) ==
    /\ sk \in closing
    /\ sock[sk] = "CLOSE"
    /\ sock' = [sock EXCEPT ![sk] = "FREE"]
    /\ closing' = closing \ {sk}
    /\ UNCHANGED <<connecting, inflight, events, rd, history, excused>>

\* The calls of tcp_set_state(sk, new) the kernel can make.
KernelMay(sk, new) ==
    \/ /\ sock[sk] = "CLOSE"
       /\ sk \in connecting
       /\ new = "SYN_SENT"
    \/ /\ sock[sk] = "SYN_SENT"
       /\ new \in {"ESTABLISHED", "SYN_RECV", "CLOSE"}
    \/ /\ sock[sk] = "SYN_RECV"
       /\ new \in {"ESTABLISHED", "CLOSE"}
    \/ /\ sock[sk] = "ESTABLISHED"
       /\ new = "CLOSE"

-----------------------------------------------------------------------------
(* The BPF programs. *)

\* Mutant: the update keeps an entry that is already there (BPF_NOEXIST).
UpdatedNoExist(sk, t, victims) ==
    [s \in Socks |-> IF s = sk /\ inflight[s] = NoMeta THEN t
                     ELSE IF s \in victims THEN NoMeta ELSE inflight[s]]

\* bpf_map_update_elem on the LRU map: a new key in a full map evicts another.
Updated(sk, t, victims) ==
    [s \in Socks |-> IF s = sk THEN t
                     ELSE IF s \in victims THEN NoMeta ELSE inflight[s]]

Victims(sk) ==
    IF sk \in Entries \/ Cardinality(Entries) < MaxEntries
      THEN {{}}
      ELSE {{v} : v \in Entries}

\* fentry/tcp_v4_connect and fentry/tcp_v6_connect, in the calling task.
remember_connect(sk, t) ==
    /\ Len(calls) < MaxConnects
    /\ sock[sk] = "CLOSE"
    /\ sk \notin connecting \cup closing
    /\ connecting' = connecting \cup {sk}
    /\ calls' = Append(calls, t)
    /\ current' = [current EXCEPT ![sk] = Len(calls) + 1]
    /\ \E victims \in Victims(sk) :
         /\ inflight' = Updated(sk, t, victims)
         /\ excused' = excused \cup {current[v] : v \in victims}
    /\ UNCHANGED <<sock, closing, events, rd, established>>

\* fentry/tcp_close; the last file reference is gone, so no connect is running.
trace_tcp_close(sk) ==
    /\ sock[sk] # "FREE"
    /\ sk \notin connecting \cup closing
    /\ closing' = closing \cup {sk}
    /\ inflight' = [inflight EXCEPT ![sk] = NoMeta]
    /\ excused' = excused \cup {current[sk]}
    /\ UNCHANGED <<sock, connecting, events, rd, history>>

\* bpf_ringbuf_reserve succeeds.
RingHasRoom == Len(events) - rd < RingSize

\* What tcp_set_state does to the kernel's own state.
KernelSetState(sk, new) ==
    /\ sock' = [sock EXCEPT ![sk] = new]
    /\ connecting' = connecting \ {sk}
    /\ established' = IF sock[sk] = "SYN_SENT" /\ new = "ESTABLISHED"
                        THEN established \cup {current[sk]}
                        ELSE established

\* Mutant: any state but ESTABLISHED drops the entry, SYN_SENT included.
ProbeDropsEarly(sk, new) ==
    \/ /\ inflight[sk] = NoMeta
       /\ UNCHANGED <<inflight, events, excused>>
    \/ /\ inflight[sk] # NoMeta
       /\ inflight' = [inflight EXCEPT ![sk] = NoMeta]
       /\ IF new = "ESTABLISHED" /\ RingHasRoom
            THEN events' = Append(events, [task |-> inflight[sk],
                                           attempt |-> current[sk]])
            ELSE UNCHANGED events
       /\ UNCHANGED excused

\* The body of fentry/tcp_set_state: it runs before the state changes, so
\* sock[sk] is still the old state.
Probe(sk, new) ==
    \/ /\ \/ inflight[sk] = NoMeta
          \/ sock[sk] # "SYN_SENT"
       /\ UNCHANGED <<inflight, events, excused>>
    \/ /\ inflight[sk] # NoMeta
       /\ sock[sk] = "SYN_SENT"
       /\ inflight' = [inflight EXCEPT ![sk] = NoMeta]
       /\ \/ /\ new # "ESTABLISHED"
             /\ UNCHANGED <<events, excused>>
          \/ /\ new = "ESTABLISHED"
             /\ RingHasRoom
             /\ events' = Append(events, [task |-> inflight[sk],
                                          attempt |-> current[sk]])
             /\ UNCHANGED excused
          \/ /\ new = "ESTABLISHED"
             /\ ~RingHasRoom
             /\ excused' = excused \cup {current[sk]}
             /\ UNCHANGED events

trace_tcp_set_state(sk, new) ==
    /\ KernelMay(sk, new)
    /\ Probe(sk, new)
    /\ KernelSetState(sk, new)
    /\ UNCHANGED <<closing, rd, calls, current>>

\* TCPConnProbe.Start takes the next record off the ring.
ReadRecord ==
    /\ rd < Len(events)
    /\ rd' = rd + 1
    /\ UNCHANGED <<kernel, inflight, events, history, excused>>

Next ==
    \/ \E sk \in Socks :
         \/ Alloc(sk)
         \/ ConnectFails(sk)
         \/ Free(sk)
         \/ trace_tcp_close(sk)
         \/ \E t \in Tasks : remember_connect(sk, t)
         \/ \E new \in States : trace_tcp_set_state(sk, new)
    \/ ReadRecord

Spec == Init /\ [][Next]_vars

-----------------------------------------------------------------------------
TypeOK ==
    /\ sock \in [Socks -> States]
    /\ connecting \subseteq Socks
    /\ closing \subseteq Socks
    /\ inflight \in [Socks -> Tasks \cup {NoMeta}]
    /\ events \in Seq([task : Tasks, attempt : Nat])
    /\ rd \in 0 .. Len(events)
    /\ calls \in Seq(Tasks)
    /\ current \in [Socks -> 0 .. Len(calls)]
    /\ established \subseteq Nat
    /\ excused \subseteq Nat

(***************************************************************************)
(* An event names the task that called connect for the connection it       *)
(* reports, whatever tasks used the socket pointer before, and only        *)
(* reports a connection that its connect call established: the join by     *)
(* socket pointer in trace_tcp_set_state never picks up an entry left by   *)
(* another connect, an earlier socket at the same address, or a passive    *)
(* connection.                                                             *)
(***************************************************************************)
EventsAttributed ==
    \A i \in 1 .. Len(events) :
        /\ events[i].attempt \in established
        /\ events[i].attempt \in Attempts
        /\ events[i].task = calls[events[i].attempt]

(***************************************************************************)
(* No connection is lost without a cause: a connect that went from         *)
(* SYN_SENT to ESTABLISHED has an event unless its entry was evicted from  *)
(* the LRU map, the ring was full, or the socket was already being closed. *)
(* The early deletions of trace_tcp_set_state never hit a live attempt.    *)
(***************************************************************************)
EstablishedReported ==
    \A a \in established :
        \/ a \in excused
        \/ \E i \in 1 .. Len(events) : events[i].attempt = a
=============================================================================
