--------------------------- MODULE TcpConn_proof ---------------------------
(* The attribution and completeness of TCP connect events, for any number  *)
(* of sockets, tasks and connects and any capacity of the map and the ring. *)
EXTENDS TcpConn, TLAPS

\* Entries belong to the attempt in progress on their socket, and go no
\* later than the socket does.
EntryInv ==
    /\ \A sk \in Socks :
         /\ inflight[sk] # NoMeta => /\ current[sk] # 0
                                     /\ inflight[sk] = calls[current[sk]]
         /\ sock[sk] = "FREE" \/ sk \in closing => inflight[sk] = NoMeta
    /\ \A sk \in connecting : sock[sk] = "CLOSE" /\ sk \notin closing

\* An attempt on its way to SYN_SENT or waiting there still has its entry.
PendingInv ==
    \A sk \in Socks :
        sk \in connecting \/ sock[sk] = "SYN_SENT" =>
            /\ current[sk] # 0
            /\ inflight[sk] # NoMeta \/ current[sk] \in excused

IInv == TypeOK /\ EntryInv /\ PendingInv /\ EventsAttributed /\ EstablishedReported

LEMMA InitIInv == Init => IInv
BY TcpConnAssumption
   DEF Init, IInv, TypeOK, States, EntryInv, PendingInv, EventsAttributed,
       EstablishedReported, Attempts

LEMMA NextTypeOK == IInv /\ [Next]_vars => TypeOK'
<1> SUFFICES ASSUME IInv, [Next]_vars PROVE TypeOK'
  OBVIOUS
<1> USE TcpConnAssumption DEF TypeOK, IInv, States
<1>0. \A s \in Socks : current[s] \in Nat
  OBVIOUS
<1>1. ASSUME NEW sk \in Socks, Alloc(sk) PROVE TypeOK'
  BY <1>1 DEF Alloc
<1>2. ASSUME NEW sk \in Socks, ConnectFails(sk) PROVE TypeOK'
  BY <1>2 DEF ConnectFails, history
<1>3. ASSUME NEW sk \in Socks, Free(sk) PROVE TypeOK'
  BY <1>3 DEF Free, history
<1>4. ASSUME NEW sk \in Socks, trace_tcp_close(sk) PROVE TypeOK'
  BY <1>0, <1>4 DEF trace_tcp_close, history
<1>5. ASSUME NEW sk \in Socks, NEW t \in Tasks, remember_connect(sk, t)
      PROVE TypeOK'
  <2>1. PICK victims \in Victims(sk) :
            /\ inflight' = Updated(sk, t, victims)
            /\ excused' = excused \cup {current[v] : v \in victims}
    BY <1>5 DEF remember_connect
  <2>2. victims \subseteq Socks
    BY <2>1 DEF Victims, Entries
  <2>3. inflight' \in [Socks -> Tasks \cup {NoMeta}]
    BY <2>1 DEF Updated
  <2>4. calls' \in Seq(Tasks) /\ Len(calls') = Len(calls) + 1
    BY <1>5 DEF remember_connect
  <2>5. current' \in [Socks -> 0 .. Len(calls')]
    BY <1>5, <2>4 DEF remember_connect
  <2>6. excused' \subseteq Nat
    BY <1>0, <2>1, <2>2
  <2> QED
    BY <1>5, <2>3, <2>4, <2>5, <2>6 DEF remember_connect
<1>6. ASSUME NEW sk \in Socks, NEW new \in States, trace_tcp_set_state(sk, new)
      PROVE TypeOK'
  <2>1. inflight' \in [Socks -> Tasks \cup {NoMeta}] /\ excused' \subseteq Nat
    BY <1>0, <1>6 DEF trace_tcp_set_state, Probe
  <2>2. events' \in Seq([task : Tasks, attempt : Nat]) /\ Len(events') >= Len(events)
    <3>1. CASE UNCHANGED events
      BY <3>1
    <3>2. CASE /\ inflight[sk] # NoMeta
               /\ events' = Append(events, [task |-> inflight[sk],
                                            attempt |-> current[sk]])
      <4>1. [task |-> inflight[sk], attempt |-> current[sk]]
              \in [task : Tasks, attempt : Nat]
        BY <3>2
      <4> QED
        BY <3>2, <4>1
    <3> QED
      BY <1>6, <3>1, <3>2 DEF trace_tcp_set_state, Probe
  <2>3. sock' \in [Socks -> States] /\ connecting' \subseteq Socks
    BY <1>6 DEF trace_tcp_set_state, KernelSetState
  <2>4. established' \subseteq Nat
    BY <1>0, <1>6 DEF trace_tcp_set_state, KernelSetState
  <2>5. rd' \in 0 .. Len(events')
    BY <1>6, <2>2 DEF trace_tcp_set_state
  <2> QED
    BY <1>6, <2>1, <2>2, <2>3, <2>4, <2>5 DEF trace_tcp_set_state
<1>7. CASE ReadRecord
  BY <1>7 DEF ReadRecord, kernel, history
<1>8. CASE UNCHANGED vars
  BY <1>8 DEF vars
<1> QED
  BY <1>1, <1>2, <1>3, <1>4, <1>5, <1>6, <1>7, <1>8 DEF Next

LEMMA NextEntryInv == IInv /\ [Next]_vars => EntryInv'
<1> SUFFICES ASSUME IInv, [Next]_vars PROVE EntryInv'
  OBVIOUS
<1> USE TcpConnAssumption DEF TypeOK, IInv, States, EntryInv
<1>1. ASSUME NEW sk \in Socks, Alloc(sk) PROVE EntryInv'
  BY <1>1 DEF Alloc
<1>2. ASSUME NEW sk \in Socks, ConnectFails(sk) PROVE EntryInv'
  BY <1>2 DEF ConnectFails, history
<1>3. ASSUME NEW sk \in Socks, Free(sk) PROVE EntryInv'
  BY <1>3 DEF Free, history
<1>4. ASSUME NEW sk \in Socks, trace_tcp_close(sk) PROVE EntryInv'
  BY <1>4 DEF trace_tcp_close, history
<1>5. ASSUME NEW sk \in Socks, NEW t \in Tasks, remember_connect(sk, t)
      PROVE EntryInv'
  <2>1. PICK victims \in Victims(sk) : inflight' = Updated(sk, t, victims)
    BY <1>5 DEF remember_connect
  <2>2. calls' = Append(calls, t) /\ \A a \in Attempts : calls'[a] = calls[a]
    BY <1>5 DEF remember_connect, Attempts
  <2>3. calls'[Len(calls) + 1] = t
    BY <2>2
  <2>4. \A s \in Socks : inflight'[s] # NoMeta =>
            current'[s] # 0 /\ inflight'[s] = calls'[current'[s]]
    BY <1>5, <2>1, <2>2, <2>3 DEF remember_connect, Updated, Attempts
  <2>5. \A s \in Socks : sock'[s] = "FREE" \/ s \in closing' =>
            inflight'[s] = NoMeta
    BY <1>5, <2>1 DEF remember_connect, Updated
  <2>6. \A s \in connecting' : sock'[s] = "CLOSE" /\ s \notin closing'
    BY <1>5 DEF remember_connect
  <2> QED
    BY <2>4, <2>5, <2>6
<1>6. ASSUME NEW sk \in Socks, NEW new \in States, trace_tcp_set_state(sk, new)
      PROVE EntryInv'
  BY <1>6 DEF trace_tcp_set_state, Probe, KernelSetState, KernelMay
<1>7. CASE ReadRecord
  BY <1>7 DEF ReadRecord, kernel, history
<1>8. CASE UNCHANGED vars
  BY <1>8 DEF vars
<1> QED
  BY <1>1, <1>2, <1>3, <1>4, <1>5, <1>6, <1>7, <1>8 DEF Next

LEMMA NextPendingInv == IInv /\ [Next]_vars => PendingInv'
<1> SUFFICES ASSUME IInv, [Next]_vars PROVE PendingInv'
  OBVIOUS
<1> USE TcpConnAssumption DEF TypeOK, IInv, States, EntryInv, PendingInv
<1>1. ASSUME NEW sk \in Socks, Alloc(sk) PROVE PendingInv'
  BY <1>1 DEF Alloc
<1>2. ASSUME NEW sk \in Socks, ConnectFails(sk) PROVE PendingInv'
  BY <1>2 DEF ConnectFails, history
<1>3. ASSUME NEW sk \in Socks, Free(sk) PROVE PendingInv'
  BY <1>3 DEF Free, history
<1>4. ASSUME NEW sk \in Socks, trace_tcp_close(sk) PROVE PendingInv'
  BY <1>4 DEF trace_tcp_close, history
<1>5. ASSUME NEW sk \in Socks, NEW t \in Tasks, remember_connect(sk, t)
      PROVE PendingInv'
  <2>1. PICK victims \in Victims(sk) :
            /\ inflight' = Updated(sk, t, victims)
            /\ excused' = excused \cup {current[v] : v \in victims}
    BY <1>5 DEF remember_connect
  <2>2. /\ sock' = sock
        /\ connecting' = connecting \cup {sk}
        /\ current' = [current EXCEPT ![sk] = Len(calls) + 1]
        /\ sock[sk] = "CLOSE"
    BY <1>5 DEF remember_connect
  <2>3. inflight'[sk] # NoMeta /\ current'[sk] # 0
    <3>1. inflight'[sk] = t
      BY <2>1 DEF Updated
    <3>2. current'[sk] = Len(calls) + 1 /\ Len(calls) \in Nat
      BY <2>2
    <3> QED
      BY <3>1, <3>2
  <2>4. ASSUME NEW s \in Socks, s # sk, s \in connecting' \/ sock'[s] = "SYN_SENT"
        PROVE /\ current'[s] # 0
              /\ inflight'[s] # NoMeta \/ current'[s] \in excused'
    BY <2>1, <2>2, <2>4 DEF Updated
  <2> QED
    BY <2>3, <2>4
<1>6. ASSUME NEW sk \in Socks, NEW new \in States, trace_tcp_set_state(sk, new)
      PROVE PendingInv'
  BY <1>6 DEF trace_tcp_set_state, Probe, KernelSetState, KernelMay
<1>7. CASE ReadRecord
  BY <1>7 DEF ReadRecord, kernel, history
<1>8. CASE UNCHANGED vars
  BY <1>8 DEF vars
<1> QED
  BY <1>1, <1>2, <1>3, <1>4, <1>5, <1>6, <1>7, <1>8 DEF Next

\* Only trace_tcp_set_state adds events or established attempts, and only
\* remember_connect adds calls; the other steps keep both properties.
LEMMA NextReports ==
    IInv /\ [Next]_vars => EventsAttributed' /\ EstablishedReported'
<1> SUFFICES ASSUME IInv, [Next]_vars
             PROVE  EventsAttributed' /\ EstablishedReported'
  OBVIOUS
<1> USE DEF TypeOK, IInv, EventsAttributed, EstablishedReported
<1>1. CASE UNCHANGED <<events, calls, established>> /\ excused \subseteq excused'
  BY <1>1 DEF Attempts
<1>2. ASSUME NEW sk \in Socks, NEW t \in Tasks, remember_connect(sk, t)
      PROVE EventsAttributed' /\ EstablishedReported'
  <2>1. /\ UNCHANGED <<events, established>>
        /\ calls' = Append(calls, t)
        /\ excused \subseteq excused'
    BY <1>2 DEF remember_connect
  <2>2. \A a \in Attempts : a \in Attempts' /\ calls'[a] = calls[a]
    BY <2>1 DEF Attempts
  <2> QED
    BY <2>1, <2>2
<1>3. ASSUME NEW sk \in Socks, NEW new \in States, trace_tcp_set_state(sk, new)
      PROVE EventsAttributed' /\ EstablishedReported'
  <2>1. UNCHANGED calls /\ UNCHANGED current /\ excused \subseteq excused'
    BY <1>3 DEF trace_tcp_set_state, Probe
  <2>2. established \subseteq established'
    BY <1>3 DEF trace_tcp_set_state, KernelSetState
  <2>3. \A i \in 1 .. Len(events) : /\ i \in 1 .. Len(events')
                                   /\ events'[i] = events[i]
    BY <1>3 DEF trace_tcp_set_state, Probe
  <2>4. EventsAttributed'
    <3>1. CASE UNCHANGED events
      BY <2>1, <2>2, <3>1 DEF Attempts
    <3>2. CASE /\ inflight[sk] # NoMeta /\ sock[sk] = "SYN_SENT" /\ new = "ESTABLISHED"
               /\ events' = Append(events, [task |-> inflight[sk],
                                            attempt |-> current[sk]])
      <4>1. current[sk] \in established' /\ current[sk] \in Attempts'
        BY <1>3, <2>1, <3>2
           DEF trace_tcp_set_state, KernelSetState, EntryInv, Attempts
      <4>2. inflight[sk] = calls'[current[sk]]
        BY <2>1, <3>2 DEF EntryInv
      <4>3. /\ Len(events') = Len(events) + 1
            /\ events'[Len(events) + 1] = [task |-> inflight[sk],
                                           attempt |-> current[sk]]
        BY <3>2
      <4>4. \A i \in 1 .. Len(events) :
                /\ events'[i].attempt \in established'
                /\ events'[i].attempt \in Attempts'
                /\ events'[i].task = calls'[events'[i].attempt]
        BY <2>1, <2>2, <2>3 DEF Attempts
      <4> QED
        BY <4>1, <4>2, <4>3, <4>4
    <3> QED
      BY <1>3, <3>1, <3>2 DEF trace_tcp_set_state, Probe
  <2>5. EstablishedReported'
    <3>1. CASE ~(sock[sk] = "SYN_SENT" /\ new = "ESTABLISHED")
      <4>1. established' = established
        BY <1>3, <3>1 DEF trace_tcp_set_state, KernelSetState
      <4> QED
        BY <2>1, <2>3, <4>1
    <3>2. CASE sock[sk] = "SYN_SENT" /\ new = "ESTABLISHED"
      <4>1. established' = established \cup {current[sk]}
        BY <1>3, <3>2 DEF trace_tcp_set_state, KernelSetState
      <4>2. \/ current[sk] \in excused'
            \/ \E i \in 1 .. Len(events') : events'[i].attempt = current[sk]
        <5>1. CASE inflight[sk] = NoMeta
          BY <2>1, <3>2, <5>1 DEF PendingInv
        <5>2. CASE inflight[sk] # NoMeta /\ ~RingHasRoom
          BY <1>3, <3>2, <5>2 DEF trace_tcp_set_state, Probe
        <5>3. CASE inflight[sk] # NoMeta /\ RingHasRoom
          BY SMTT(30), <1>3, <3>2, <5>3 DEF trace_tcp_set_state, Probe
        <5> QED
          BY <5>1, <5>2, <5>3
      <4>3. ASSUME NEW a \in established
            PROVE  a \in excused' \/ \E i \in 1 .. Len(events') : events'[i].attempt = a
        <5>1. CASE a \in excused
          BY <5>1, <2>1
        <5>2. ASSUME NEW i \in 1 .. Len(events), events[i].attempt = a
              PROVE  i \in 1 .. Len(events') /\ events'[i].attempt = a
          BY <5>2, <2>3
        <5> QED
          BY <5>1, <5>2, <2>1
      <4> QED
        BY <4>1, <4>2, <4>3
    <3> QED
      BY <3>1, <3>2
  <2> QED
    BY <2>4, <2>5
<1>4. ASSUME NEW sk \in Socks, Alloc(sk) \/ ConnectFails(sk) \/ Free(sk)
                                 \/ trace_tcp_close(sk)
      PROVE UNCHANGED <<events, calls, established>> /\ excused \subseteq excused'
  BY <1>4 DEF Alloc, ConnectFails, Free, trace_tcp_close, history
<1>5. CASE ReadRecord \/ UNCHANGED vars
  BY <1>1, <1>5 DEF ReadRecord, kernel, history, vars
<1> QED
  BY <1>1, <1>2, <1>3, <1>4, <1>5 DEF Next

LEMMA Inductive == Spec => []IInv
<1>1. IInv /\ [Next]_vars => IInv'
  BY NextTypeOK, NextEntryInv, NextPendingInv, NextReports DEF IInv
<1> QED
  BY InitIInv, <1>1, PTL DEF Spec

(***************************************************************************)
(* The maps, the event log and the history variables stay well typed.      *)
(***************************************************************************)
THEOREM TypeCorrect == Spec => []TypeOK
<1>1. IInv => TypeOK
  BY DEF IInv
<1> QED
  BY Inductive, <1>1, PTL

(***************************************************************************)
(* Every event of trace_tcp_set_state names the task that called connect   *)
(* for the connection it reports.                                          *)
(***************************************************************************)
THEOREM Attribution == Spec => []EventsAttributed
<1>1. IInv => EventsAttributed
  BY DEF IInv
<1> QED
  BY Inductive, <1>1, PTL

(***************************************************************************)
(* A connect that reached ESTABLISHED from SYN_SENT is reported, unless    *)
(* the LRU map, the ring or a close of the socket lost its entry.          *)
(***************************************************************************)
THEOREM Completeness == Spec => []EstablishedReported
<1>1. IInv => EstablishedReported
  BY DEF IInv
<1> QED
  BY Inductive, <1>1, PTL
=============================================================================
