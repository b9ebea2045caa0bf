-------------------------- MODULE SSLCapture_proof --------------------------
(***************************************************************************)
(* Proofs about the capture of TLS plaintext: first about a record alone,  *)
(* for buffers of any number and length, then about the probes, for any    *)
(* threads and nesting of calls, and last about their composition, where   *)
(* the buffers of the record are the chunks that the probes submit.        *)
(***************************************************************************)
EXTENDS SSLCapture, TLAPS

\* Buffers have data, so their ends increase.
Increasing == \A a, b \in 0 .. n : a < b => End(a) < End(b)

\* Info starts no later than Stream.
Covers == End(lo - 1) <= pos

\* In the loop: what is left of the message reaches from the start of the
\* buffer at i to a point before the end of Stream, at or before pos.
WalkInv ==
    pc = "walk" =>
        /\ i \in lo .. n
        /\ last \in lo .. i
        /\ i = lo \/ last = i - 1
        /\ End(i - 1) + left <= pos
        /\ pos < End(n)
        /\ End(last - 1) < pos
        /\ stamp <= lo

StampInv ==
    /\ stamp <= lo
    /\ stamp > 0 => End(stamp - 1) < pos

IInv == TypeOK /\ Increasing /\ Covers /\ WalkInv /\ StampInv

LEMMA InitIInv == Init => IInv
<1> SUFFICES ASSUME Init PROVE IInv
  OBVIOUS
<1>1. n = 0 /\ \A b : b = 0 => End(b) = 0
  BY DEF Init, n, End
<1>2. TypeOK
  BY <1>1 DEF Init, TypeOK
<1>3. Increasing /\ Covers /\ WalkInv /\ StampInv
  BY <1>1 DEF Init, Increasing, Covers, WalkInv, StampInv
<1> QED
  BY <1>2, <1>3 DEF IInv

LEMMA Offsets ==
    ASSUME TypeOK
    PROVE  n \in Nat /\ \A b \in 0 .. n : End(b) \in Nat
BY DEF TypeOK, n, End

LEMMA SameBuffers ==
    ASSUME ends' = ends
    PROVE  n' = n /\ \A b : End(b)' = End(b)
BY DEF n, End

LEMMA AppendKeeps ==
    ASSUME IInv, NEW len \in Nat \ {0}, AppendBuffer(len)
    PROVE  IInv'
<1>1. n \in Nat /\ \A b \in 0 .. n : End(b) \in Nat
  BY Offsets DEF IInv
<1>2. len \in Nat \ {0}
  OBVIOUS
<1>3. ends \in Seq(Nat) /\ ends' = Append(ends, End(n) + len) /\ End(n) + len \in Nat
  BY <1>1, <1>2 DEF AppendBuffer, IInv, TypeOK
<1>4. /\ ends' \in Seq(Nat)
      /\ n' = n + 1
      /\ \A b \in 1 .. n : ends'[b] = ends[b]
      /\ ends'[n + 1] = End(n) + len
  BY <1>3 DEF n
<1>5. /\ \A b \in 0 .. n : End(b)' = End(b)
      /\ \A b : b = n + 1 => End(b)' = End(n) + len
  <2>1. \A b \in 0 .. n : End(b)' = End(b)
    BY <1>1, <1>4 DEF End
  <2>2. \A b : b = n + 1 => End(b)' = End(n) + len
    BY <1>1, <1>4 DEF End
  <2> QED
    BY <2>1, <2>2
<1>6. pc = "idle" /\ UNCHANGED <<pos, lo, pc, i, left, last, stamp>>
  BY DEF AppendBuffer, loopVars
<1>7. Increasing'
  <2>1. \A b \in 0 .. n : End(b) <= End(n)
    BY <1>1 DEF IInv, Increasing
  <2>2. \A b \in 0 .. n' : b \in 0 .. n \/ b = n + 1
    BY <1>1, <1>4
  <2>3. \A a \in 0 .. n : \A b : b = n + 1 => End(a)' < End(b)'
    BY <1>1, <1>2, <1>5, <2>1
  <2>4. \A a, b \in 0 .. n : a < b => End(a)' < End(b)'
    BY <1>5 DEF IInv, Increasing
  <2>5. \A a, b \in 0 .. n' : a < b => End(a)' < End(b)'
    <3> TAKE a, b \in 0 .. n'
    <3> HAVE a < b
    <3>1. a \in 0 .. n
      BY <1>1, <1>4
    <3> QED
      BY <2>2, <2>3, <2>4, <3>1
  <2> QED
    BY <2>5 DEF Increasing
<1>8. TypeOK'
  <2>1. End(n)' = End(n) + len
    BY <1>4, <1>5
  <2>2. pos' \in Nat /\ pos' <= End(n)'
    BY <1>1, <1>2, <1>6, <2>1 DEF IInv, TypeOK
  <2>3. lo' \in 1 .. n' + 1 /\ stamp' \in 0 .. n'
    BY <1>1, <1>4, <1>6 DEF IInv, TypeOK
  <2> QED
    BY <1>4, <1>6, <2>2, <2>3 DEF IInv, TypeOK
<1>9. lo - 1 \in 0 .. n /\ (stamp > 0 => stamp - 1 \in 0 .. n)
  BY <1>1 DEF IInv, TypeOK
<1>10. Covers' /\ WalkInv' /\ StampInv'
  BY <1>5, <1>6, <1>9 DEF IInv, Covers, WalkInv, StampInv
<1> QED
  BY <1>7, <1>8, <1>10 DEF IInv

LEMMA DetectKeeps ==
    ASSUME IInv, NEW len \in Lengths, DetectStartup(len)
    PROVE  IInv'
<1>1. n \in Nat /\ \A b \in 0 .. n : End(b) \in Nat
  BY Offsets DEF IInv
<1>2. len \in Nat \ {0}
  BY SSLRecordAssumption DEF Lengths
<1>3. /\ n' = n /\ \A b : End(b)' = End(b)
      /\ ends' = ends
  BY SameBuffers DEF DetectStartup
<1>4. /\ pos = 0 /\ pos' = len /\ len <= End(n) /\ pc = "idle"
      /\ UNCHANGED <<lo, pc, i, left, last, stamp>>
  BY <1>1, <1>2 DEF DetectStartup, StreamLen, loopVars
<1>5. TypeOK' /\ Increasing'
  BY <1>1, <1>2, <1>3, <1>4 DEF IInv, TypeOK, Increasing
<1>6. lo - 1 \in 0 .. n /\ (stamp > 0 => stamp - 1 \in 0 .. n)
  BY <1>1 DEF IInv, TypeOK
<1>7. Covers' /\ WalkInv' /\ StampInv'
  BY <1>1, <1>2, <1>3, <1>4, <1>6 DEF IInv, Covers, WalkInv, StampInv
<1> QED
  BY <1>5, <1>7 DEF IInv

LEMMA ConsumeKeeps ==
    ASSUME IInv, NEW len \in Lengths, consumeRecord(len)
    PROVE  IInv' /\ stamp' >= stamp
<1>1. n \in Nat /\ \A b \in 0 .. n : End(b) \in Nat
  BY Offsets DEF IInv
<1>2. len \in Nat \ {0}
  BY SSLRecordAssumption DEF Lengths
<1>3. /\ pos \in Nat /\ lo \in 1 .. n + 1 /\ stamp \in 0 .. n /\ stamp <= lo
      /\ pc = "idle" /\ pos < End(n)
  BY <1>1 DEF IInv, TypeOK, StampInv, consumeRecord, StreamLen
<1>4. End(lo - 1) <= pos /\ lo - 1 \in 0 .. n
  BY <1>1, <1>3 DEF IInv, Covers
<1>5. lo <= n
  BY <1>1, <1>3, <1>4
<1>6. ends' = ends /\ n' = n /\ \A b : End(b)' = End(b)
  BY <1>1, <1>3, <1>5, SameBuffers DEF consumeRecord
<1>7. Increasing'
  BY <1>6 DEF IInv, Increasing
<1>8. CASE len >= StreamLen
  <2>1. /\ pos' = End(n) /\ lo' = n + 1 /\ stamp' = n
        /\ UNCHANGED <<pc, i, left, last>>
    BY <1>1, <1>3, <1>5, <1>8 DEF consumeRecord, loopVars
  <2>2. TypeOK'
    BY <1>1, <1>3, <1>6, <2>1 DEF IInv, TypeOK
  <2>3. n \in Nat \ {0} /\ End(n - 1) < End(n)
    BY <1>1, <1>3, <1>5 DEF IInv, Increasing
  <2>4. Covers' /\ WalkInv' /\ StampInv'
    BY <1>1, <1>3, <1>6, <2>1, <2>3 DEF Covers, WalkInv, StampInv
  <2> QED
    BY <1>1, <1>3, <1>7, <2>1, <2>2, <2>4 DEF IInv
<1>9. CASE ~(len >= StreamLen)
  <2>1. /\ pos' = pos + len /\ pc' = "walk" /\ i' = lo /\ left' = len /\ last' = lo
        /\ UNCHANGED <<lo, stamp>>
    BY <1>1, <1>3, <1>5, <1>9 DEF consumeRecord
  <2>2. pos + len < End(n)
    BY <1>1, <1>2, <1>3, <1>9 DEF StreamLen
  <2>3. TypeOK'
    BY <1>1, <1>2, <1>3, <1>6, <2>1, <2>2 DEF IInv, TypeOK
  <2>4. Covers' /\ WalkInv'
    BY <1>1, <1>2, <1>3, <1>4, <1>5, <1>6, <2>1, <2>2 DEF Covers, WalkInv
  <2>5. StampInv'
    <3>1. stamp > 0 => stamp - 1 \in 0 .. n /\ End(stamp - 1) < pos
      BY <1>1, <1>3 DEF IInv, StampInv
    <3> QED
      BY <1>1, <1>2, <1>3, <1>6, <2>1, <3>1 DEF StampInv
  <2> QED
    BY <1>3, <1>7, <2>1, <2>3, <2>4, <2>5 DEF IInv
<1> QED
  BY <1>8, <1>9

LEMMA WalkKeeps ==
    ASSUME IInv, Walk
    PROVE  IInv' /\ stamp' >= stamp
<1>1. n \in Nat /\ \A b \in 0 .. n : End(b) \in Nat
  BY Offsets DEF IInv
<1>2. ends' = ends /\ n' = n /\ \A b : End(b)' = End(b)
  BY SameBuffers DEF Walk
<1>3. /\ pc = "walk" /\ pos' = pos /\ pos \in Nat /\ lo \in 1 .. n + 1 /\ stamp \in 0 .. n
      /\ left \in Nat
      /\ i \in lo .. n /\ last \in lo .. i /\ (i = lo \/ last = i - 1)
      /\ End(i - 1) + left <= pos /\ pos < End(n) /\ End(last - 1) < pos /\ stamp <= lo
  BY DEF IInv, TypeOK, WalkInv, Walk
<1>4. /\ i \in 1 .. n /\ i - 1 \in 0 .. n /\ i \in 0 .. n
      /\ End(i - 1) \in Nat /\ End(i) \in Nat /\ End(n) \in Nat
  BY <1>1, <1>3
<1>5. End(i - 1) < End(i)
  BY <1>1, <1>3, <1>4 DEF IInv, Increasing
<1>6. Increasing'
  BY <1>2 DEF IInv, Increasing
<1>7. CASE left = 0 \/ left < DataLen(i)
  <2>1. /\ lo' = i /\ stamp' = last /\ pc' = "idle" /\ UNCHANGED <<i, left, last>>
    <3>1. DataLen(i) \in Int
      BY <1>4 DEF DataLen
    <3>2. ~(left # 0 /\ left >= DataLen(i))
      BY <1>3, <1>7, <3>1
    <3> QED
      BY <3>2 DEF Walk, Return, loopVars
  <2>2. TypeOK'
    BY <1>1, <1>2, <1>3, <1>4, <2>1 DEF IInv, TypeOK
  <2>3. Covers'
    BY <1>2, <1>3, <1>4, <2>1 DEF Covers
  <2>4. WalkInv' /\ StampInv'
    BY <1>1, <1>2, <1>3, <2>1 DEF WalkInv, StampInv
  <2>5. stamp' >= stamp
    BY <1>1, <1>3, <2>1
  <2> QED
    BY <1>6, <2>2, <2>3, <2>4, <2>5 DEF IInv
<1>8. CASE ~(left = 0 \/ left < DataLen(i))
  <2>1. DataLen(i) = End(i) - End(i - 1)
    BY DEF DataLen
  <2>2. left >= End(i) - End(i - 1)
    BY <1>3, <1>4, <1>8, <2>1
  <2>3. End(i) <= pos /\ End(i) < End(n)
    BY <1>3, <1>4, <2>2
  <2>4. i < n
    <3>1. i = n => End(i) = End(n)
      OBVIOUS
    <3> QED
      BY <1>1, <1>3, <1>4, <2>3, <3>1
  <2>5. /\ left' = left - (End(i) - End(i - 1)) /\ last' = i /\ i' = i + 1
        /\ UNCHANGED <<lo, pc, stamp>>
    BY <1>3, <1>8, <2>1, <2>4 DEF Walk
  <2>6. left' \in Nat /\ End(i) + left' <= pos
    BY <1>3, <1>4, <2>2, <2>5
  <2>7. TypeOK'
    BY <1>1, <1>2, <1>3, <1>4, <2>5, <2>6 DEF IInv, TypeOK
  <2>8. Covers' /\ StampInv'
    BY <1>2, <1>3, <2>5 DEF IInv, Covers, StampInv
  <2>9. WalkInv'
    <3>1. i' \in lo' .. n' /\ last' \in lo' .. i' /\ last' = i' - 1
      BY <1>1, <1>2, <1>3, <2>4, <2>5
    <3>2. \A b : b = i' - 1 => End(b)' = End(i)
      BY <1>2, <1>4, <2>5
    <3>3. End(i - 1)' + left' <= pos' /\ pos' < End(n)'
      BY <1>2, <1>3, <2>5, <2>6, <3>2
    <3>4. \A b : b = last' - 1 => End(b)' = End(i - 1)
      BY <1>2, <2>5
    <3>5. End(last - 1)' < pos'
      BY <1>3, <1>4, <1>5, <2>3, <3>4
    <3> QED
      BY <1>2, <1>3, <2>5, <3>1, <3>3, <3>5 DEF WalkInv
  <2> QED
    BY <1>3, <1>6, <2>5, <2>7, <2>8, <2>9 DEF IInv
<1> QED
  BY <1>7, <1>8

LEMMA Inductive == IInv /\ [Next]_vars => IInv' /\ stamp' >= stamp
<1> SUFFICES ASSUME IInv, [Next]_vars PROVE IInv' /\ stamp' >= stamp
  OBVIOUS
<1>0. stamp \in Nat
  BY Offsets DEF IInv, TypeOK
<1>1. ASSUME NEW len \in 1 .. MaxLen, AppendBuffer(len) PROVE IInv' /\ stamp' >= stamp
  <2>1. len \in Nat \ {0}
    BY SSLRecordAssumption
  <2> QED
    BY <2>1, <1>0, <1>1, AppendKeeps DEF AppendBuffer
<1>2. ASSUME NEW len \in Lengths, DetectStartup(len) PROVE IInv' /\ stamp' >= stamp
  BY <1>0, <1>2, DetectKeeps DEF DetectStartup
<1>3. ASSUME NEW len \in Lengths, consumeRecord(len) PROVE IInv' /\ stamp' >= stamp
  BY <1>3, ConsumeKeeps
<1>4. CASE Walk
  BY <1>4, WalkKeeps
<1>5. CASE UNCHANGED vars
  BY <1>0, <1>5 DEF vars, IInv, TypeOK, Increasing, Covers, WalkInv, StampInv, n, End
<1> QED
  BY <1>1, <1>2, <1>3, <1>4, <1>5 DEF Next

LEMMA Coverage == IInv => InfoCoversStream
<1> SUFFICES ASSUME IInv, StreamLen > 0 PROVE lo <= n
  BY DEF InfoCoversStream
<1>1. n \in Nat /\ \A b \in 0 .. n : End(b) \in Nat
  BY Offsets DEF IInv
<1>2. pos \in Nat /\ lo \in 1 .. n + 1 /\ End(lo - 1) <= pos /\ pos < End(n)
  BY <1>1 DEF IInv, TypeOK, Covers, StreamLen
<1>3. lo = n + 1 => End(lo - 1) = End(n)
  BY <1>1
<1> QED
  BY <1>1, <1>2, <1>3

(***************************************************************************)
(* The offsets of a record stay in range: Stream is never cut beyond its   *)
(* end, Info never sliced beyond its length.                               *)
(***************************************************************************)
THEOREM TypeCorrect == Spec => []TypeOK
<1>1. IInv => TypeOK
  BY DEF IInv
<1> QED
  BY <1>1, InitIInv, Inductive, PTL DEF Spec

(***************************************************************************)
(* Bytes in Stream always have a buffer in Info, so consumeRecord always   *)
(* takes bytes off Stream and the parsing loops make progress.             *)
(***************************************************************************)
THEOREM CoverageTheorem == Spec => []InfoCoversStream
BY InitIInv, Inductive, Coverage, PTL DEF Spec

(***************************************************************************)
(* The timestamp consumeRecord returns is never that of a buffer captured  *)
(* after the message's last byte.                                          *)
(***************************************************************************)
THEOREM NotAhead == Spec => []StampNotAhead
<1>1. IInv => StampNotAhead
  BY DEF IInv, StampInv, StampNotAhead
<1> QED
  BY <1>1, InitIInv, Inductive, PTL DEF Spec

(***************************************************************************)
(* The timestamps consumeRecord returns for a record never go back.        *)
(***************************************************************************)
THEOREM Monotone == Spec => StampsMonotone
<1>1. IInv /\ [Next]_vars => [stamp' >= stamp]_vars
  BY Inductive
<1> QED
  BY <1>1, InitIInv, Inductive, PTL DEF Spec, StampsMonotone

-----------------------------------------------------------------------------
\* The map that a function uses.
Kind(fn) == IF fn \in Probes!Ex THEN "ex" ELSE "plain"

Call == [fn : UNION {Calls[t] : t \in Threads}, ssl : Conns, thread : Threads,
         moved : Nat, full : Nat, lost : BOOLEAN]
Info == [ssl_ptr : Conns, buf : Nat]
Turning == [turns : Nat, info : Info, at : Nat, remaining : Nat]
Chunk == [pid_tgid : Threads, ssl_ptr : Conns, rw : {2, 4}, buf : Nat,
          at : Nat, data_len : Nat \ {0}]

ProbeTypeOK ==
    /\ calls \in Seq(Call)
    /\ stack \in [Threads -> Seq(Nat)]
    /\ loop \in [Threads -> Turning \cup {Probes!Idle}]
    /\ events \in Seq(Chunk)

InfoOf(c) == [ssl_ptr |-> calls[c].ssl, buf |-> c]

\* A thread's calls are its own, the later ones on top.
StacksOwn ==
    \A t \in Threads : \A h \in 1 .. Len(stack[t]) :
        /\ stack[t][h] \in 1 .. Len(calls)
        /\ calls[stack[t][h]].thread = t
        /\ \A j \in 1 .. Len(stack[t]) : h < j => stack[t][h] < stack[t][j]

\* An entry is that of the innermost call of the thread that uses the map.
Innermost(t, info, kind) ==
    \E h \in 1 .. Len(stack[t]) :
        /\ info = InfoOf(stack[t][h])
        /\ Kind(calls[stack[t][h]].fn) = kind
        /\ \A j \in 1 .. Len(stack[t]) : h < j => Kind(calls[stack[t][j]].fn) # kind

EntriesOwn ==
    /\ \A t \in DOMAIN start_map : t \in Threads /\ Innermost(t, start_map[t], "plain")
    /\ \A t \in DOMAIN start_ex_map : t \in Threads /\ Innermost(t, start_ex_map[t], "ex")

\* emit_ssl_events is at work on the top call, within the bytes it moved.
LoopsOwn ==
    \A t \in Threads : loop[t] # Probes!Idle =>
        /\ Len(stack[t]) > 0
        /\ loop[t].info = InfoOf(Probes!Top(t))
        /\ loop[t].at + loop[t].remaining <= calls[Probes!Top(t)].moved

\* A call that has not got to emit_ssl_events has no chunk yet.
Unheard ==
    \A t \in Threads : \A h \in 1 .. Len(stack[t]) :
        h < Len(stack[t]) \/ loop[t] = Probes!Idle =>
            \A k \in 1 .. Len(events) : events[k].buf # stack[t][h]

ChunksOwn ==
    \A k \in 1 .. Len(events) :
        LET e == events[k] IN
        /\ e.buf \in 1 .. Len(calls)
        /\ e.pid_tgid = calls[e.buf].thread
        /\ e.ssl_ptr = calls[e.buf].ssl
        /\ e.rw = Probes!Rw(calls[e.buf].fn)
        /\ e.at + e.data_len <= calls[e.buf].moved

ProbeInv == ProbeTypeOK /\ StacksOwn /\ EntriesOwn /\ LoopsOwn /\ Unheard /\ ChunksOwn


\* Leaves are for Zenon; those about numbers and records of several fields name SMT.
USE ZenonT(20)

LEMMA InitInv == Probes!Init => ProbeInv
BY SMTT(20) DEF Probes!Init, Probes!NoEntries, ProbeInv, ProbeTypeOK, StacksOwn, EntriesOwn, LoopsOwn, Unheard, ChunksOwn

LEMMA Chunks == ProbeInv => Probes!ChunksOfTheirCall
<1> SUFFICES ASSUME ProbeInv, NEW e \in Probes!Range(events)
             PROVE  LET c == calls[e.buf] IN
                    /\ e.pid_tgid = c.thread /\ e.ssl_ptr = c.ssl
                    /\ e.rw = Probes!Rw(c.fn) /\ e.at + e.data_len <= c.moved
  BY DEF Probes!ChunksOfTheirCall
<1>1. PICK k \in 1 .. Len(events) : e = events[k]
  BY SMTT(20) DEF Probes!Range, ProbeInv, ProbeTypeOK
<1> QED
  BY <1>1 DEF ProbeInv, ChunksOwn

LEMMA MinFacts ==
    ASSUME NEW a \in Nat, NEW b \in Nat
    PROVE  Probes!Min({a, b}) \in {a, b} /\ Probes!Min({a, b}) <= a
<1>1. a <= b \/ b <= a
  BY SMTT(20)
<1>2. \E m \in {a, b} : \A m0 \in {a, b} : m <= m0
  BY <1>1, SMTT(20)
<1>3. Probes!Min({a, b}) \in {a, b} /\ \A m0 \in {a, b} : Probes!Min({a, b}) <= m0
  BY <1>2 DEF Probes!Min
<1> QED
  BY <1>3

LEMMA LostOnly ==
    ASSUME NEW r \in Call, NEW p \in BOOLEAN
    PROVE  LET s == [r EXCEPT !.lost = p] IN
           /\ s \in Call /\ s.fn = r.fn /\ s.ssl = r.ssl
           /\ s.thread = r.thread /\ s.moved = r.moved
BY DEF Call

\* The reader of the ring buffer touches nothing of the probes.
LEMMA ReadStep == ASSUME ProbeInv, Probes!ReadBuffer \/ UNCHANGED Probes!vars PROVE ProbeInv'
<1>1. UNCHANGED <<start_map, start_ex_map, calls, stack, loop, events>>
  BY DEF Probes!ReadBuffer, Probes!vars
<1>2. ProbeTypeOK' /\ StacksOwn'
  BY <1>1 DEF ProbeInv, ProbeTypeOK, StacksOwn
<1>3. EntriesOwn'
  BY <1>1, SMTT(20), ZenonT(60) DEF ProbeInv, EntriesOwn, Innermost, InfoOf
<1>4. LoopsOwn'
  BY <1>1, ZenonT(30) DEF ProbeInv, LoopsOwn, InfoOf, Probes!Top
<1>5. Unheard' /\ ChunksOwn'
  BY <1>1, ZenonT(30) DEF ProbeInv, Unheard, ChunksOwn
<1> QED
  BY <1>2, <1>3, <1>4, <1>5 DEF ProbeInv

\* What the entry probes do to the calls made before.
LEMMA EntryCalls ==
    ASSUME ProbeInv, NEW t \in Threads, NEW fn \in Calls[t], NEW ssl \in Conns, Probes!Entry(t, fn, ssl)
    PROVE  /\ calls' \in Seq(Call) /\ Len(calls') = Len(calls) + 1
           /\ \A b \in 1 .. Len(calls) :
                /\ calls'[b].fn = calls[b].fn /\ calls'[b].ssl = calls[b].ssl
                /\ calls'[b].thread = calls[b].thread /\ calls'[b].moved = calls[b].moved
           /\ calls'[Len(calls) + 1].fn = fn /\ calls'[Len(calls) + 1].ssl = ssl
           /\ calls'[Len(calls) + 1].thread = t
<1> DEFINE Lost(b) == calls[b].lost \/ b \in Probes!Inside(t, fn)
           old == [b \in DOMAIN calls |-> [calls[b] EXCEPT !.lost = Lost(b)]]
           new == [fn |-> fn, ssl |-> ssl, thread |-> t, moved |-> 0,
                   full |-> 0, lost |-> Probes!GivenUp(t, fn)]
<1>1. calls' = Append(old, new)
  BY DEF Probes!Entry
<1>2. calls \in Seq(Call) /\ DOMAIN calls = 1 .. Len(calls) /\ Len(calls) \in Nat
  BY SMTT(20) DEF ProbeInv, ProbeTypeOK
<1>3. \A b \in DOMAIN calls : calls[b] \in Call /\ Lost(b) \in BOOLEAN
  BY <1>2, SMTT(20)
<1>4. \A b \in DOMAIN calls :
        /\ old[b] \in Call /\ old[b].fn = calls[b].fn /\ old[b].ssl = calls[b].ssl
        /\ old[b].thread = calls[b].thread /\ old[b].moved = calls[b].moved
  BY ZenonT(30), <1>3, LostOnly
<1>5. Probes!GivenUp(t, fn) \in BOOLEAN
  BY DEF Probes!GivenUp
<1>6. new \in Call
  BY <1>5 DEF Call
<1>7. DOMAIN old = 1 .. Len(calls)
  BY <1>2
<1> HIDE DEF old, new
<1>8. old \in Seq(Call) /\ Len(old) = Len(calls)
  <2>1. old = [b \in 1 .. Len(calls) |-> old[b]]
    BY <1>7 DEF old
  <2> QED
    BY <1>2, <1>4, <1>7, <2>1, SMTT(20)
<1>9. new.fn = fn /\ new.ssl = ssl /\ new.thread = t
  BY DEF new
<1> QED
  BY <1>1, <1>2, <1>4, <1>6, <1>8, <1>9, SMTT(20)

\* An entry probe: the new call is on top, in its map or in none.
LEMMA EntryStep ==
    ASSUME ProbeInv, NEW t \in Threads, NEW fn \in Calls[t], NEW ssl \in Conns, Probes!Entry(t, fn, ssl)
    PROVE  ProbeInv'
<1>0. PICK c, m0 : c = Len(calls) + 1 /\ m0 = Len(stack[t]) + 1
  OBVIOUS
<1>1. /\ loop[t] = Probes!Idle /\ UNCHANGED <<loop, events>>
      /\ stack' = [stack EXCEPT ![t] = Append(@, c)]
  BY <1>0 DEF Probes!Entry
<1>2. /\ c \in Nat /\ m0 \in Nat /\ stack[t] \in Seq(Nat)
      /\ \A u \in Threads : Len(stack[u]) \in Nat
  BY <1>0, SMTT(20) DEF ProbeInv, ProbeTypeOK
<1>3. /\ stack' \in [Threads -> Seq(Nat)]
      /\ Len(stack'[t]) = m0 /\ stack'[t][m0] = c
      /\ \A h \in 1 .. Len(stack[t]) : stack'[t][h] = stack[t][h]
      /\ \A u \in Threads : u # t => stack'[u] = stack[u]
  BY <1>0, <1>1, <1>2, SMTT(20) DEF ProbeInv, ProbeTypeOK
<1>4. /\ calls' \in Seq(Call) /\ Len(calls') = c
      /\ \A b \in 1 .. Len(calls) :
           /\ calls'[b].fn = calls[b].fn /\ calls'[b].ssl = calls[b].ssl
           /\ calls'[b].thread = calls[b].thread /\ calls'[b].moved = calls[b].moved
      /\ calls'[c].fn = fn /\ calls'[c].ssl = ssl /\ calls'[c].thread = t
  BY <1>0, EntryCalls
<1>5. c = Len(calls) + 1 /\ m0 = Len(stack[t]) + 1 /\ Len(calls) \in Nat
  BY <1>0, SMTT(20) DEF ProbeInv, ProbeTypeOK
<1>6. ProbeTypeOK'
  BY <1>1, <1>3, <1>4 DEF ProbeInv, ProbeTypeOK
<1>7. StacksOwn'
  <2> SUFFICES ASSUME NEW u \in Threads, NEW h \in 1 .. Len(stack'[u])
               PROVE  /\ stack'[u][h] \in 1 .. Len(calls')
                      /\ calls'[stack'[u][h]].thread = u
                      /\ \A j \in 1 .. Len(stack'[u]) : h < j => stack'[u][h] < stack'[u][j]
    BY DEF StacksOwn
  <2>1. CASE u # t
    <3>1. stack'[u] = stack[u] /\ Len(stack[u]) \in Nat
      BY <2>1, <1>2, <1>3
    <3>2. stack[u][h] \in 1 .. Len(calls) /\ calls[stack[u][h]].thread = u
      BY <3>1 DEF ProbeInv, StacksOwn
    <3>3. \A j \in 1 .. Len(stack[u]) : h < j => stack[u][h] < stack[u][j]
      BY <3>1 DEF ProbeInv, StacksOwn
    <3> QED
      BY <3>1, <3>2, <3>3, <1>4, <1>5, SMTT(20)
  <2>2. CASE u = t /\ h = m0
    BY <2>2, <1>2, <1>3, <1>4, <1>5, SMTT(20)
  <2>3. CASE u = t /\ h # m0
    <3>1. h \in 1 .. Len(stack[t])
      BY <2>3, <1>2, <1>3, <1>5, SMTT(20)
    <3>2. stack[t][h] \in 1 .. Len(calls) /\ calls[stack[t][h]].thread = t
      BY <3>1 DEF ProbeInv, StacksOwn
    <3>3. ASSUME NEW j \in 1 .. m0, h < j
          PROVE  stack[t][h] < stack'[t][j]
      <4>1. CASE j = m0
        BY <4>1, <3>2, <1>3, <1>5, SMTT(20)
      <4>2. CASE j # m0
        <5>1. j \in 1 .. Len(stack[t]) /\ stack'[t][j] = stack[t][j]
          BY SMTT(30), <4>2, <1>2, <1>3, <1>5
        <5> QED
          BY <5>1, <3>1, <3>3 DEF ProbeInv, StacksOwn
      <4> QED
        BY <4>1, <4>2
    <3> QED
      BY SMTT(30), <2>3, <3>1, <3>2, <3>3, <1>3, <1>4, <1>5
  <2> QED
    BY <2>1, <2>2, <2>3
<1>8. ASSUME NEW u \in Threads, NEW h \in 1 .. Len(stack[u])
      PROVE  /\ h \in 1 .. Len(stack'[u]) /\ stack'[u][h] = stack[u][h]
             /\ InfoOf(stack[u][h])' = InfoOf(stack[u][h])
             /\ calls'[stack[u][h]].fn = calls[stack[u][h]].fn
  <2>1. stack[u][h] \in 1 .. Len(calls)
    BY DEF ProbeInv, StacksOwn
  <2>2. h \in 1 .. Len(stack'[u]) /\ stack'[u][h] = stack[u][h]
    <3>1. CASE u = t
      BY SMTT(30), <3>1, <1>2, <1>3, <1>5
    <3>2. CASE u # t
      BY <3>2, <1>3
    <3> QED
      BY <3>1, <3>2
  <2>3. calls'[stack[u][h]].ssl = calls[stack[u][h]].ssl /\ calls'[stack[u][h]].fn = calls[stack[u][h]].fn
    BY <2>1, <1>4
  <2> QED
    BY <2>2, <2>3 DEF InfoOf
<1>9. InfoOf(stack[t][m0])' = [ssl_ptr |-> ssl, buf |-> c]
  BY <1>3, <1>4 DEF InfoOf
<1>10. LoopsOwn'
  <2> SUFFICES ASSUME NEW u \in Threads, loop[u] # Probes!Idle
               PROVE  (/\ Len(stack[u]) > 0
                       /\ loop[u].info = InfoOf(Probes!Top(u))
                       /\ loop[u].at + loop[u].remaining <= calls[Probes!Top(u)].moved)'
    BY <1>1 DEF LoopsOwn
  <2>1. u # t /\ stack'[u] = stack[u] /\ Len(stack[u]) > 0 /\ Len(stack[u]) \in Nat
    BY <1>1, <1>2, <1>3 DEF ProbeInv, LoopsOwn
  <2>2. Probes!Top(u) \in 1 .. Len(calls)
    BY <2>1, SMTT(20) DEF Probes!Top, ProbeInv, StacksOwn
  <2>3. calls'[Probes!Top(u)].ssl = calls[Probes!Top(u)].ssl /\ calls'[Probes!Top(u)].moved = calls[Probes!Top(u)].moved
    BY <2>2, <1>4
  <2> QED
    BY <2>1, <2>3, <1>1 DEF ProbeInv, LoopsOwn, InfoOf, Probes!Top
<1>11. Unheard'
  <2>1. \A k \in 1 .. Len(events) : events[k].buf # c
    BY <1>5, SMTT(20) DEF ProbeInv, ChunksOwn
  <2> SUFFICES ASSUME NEW u \in Threads, NEW h \in 1 .. Len(stack'[u]),
                      h < Len(stack'[u]) \/ loop[u] = Probes!Idle,
                      NEW k \in 1 .. Len(events)
               PROVE  events[k].buf # stack'[u][h]
    BY <1>1 DEF Unheard
  <2>2. CASE u = t /\ h = m0
    BY <2>1, <2>2, <1>3
  <2>3. CASE u = t /\ h # m0
    <3>1. h \in 1 .. Len(stack[t]) /\ stack'[t][h] = stack[t][h]
      BY <2>3, <1>2, <1>3, <1>5, SMTT(20)
    <3> QED
      BY <2>3, <3>1, <1>1 DEF ProbeInv, Unheard
  <2>4. CASE u # t
    BY ZenonT(30), <2>4, <1>3 DEF ProbeInv, Unheard
  <2> QED
    BY <2>2, <2>3, <2>4
<1>12. ChunksOwn'
  BY SMTT(30), <1>1, <1>4, <1>5 DEF ProbeInv, ChunksOwn
<1>13. ASSUME NEW u \in Threads, NEW info, NEW kind, Innermost(u, info, kind),
              u # t \/ kind # Kind(fn)
       PROVE  Innermost(u, info, kind)'
  <2>1. PICK h \in 1 .. Len(stack[u]) :
           /\ info = InfoOf(stack[u][h]) /\ Kind(calls[stack[u][h]].fn) = kind
           /\ \A j \in 1 .. Len(stack[u]) : h < j => Kind(calls[stack[u][j]].fn) # kind
    BY <1>13 DEF Innermost
  <2>2. /\ h \in 1 .. Len(stack'[u]) /\ info = InfoOf(stack[u][h])'
        /\ Kind(calls'[stack'[u][h]].fn) = kind
    BY <2>1, <1>8
  <2>3. ASSUME NEW j \in 1 .. Len(stack'[u]), h < j
        PROVE  Kind(calls'[stack'[u][j]].fn) # kind
    <3>1. CASE j \in 1 .. Len(stack[u])
      BY <3>1, <2>1, <2>3, <1>8, ZenonT(60)
    <3>2. CASE j \notin 1 .. Len(stack[u])
      <4>1. u = t /\ j = m0
        BY SMTT(30), <3>2, <1>2, <1>3, <1>5
      <4> QED
        BY <4>1, <1>3, <1>4, <1>13
    <3> QED
      BY <3>1, <3>2
  <2> QED
    BY <2>2, <2>3 DEF Innermost
<1>14. PICK info : info = [ssl_ptr |-> ssl, buf |-> c]
  OBVIOUS
<1>15. Innermost(t, info, Kind(fn))'
  <2>1. m0 \in 1 .. Len(stack'[t]) /\ \A j \in 1 .. Len(stack'[t]) : ~(m0 < j)
    BY <1>2, <1>3, <1>5, SMTT(20)
  <2>2. Kind(calls'[stack'[t][m0]].fn) = Kind(fn) /\ info = InfoOf(stack[t][m0])'
    BY <1>3, <1>4, <1>9, <1>14
  <2> QED
    BY <2>1, <2>2 DEF Innermost
<1>16. ASSUME NEW map, \A u \in DOMAIN map : u \in Threads /\ Innermost(u, map[u], Kind(fn)),
              NEW u \in DOMAIN Probes!Updated(map, t, info)
       PROVE  u \in Threads /\ Innermost(u, Probes!Updated(map, t, info)[u], Kind(fn))'
  <2>1. CASE u = t
    BY <2>1, <1>15, <1>16 DEF Probes!Updated
  <2>2. CASE u # t
    <3>1. u \in DOMAIN map /\ Probes!Updated(map, t, info)[u] = map[u]
      BY <2>2, <1>16 DEF Probes!Updated
    <3> QED
      BY <2>2, <3>1, <1>13, <1>16
  <2> QED
    BY <2>1, <2>2
<1>17. EntriesOwn'
  <2>1. PICK map, mapEx : map = start_map /\ mapEx = start_ex_map
    OBVIOUS
  <2>2. /\ \A u \in DOMAIN map : u \in Threads /\ Innermost(u, map[u], "plain")
        /\ \A u \in DOMAIN mapEx : u \in Threads /\ Innermost(u, mapEx[u], "ex")
    BY <2>1 DEF ProbeInv, EntriesOwn
  <2>3. CASE fn \in Probes!Ex
    <3>1. Kind(fn) = "ex" /\ start_ex_map' = Probes!Updated(mapEx, t, info) /\ start_map' = map
      BY <2>1, <2>3, <1>0, <1>14 DEF Probes!Entry, Kind
    <3> QED
      BY <3>1, <2>2, <1>13, <1>16 DEF EntriesOwn
  <2>4. CASE fn \notin Probes!Ex
    <3>1. Kind(fn) = "plain" /\ start_map' = Probes!Updated(map, t, info) /\ start_ex_map' = mapEx
      BY <2>1, <2>4, <1>0, <1>14 DEF Probes!Entry, Kind
    <3> QED
      BY <3>1, <2>2, <1>13, <1>16 DEF EntriesOwn
  <2> QED
    BY <2>3, <2>4
<1> QED
  BY <1>6, <1>7, <1>10, <1>11, <1>12, <1>17 DEF ProbeInv

\* Nothing but the bytes moved by call c may differ in the calls.
SameBut(c) ==
    /\ calls' \in Seq(Call) /\ Len(calls') = Len(calls)
    /\ \A b \in 1 .. Len(calls) :
         /\ calls'[b].fn = calls[b].fn /\ calls'[b].ssl = calls[b].ssl
         /\ calls'[b].thread = calls[b].thread
         /\ b # c => calls'[b].moved = calls[b].moved

\* A thread's top call is on no other place of a stack.
LEMMA TopOnce ==
    ASSUME ProbeInv, NEW t \in Threads, Len(stack[t]) > 0,
           NEW u \in Threads, NEW h \in 1 .. Len(stack[u]), u # t \/ h < Len(stack[t])
    PROVE  stack[u][h] # Probes!Top(t) /\ Probes!Top(t) \in 1 .. Len(calls) /\ calls[Probes!Top(t)].thread = t
<1>1. Len(stack[t]) \in 1 .. Len(stack[t]) /\ Len(stack[t]) \in Nat
  BY SMTT(20) DEF ProbeInv, ProbeTypeOK
<1>2. Probes!Top(t) \in 1 .. Len(calls) /\ calls[Probes!Top(t)].thread = t
  BY <1>1 DEF ProbeInv, StacksOwn, Probes!Top
<1>3. stack[u][h] \in 1 .. Len(calls) /\ calls[stack[u][h]].thread = u
  BY DEF ProbeInv, StacksOwn
<1>4. ASSUME u = t PROVE stack[u][h] < Probes!Top(t)
  BY <1>1, <1>4 DEF ProbeInv, StacksOwn, Probes!Top
<1> QED
  BY <1>2, <1>3, <1>4, SMTT(20)

\* The end of an exit probe: the entry of the call goes with the call.
LEMMA PopStep ==
    ASSUME ProbeInv, NEW t \in Threads, stack[t] # << >>,
           stack' = [stack EXCEPT ![t] = Probes!Pop(t)],
           loop' = [loop EXCEPT ![t] = Probes!Idle],
           Probes!Cleanup(t, calls[Probes!Top(t)].fn),
           UNCHANGED events,
           calls' = calls \/ (SameBut(Probes!Top(t)) /\ loop[t] = Probes!Idle)
    PROVE  ProbeInv'
<1>0. PICK c, m0 : c = Probes!Top(t) /\ m0 = Len(stack[t])
  OBVIOUS
<1>1. stack[t] \in Seq(Nat) /\ m0 \in Nat /\ m0 > 0 /\ \A u \in Threads : Len(stack[u]) \in Nat
  BY <1>0, SMTT(20) DEF ProbeInv, ProbeTypeOK
<1>2. /\ stack' \in [Threads -> Seq(Nat)]
      /\ Len(stack'[t]) = m0 - 1
      /\ \A h \in 1 .. m0 - 1 : stack'[t][h] = stack[t][h]
      /\ \A u \in Threads : u # t => stack'[u] = stack[u]
  BY <1>0, <1>1, SMTT(20) DEF Probes!Pop, ProbeInv, ProbeTypeOK
<1>3. SameBut(c)
  BY <1>0 DEF SameBut, ProbeInv, ProbeTypeOK
<1>4. ProbeTypeOK'
  BY <1>2, <1>3 DEF ProbeInv, ProbeTypeOK, SameBut
<1>5. ASSUME NEW u \in Threads, NEW h \in 1 .. Len(stack'[u])
      PROVE  /\ h \in 1 .. Len(stack[u]) /\ stack'[u][h] = stack[u][h]
             /\ u # t \/ h < m0
  <2>1. CASE u = t
    BY <2>1, <1>0, <1>1, <1>2, SMTT(20)
  <2>2. CASE u # t
    BY <2>2, <1>2
  <2> QED
    BY <2>1, <2>2
<1>6. StacksOwn'
  <2> SUFFICES ASSUME NEW u \in Threads, NEW h \in 1 .. Len(stack'[u])
               PROVE  /\ stack'[u][h] \in 1 .. Len(calls')
                      /\ calls'[stack'[u][h]].thread = u
                      /\ \A j \in 1 .. Len(stack'[u]) : h < j => stack'[u][h] < stack'[u][j]
    BY DEF StacksOwn
  <2>1. stack[u][h] \in 1 .. Len(calls) /\ calls[stack[u][h]].thread = u
    BY <1>5 DEF ProbeInv, StacksOwn
  <2>2. ASSUME NEW j \in 1 .. Len(stack'[u]), h < j
        PROVE  stack'[u][h] < stack'[u][j]
    BY <2>2, <1>5 DEF ProbeInv, StacksOwn
  <2> QED
    BY <2>1, <2>2, <1>3, <1>5 DEF SameBut
<1>7. LoopsOwn'
  <2> SUFFICES ASSUME NEW u \in Threads, loop'[u] # Probes!Idle
               PROVE  (/\ Len(stack[u]) > 0
                       /\ loop[u].info = InfoOf(Probes!Top(u))
                       /\ loop[u].at + loop[u].remaining <= calls[Probes!Top(u)].moved)'
    BY DEF LoopsOwn
  <2>1. u # t /\ loop'[u] = loop[u] /\ stack'[u] = stack[u] /\ Len(stack[u]) > 0
    BY <1>2 DEF ProbeInv, LoopsOwn, ProbeTypeOK
  <2>2. Len(stack[u]) \in 1 .. Len(stack[u])
    BY <2>1, <1>1, SMTT(20)
  <2>3. Probes!Top(u) # c /\ Probes!Top(u) \in 1 .. Len(calls)
    <3>1. Probes!Top(u) \in 1 .. Len(calls)
      BY <2>2 DEF Probes!Top, ProbeInv, StacksOwn
    <3>2. stack[u][Len(stack[u])] # Probes!Top(t)
      BY <2>1, <2>2, <1>0, <1>1, TopOnce
    <3> QED
      BY <3>1, <3>2, <1>0 DEF Probes!Top
  <2>4. calls'[Probes!Top(u)].ssl = calls[Probes!Top(u)].ssl /\ calls'[Probes!Top(u)].moved = calls[Probes!Top(u)].moved
    BY <2>3, <1>3 DEF SameBut
  <2> QED
    BY <2>1, <2>4 DEF ProbeInv, LoopsOwn, InfoOf, Probes!Top
<1>8. Unheard'
  <2> SUFFICES ASSUME NEW u \in Threads, NEW h \in 1 .. Len(stack'[u]),
                      h < Len(stack'[u]) \/ loop'[u] = Probes!Idle,
                      NEW k \in 1 .. Len(events)
               PROVE  events[k].buf # stack'[u][h]
    BY DEF Unheard
  <2>1. CASE u = t
    BY <2>1, <1>0, <1>5, SMTT(20) DEF ProbeInv, Unheard
  <2>2. CASE u # t
    BY <2>2, <1>2 DEF ProbeInv, Unheard, ProbeTypeOK
  <2> QED
    BY <2>1, <2>2
<1>9. ChunksOwn'
  <2> SUFFICES ASSUME NEW k \in 1 .. Len(events)
               PROVE  LET e == events[k] IN
                      /\ e.buf \in 1 .. Len(calls')
                      /\ e.pid_tgid = calls'[e.buf].thread
                      /\ e.ssl_ptr = calls'[e.buf].ssl
                      /\ e.rw = Probes!Rw(calls'[e.buf].fn)
                      /\ e.at + e.data_len <= calls'[e.buf].moved
    BY DEF ChunksOwn
  <2>1. CASE calls' = calls
    BY <2>1 DEF ProbeInv, ChunksOwn
  <2>2. CASE loop[t] = Probes!Idle
    <3>1. events[k].buf # c
      BY <2>2, <1>0, <1>1, SMTT(20) DEF ProbeInv, Unheard, Probes!Top
    <3> QED
      BY <3>1, <1>3 DEF ProbeInv, ChunksOwn, SameBut
  <2> QED
    BY <2>1, <2>2
<1>10. ASSUME NEW u \in Threads, NEW info, NEW kind, Innermost(u, info, kind),
              u # t \/ kind # Kind(calls[c].fn)
       PROVE  Innermost(u, info, kind)'
  <2>1. PICK h \in 1 .. Len(stack[u]) :
           /\ info = InfoOf(stack[u][h]) /\ Kind(calls[stack[u][h]].fn) = kind
           /\ \A j \in 1 .. Len(stack[u]) : h < j => Kind(calls[stack[u][j]].fn) # kind
    BY <1>10 DEF Innermost
  <2>2. h \in 1 .. Len(stack'[u]) /\ stack'[u][h] = stack[u][h]
    <3>1. CASE u = t
      <4>1. h # m0
        BY <3>1, <2>1, <1>0, <1>10 DEF Probes!Top
      <4> QED
        BY <3>1, <4>1, <1>0, <1>1, <1>2, SMTT(20)
    <3>2. CASE u # t
      BY <3>2, <1>2
    <3> QED
      BY <3>1, <3>2
  <2>3. ASSUME NEW j \in 1 .. Len(stack[u])
        PROVE  /\ calls'[stack[u][j]].fn = calls[stack[u][j]].fn
               /\ calls'[stack[u][j]].ssl = calls[stack[u][j]].ssl
    BY <1>3 DEF SameBut, ProbeInv, StacksOwn
  <2>4. info = InfoOf(stack[u][h])'
    BY <2>1, <2>2, <2>3 DEF InfoOf
  <2>5. \A j \in 1 .. Len(stack'[u]) : h < j => Kind(calls'[stack'[u][j]].fn) # kind
    BY <2>1, <2>3, <1>5, SMTT(20)
  <2>6. Kind(calls'[stack'[u][h]].fn) = kind
    BY <2>1, <2>2, <2>3
  <2> QED
    BY <2>2, <2>4, <2>5, <2>6 DEF Innermost
<1>11. EntriesOwn'
  <2>1. PICK map, mapEx, fn : map = start_map /\ mapEx = start_ex_map /\ fn = calls[c].fn
    OBVIOUS
  <2>2. /\ \A u \in DOMAIN map : u \in Threads /\ Innermost(u, map[u], "plain")
        /\ \A u \in DOMAIN mapEx : u \in Threads /\ Innermost(u, mapEx[u], "ex")
    BY <2>1 DEF ProbeInv, EntriesOwn
  <2>3. ASSUME NEW u, NEW m, u \in DOMAIN Probes!Deleted(m, t)
        PROVE  u \in DOMAIN m /\ u # t /\ Probes!Deleted(m, t)[u] = m[u]
    BY <2>3 DEF Probes!Deleted, Probes!Restrict
  <2>4. CASE fn \in Probes!Ex
    <3>1. Kind(fn) = "ex" /\ start_ex_map' = Probes!Deleted(mapEx, t) /\ start_map' = map
      BY <2>1, <2>4, <1>0 DEF Probes!Cleanup, Kind
    <3> QED
      BY <3>1, <2>1, <2>2, <2>3, <1>10 DEF EntriesOwn
  <2>5. CASE fn \notin Probes!Ex
    <3>1. Kind(fn) = "plain" /\ start_map' = Probes!Deleted(map, t) /\ start_ex_map' = mapEx
      BY <2>1, <2>5, <1>0 DEF Probes!Cleanup, Kind
    <3> QED
      BY <3>1, <2>1, <2>2, <2>3, <1>10 DEF EntriesOwn
  <2> QED
    BY <2>4, <2>5
<1> QED
  BY <1>4, <1>6, <1>7, <1>8, <1>9, <1>11 DEF ProbeInv

\* What an exit probe and a turn without room do to the calls.
LEMMA Replaced ==
    ASSUME NEW S, NEW s \in Seq(S), NEW c \in 1 .. Len(s), NEW v \in S
    PROVE  /\ [s EXCEPT ![c] = v] \in Seq(S) /\ Len([s EXCEPT ![c] = v]) = Len(s)
           /\ [s EXCEPT ![c] = v][c] = v
           /\ \A b \in 1 .. Len(s) : b # c => [s EXCEPT ![c] = v][b] = s[b]
BY SMTT(20)

LEMMA ReplacedCall ==
    ASSUME ProbeInv, NEW c \in 1 .. Len(calls), NEW v \in Call,
           v.fn = calls[c].fn, v.ssl = calls[c].ssl, v.thread = calls[c].thread,
           calls' = [calls EXCEPT ![c] = v]
    PROVE  SameBut(c) /\ calls'[c] = v
<1>1. calls \in Seq(Call)
  BY DEF ProbeInv, ProbeTypeOK
<1>2. /\ calls' \in Seq(Call) /\ Len(calls') = Len(calls) /\ calls'[c] = v
      /\ \A b \in 1 .. Len(calls) : b # c => calls'[b] = calls[b]
  BY <1>1, Replaced, SMTT(20)
<1> QED
  BY <1>2 DEF SameBut

LEMMA ExitCalls ==
    ASSUME ProbeInv, NEW c \in 1 .. Len(calls), NEW moved \in Nat, NEW p \in BOOLEAN,
           calls' = [calls EXCEPT ![c].moved = moved, ![c].lost = p]
    PROVE  SameBut(c) /\ calls'[c].moved = moved
<1>1. calls[c] \in Call
  BY SMTT(20) DEF ProbeInv, ProbeTypeOK
<1>2. PICK v : v = [calls[c] EXCEPT !.moved = moved, !.lost = p]
  OBVIOUS
<1>3. /\ v \in Call /\ v.moved = moved /\ v.fn = calls[c].fn
      /\ v.ssl = calls[c].ssl /\ v.thread = calls[c].thread
  BY <1>1, <1>2 DEF Call
<1>4. calls' = [calls EXCEPT ![c] = v]
  BY <1>2 DEF ProbeInv, ProbeTypeOK
<1> QED
  BY <1>3, <1>4, ReplacedCall

LEMMA FullCalls ==
    ASSUME ProbeInv, NEW c \in 1 .. Len(calls), calls' = [calls EXCEPT ![c].full = @ + 1]
    PROVE  SameBut(c) /\ calls'[c].moved = calls[c].moved
<1>1. calls[c] \in Call
  BY SMTT(20) DEF ProbeInv, ProbeTypeOK
<1>2. PICK v : v = [calls[c] EXCEPT !.full = @ + 1]
  OBVIOUS
<1>3. /\ v \in Call /\ v.moved = calls[c].moved /\ v.fn = calls[c].fn
      /\ v.ssl = calls[c].ssl /\ v.thread = calls[c].thread
  BY <1>1, <1>2, SMTT(20) DEF Call
<1>4. calls' = [calls EXCEPT ![c] = v]
  BY <1>2 DEF ProbeInv, ProbeTypeOK
<1> QED
  BY <1>3, <1>4, ReplacedCall

\* The entries depend on the stacks, and on what SameBut keeps.
LEMMA EntriesKept ==
    ASSUME ProbeInv, NEW c, SameBut(c), UNCHANGED <<stack, start_map, start_ex_map>>
    PROVE  StacksOwn' /\ EntriesOwn'
<1>1. ASSUME NEW u \in Threads, NEW h \in 1 .. Len(stack[u])
      PROVE  /\ stack[u][h] \in 1 .. Len(calls')
             /\ calls'[stack[u][h]].fn = calls[stack[u][h]].fn
             /\ calls'[stack[u][h]].ssl = calls[stack[u][h]].ssl
             /\ calls'[stack[u][h]].thread = calls[stack[u][h]].thread
  BY DEF ProbeInv, StacksOwn, SameBut
<1>2. StacksOwn'
  BY SMTT(30), <1>1 DEF ProbeInv, StacksOwn
<1>3. ASSUME NEW u \in Threads, NEW info, NEW kind, Innermost(u, info, kind)
      PROVE  Innermost(u, info, kind)'
  <2>1. PICK h \in 1 .. Len(stack[u]) :
           /\ info = InfoOf(stack[u][h]) /\ Kind(calls[stack[u][h]].fn) = kind
           /\ \A j \in 1 .. Len(stack[u]) : h < j => Kind(calls[stack[u][j]].fn) # kind
    BY <1>3 DEF Innermost
  <2>2. info = InfoOf(stack[u][h])'
    BY <2>1, <1>1 DEF InfoOf
  <2> QED
    BY <2>1, <2>2, <1>1, SMTT(20) DEF Innermost
<1>4. EntriesOwn'
  <2>1. PICK map, mapEx : map = start_map /\ mapEx = start_ex_map
    OBVIOUS
  <2>2. /\ \A u \in DOMAIN map : u \in Threads /\ Innermost(u, map[u], "plain")
        /\ \A u \in DOMAIN mapEx : u \in Threads /\ Innermost(u, mapEx[u], "ex")
    BY <2>1 DEF ProbeInv, EntriesOwn
  <2> QED
    BY <2>1, <2>2, <1>3 DEF EntriesOwn
<1> QED
  BY <1>2, <1>4

\* The exit probes, up to emit_ssl_events.
LEMMA ExitStep ==
    ASSUME Probes!Bounds, ProbeInv, NEW t \in Threads, NEW moved \in Moves, Probes!Exit(t, moved)
    PROVE  ProbeInv'
<1>0. PICK c, fn, map :
         /\ c = Probes!Top(t) /\ fn = calls[c].fn
         /\ map = IF fn \in Probes!Ex THEN start_ex_map ELSE start_map
  OBVIOUS
<1>1. PICK known \in {moved, 0} :
         /\ calls' = [calls EXCEPT ![c].moved = moved, ![c].lost = @ \/ known # moved]
         /\ IF t \in DOMAIN map /\ moved > 0
              THEN /\ loop' = [loop EXCEPT ![t] =
                         [turns |-> 0, info |-> map[t], at |-> 0,
                          remaining |-> Probes!Min({known, MAX_LOOP * MAX_BODY_SIZE})]]
                   /\ UNCHANGED <<start_map, start_ex_map, stack>>
              ELSE /\ Probes!Cleanup(t, fn)
                   /\ stack' = [stack EXCEPT ![t] = Probes!Pop(t)]
                   /\ UNCHANGED loop
  BY <1>0 DEF Probes!Exit
<1>2. stack[t] # << >> /\ loop[t] = Probes!Idle /\ UNCHANGED events
  BY DEF Probes!Exit
<1>3. moved \in Nat /\ known \in Nat /\ known <= moved /\ MAX_LOOP * MAX_BODY_SIZE \in Nat
  BY <1>1, SMTT(20) DEF Probes!Bounds
<1>4. /\ stack[t] \in Seq(Nat) /\ Len(stack[t]) \in Nat /\ Len(stack[t]) > 0
      /\ Len(stack[t]) \in 1 .. Len(stack[t])
  BY <1>2, SMTT(20) DEF ProbeInv, ProbeTypeOK
<1>5. c \in 1 .. Len(calls) /\ c = stack[t][Len(stack[t])]
  BY <1>0, <1>4 DEF ProbeInv, StacksOwn, Probes!Top
<1>6. SameBut(c) /\ calls'[c].moved = moved
  <2>1. PICK p \in BOOLEAN : p = (calls[c].lost \/ known # moved)
    OBVIOUS
  <2>2. calls' = [calls EXCEPT ![c].moved = moved, ![c].lost = p]
    <3>1. calls[c] \in Call
      BY <1>5, SMTT(20) DEF ProbeInv, ProbeTypeOK
    <3> QED
      BY <1>1, <2>1, <3>1, <1>5 DEF ProbeInv, ProbeTypeOK, Call
  <2> QED
    BY <2>2, <1>3, <1>5, ExitCalls
<1>7. CASE ~(t \in DOMAIN map /\ moved > 0)
  <2>1. /\ Probes!Cleanup(t, calls[Probes!Top(t)].fn) /\ stack' = [stack EXCEPT ![t] = Probes!Pop(t)]
        /\ loop' = [loop EXCEPT ![t] = Probes!Idle]
    BY <1>0, <1>1, <1>2, <1>7 DEF ProbeInv, ProbeTypeOK
  <2> QED
    BY <2>1, <1>0, <1>2, <1>6, PopStep
<1>8. CASE t \in DOMAIN map /\ moved > 0
  <2>1. PICK r : r = Probes!Min({known, MAX_LOOP * MAX_BODY_SIZE})
    OBVIOUS
  <2>2. r \in Nat /\ r <= moved
    BY <2>1, <1>3, MinFacts, SMTT(20)
  <2>3. /\ loop' = [loop EXCEPT ![t] = [turns |-> 0, info |-> map[t], at |-> 0, remaining |-> r]]
        /\ UNCHANGED <<start_map, start_ex_map, stack>>
    BY <1>1, <1>8, <2>1
  <2>4. map[t] = InfoOf(c)
    <3>1. Innermost(t, map[t], Kind(fn))
      BY <1>0, <1>8 DEF ProbeInv, EntriesOwn, Kind
    <3>2. PICK h \in 1 .. Len(stack[t]) :
             /\ map[t] = InfoOf(stack[t][h])
             /\ \A j \in 1 .. Len(stack[t]) : h < j => Kind(calls[stack[t][j]].fn) # Kind(fn)
      BY <3>1 DEF Innermost
    <3>3. h = Len(stack[t])
      BY <3>2, <1>0, <1>4, <1>5, SMTT(20)
    <3> QED
      BY <3>2, <3>3, <1>5
  <2>5. [turns |-> 0, info |-> map[t], at |-> 0, remaining |-> r] \in Turning
    <3>1. calls[c] \in Call /\ c \in Nat
      BY <1>5, SMTT(20) DEF ProbeInv, ProbeTypeOK
    <3>2. map[t] \in Info
      BY <3>1, <2>4, SMTT(20) DEF InfoOf, Info, Call
    <3> QED
      BY <3>2, <2>2 DEF Turning
  <2>6. ProbeTypeOK'
    BY <2>3, <2>5, <1>2, <1>6 DEF ProbeInv, ProbeTypeOK, SameBut
  <2>7. StacksOwn' /\ EntriesOwn'
    BY <2>3, <1>6, EntriesKept
  <2>8. LoopsOwn'
    <3> SUFFICES ASSUME NEW u \in Threads, loop'[u] # Probes!Idle
                 PROVE  (/\ Len(stack[u]) > 0
                         /\ loop[u].info = InfoOf(Probes!Top(u))
                         /\ loop[u].at + loop[u].remaining <= calls[Probes!Top(u)].moved)'
      BY DEF LoopsOwn
    <3>1. CASE u = t
      <4>1. loop'[t] = [turns |-> 0, info |-> map[t], at |-> 0, remaining |-> r]
        BY <2>3 DEF ProbeInv, ProbeTypeOK
      <4>2. Probes!Top(t)' = c /\ calls'[c].ssl = calls[c].ssl
        BY <2>3, <1>0, <1>5, <1>6 DEF Probes!Top, SameBut
      <4> QED
        BY <3>1, <4>1, <4>2, <2>2, <2>3, <2>4, <1>4, <1>6, SMTT(20) DEF InfoOf
    <3>2. CASE u # t
      <4>1. loop'[u] = loop[u] /\ Len(stack[u]) > 0 /\ Len(stack[u]) \in 1 .. Len(stack[u])
        BY SMTT(30), <3>2, <2>3 DEF ProbeInv, ProbeTypeOK, LoopsOwn
      <4>2. stack[u][Len(stack[u])] # Probes!Top(t)
        BY <3>2, <4>1, <1>4, TopOnce
      <4>3. Probes!Top(u) # c /\ Probes!Top(u) \in 1 .. Len(calls)
        BY <4>1, <4>2, <1>0 DEF Probes!Top, ProbeInv, StacksOwn
      <4>4. calls'[Probes!Top(u)].ssl = calls[Probes!Top(u)].ssl /\ calls'[Probes!Top(u)].moved = calls[Probes!Top(u)].moved
        BY <4>3, <1>6 DEF SameBut
      <4> QED
        BY <4>1, <4>4, <2>3 DEF ProbeInv, LoopsOwn, InfoOf, Probes!Top
    <3> QED
      BY <3>1, <3>2
  <2>9. Unheard'
    BY <2>3, <1>2 DEF ProbeInv, ProbeTypeOK, Unheard
  <2>10. ChunksOwn'
    <3>1. \A k \in 1 .. Len(events) : events[k].buf # c
      BY <1>2, <1>4, <1>5 DEF ProbeInv, Unheard
    <3> QED
      BY <3>1, <1>2, <1>6 DEF ProbeInv, ChunksOwn, SameBut
  <2> QED
    BY <2>6, <2>7, <2>8, <2>9, <2>10 DEF ProbeInv
<1> QED
  BY <1>7, <1>8

LEMMA EndStep ==
    ASSUME ProbeInv, NEW t \in Threads, Probes!LoopEnds(t)
    PROVE  ProbeInv'
<1>1. stack[t] # << >>
  BY SMTT(20) DEF Probes!LoopEnds, ProbeInv, LoopsOwn, ProbeTypeOK
<1> QED
  BY <1>1, PopStep DEF Probes!LoopEnds

\* A turn of the loop: nothing but the top call of t and its chunks change.
LEMMA TurnStep ==
    ASSUME Probes!Bounds, ProbeInv, NEW t \in Threads, Probes!LoopTurn(t)
    PROVE  ProbeInv'
<1>0. PICK c, l, length :
         c = Probes!Top(t) /\ l = loop[t] /\ length = Probes!Min({l.remaining, MAX_BODY_SIZE})
  OBVIOUS
<1>1. l # Probes!Idle /\ UNCHANGED <<start_map, start_ex_map, stack>>
  BY <1>0 DEF Probes!LoopTurn
<1>2. l \in Turning
  BY <1>0, <1>1 DEF ProbeInv, ProbeTypeOK
<1>3. /\ l.turns \in Nat /\ l.at \in Nat /\ l.remaining \in Nat
      /\ l.info \in Info
  BY <1>2 DEF Turning
<1>4. length \in Nat \ {0} /\ length <= l.remaining
  <2>1. l.remaining \in Nat \ {0} /\ MAX_BODY_SIZE \in Nat \ {0}
    BY <1>0, <1>3, SMTT(20) DEF Probes!Bounds, Probes!LoopTurn
  <2> QED
    BY <2>1, <1>0, MinFacts
<1>5. /\ Len(stack[t]) > 0 /\ l.info = InfoOf(c) /\ l.at + l.remaining <= calls[c].moved
      /\ Len(stack[t]) \in 1 .. Len(stack[t])
  BY <1>0, <1>1, SMTT(20) DEF ProbeInv, LoopsOwn, ProbeTypeOK
<1>6. c \in 1 .. Len(calls) /\ calls[c].thread = t /\ calls[c] \in Call
  BY <1>0, <1>5, SMTT(20) DEF ProbeInv, StacksOwn, ProbeTypeOK, Probes!Top
\* The next state of the loop is within the same call.
<1>8. ASSUME NEW v \in Turning, loop' = [loop EXCEPT ![t] = v], v.info = l.info,
             v.at + v.remaining = l.at + l.remaining,
             SameBut(c), calls'[c].moved = calls[c].moved
      PROVE  /\ loop' \in [Threads -> Turning \cup {Probes!Idle}] /\ LoopsOwn'
             /\ \A u \in Threads : loop'[u] = Probes!Idle => loop[u] = Probes!Idle
  <2>1. loop' \in [Threads -> Turning \cup {Probes!Idle}] /\ loop'[t] = v
    BY <1>8 DEF ProbeInv, ProbeTypeOK
  <2>2. ASSUME NEW u \in Threads, loop'[u] # Probes!Idle
        PROVE  (/\ Len(stack[u]) > 0
                /\ loop[u].info = InfoOf(Probes!Top(u))
                /\ loop[u].at + loop[u].remaining <= calls[Probes!Top(u)].moved)'
    <3>1. loop[u] # Probes!Idle /\ loop'[u].info = loop[u].info
      BY <2>1, <2>2, <1>0, <1>1, <1>8 DEF ProbeInv, ProbeTypeOK
    <3>2. loop'[u].at + loop'[u].remaining = loop[u].at + loop[u].remaining
      BY <2>1, <1>0, <1>8 DEF ProbeInv, ProbeTypeOK
    <3>3. Len(stack[u]) \in 1 .. Len(stack[u])
      BY <3>1, SMTT(20) DEF ProbeInv, LoopsOwn, ProbeTypeOK
    <3>4. Probes!Top(u) \in 1 .. Len(calls)
      BY <3>3 DEF ProbeInv, StacksOwn, Probes!Top
    <3>5. calls'[Probes!Top(u)].ssl = calls[Probes!Top(u)].ssl /\ calls'[Probes!Top(u)].moved = calls[Probes!Top(u)].moved
      BY <3>4, <1>8 DEF SameBut
    <3> QED
      BY <3>1, <3>2, <3>5, <1>1 DEF ProbeInv, LoopsOwn, InfoOf, Probes!Top
  <2>3. \A u \in Threads : loop'[u] = Probes!Idle => loop[u] = Probes!Idle
    <3>1. v # Probes!Idle
      BY <1>8, SMTT(20) DEF Turning, Probes!Idle
    <3> QED
      BY <2>1, <3>1, <1>8 DEF ProbeInv, ProbeTypeOK
  <2> QED
    BY <2>1, <2>2, <2>3 DEF LoopsOwn
<1>9. CASE /\ Probes!NoRoom(t) /\ UNCHANGED events
           /\ calls' = [calls EXCEPT ![c].full = @ + 1]
  <2>1. SameBut(c) /\ calls'[c].moved = calls[c].moved
    BY <1>6, <1>9, FullCalls
  <2>2. PICK v : v = [l EXCEPT !.turns = @ + 1]
    OBVIOUS
  <2>3. v \in Turning /\ v.info = l.info /\ v.at = l.at /\ v.remaining = l.remaining
    BY <2>2, <1>2, SMTT(20) DEF Turning
  <2>4. loop' = [loop EXCEPT ![t] = v]
    BY <2>2, <1>0, <1>9 DEF Probes!NoRoom, ProbeInv, ProbeTypeOK
  <2>5. /\ loop' \in [Threads -> Turning \cup {Probes!Idle}] /\ LoopsOwn'
        /\ \A u \in Threads : loop'[u] = Probes!Idle => loop[u] = Probes!Idle
    BY <2>1, <2>3, <2>4, <1>8
  <2>6. StacksOwn' /\ EntriesOwn'
    BY <2>1, <1>1, EntriesKept
  <2>7. ProbeTypeOK' /\ Unheard'
    BY <2>1, <2>5, <1>1, <1>9 DEF ProbeInv, ProbeTypeOK, Unheard, SameBut
  <2>8. ChunksOwn'
    BY <2>1, <1>9, SMTT(20) DEF ProbeInv, ChunksOwn, SameBut
  <2> QED
    BY <2>5, <2>6, <2>7, <2>8 DEF ProbeInv
<1>10. PICK e : e = [pid_tgid |-> t, ssl_ptr |-> l.info.ssl_ptr, rw |-> Probes!Rw(calls[c].fn),
                     buf |-> l.info.buf, at |-> l.at, data_len |-> length]
  OBVIOUS
<1>11. /\ e \in Chunk /\ e.buf = c /\ e.pid_tgid = t /\ e.ssl_ptr = calls[c].ssl
       /\ e.rw = Probes!Rw(calls[c].fn) /\ e.at + e.data_len <= calls[c].moved
  <2>1. l.info.ssl_ptr = calls[c].ssl /\ l.info.buf = c /\ calls[c].ssl \in Conns
    <3>1. l.info.ssl_ptr = calls[c].ssl /\ l.info.buf = c
      BY <1>5, SMTT(20) DEF InfoOf
    <3>2. calls[c].ssl \in Conns
      BY <1>6 DEF Call
    <3> QED
      BY <3>1, <3>2
  <2>2. Probes!Rw(calls[c].fn) \in {2, 4} /\ c \in Nat
    BY SMTT(30), <1>6 DEF Probes!Rw
  <2>3. calls[c].moved \in Nat
    BY <1>6 DEF Call
  <2>4. l.at + length <= calls[c].moved
    BY <2>3, <1>3, <1>4, <1>5, SMTT(20)
  <2> QED
    BY <2>1, <2>2, <2>4, <1>3, <1>4, <1>10 DEF Chunk
<1>12. CASE /\ events' = Append(events, e) /\ UNCHANGED calls
            /\ loop' = [loop EXCEPT ![t].turns = @ + 1, ![t].at = @ + length,
                                    ![t].remaining = @ - length]
  <2>1. SameBut(c) /\ calls'[c].moved = calls[c].moved
    BY <1>12 DEF SameBut, ProbeInv, ProbeTypeOK
  <2>2. PICK v : v = [l EXCEPT !.turns = @ + 1, !.at = @ + length, !.remaining = @ - length]
    OBVIOUS
  <2>3. v \in Turning /\ v.info = l.info /\ v.at + v.remaining = l.at + l.remaining
    <3>1. v = [turns |-> l.turns + 1, info |-> l.info, at |-> l.at + length,
               remaining |-> l.remaining - length]
      BY <2>2, <1>2 DEF Turning
    <3>2. l.remaining - length \in Nat /\ l.at + length \in Nat /\ l.turns + 1 \in Nat
      BY <1>3, <1>4, SMTT(20)
    <3>3. v \in Turning
      BY <3>1, <3>2, <1>3 DEF Turning
    <3>4. v.at + v.remaining = l.at + l.remaining
      BY <3>1, <1>3, <1>4, SMTT(20)
    <3> QED
      BY <3>1, <3>3, <3>4
  <2>4. loop' = [loop EXCEPT ![t] = v]
    BY <2>2, <1>0, <1>2, <1>12 DEF ProbeInv, ProbeTypeOK, Turning
  <2>5. /\ loop' \in [Threads -> Turning \cup {Probes!Idle}] /\ LoopsOwn'
        /\ \A u \in Threads : loop'[u] = Probes!Idle => loop[u] = Probes!Idle
    BY <2>1, <2>3, <2>4, <1>8
  <2>6. StacksOwn' /\ EntriesOwn'
    BY <2>1, <1>1, EntriesKept
  <2>7. /\ events' \in Seq(Chunk) /\ Len(events') = Len(events) + 1 /\ Len(events) \in Nat
        /\ events'[Len(events) + 1] = e
        /\ \A k \in 1 .. Len(events) : events'[k] = events[k]
    BY <1>11, <1>12, SMTT(20) DEF ProbeInv, ProbeTypeOK
  <2>8. ProbeTypeOK'
    BY <2>1, <2>5, <2>7, <1>1 DEF ProbeInv, ProbeTypeOK, SameBut
  <2>9. Unheard'
    <3> SUFFICES ASSUME NEW u \in Threads, NEW h \in 1 .. Len(stack[u]),
                        h < Len(stack[u]) \/ loop'[u] = Probes!Idle,
                        NEW k \in 1 .. Len(events')
                 PROVE  events'[k].buf # stack[u][h]
      BY <1>1 DEF Unheard
    <3>1. loop'[t] # Probes!Idle
      BY <2>5, <1>0, <1>1
    <3>2. u # t \/ h < Len(stack[t])
      BY <3>1
    <3>3. stack[u][h] # c
      BY <3>2, <1>0, <1>5, TopOnce
    <3>4. CASE k = Len(events) + 1
      BY <3>3, <3>4, <2>7, <1>11
    <3>5. CASE k # Len(events) + 1
      BY <3>5, <2>5, <2>7, SMTT(20) DEF ProbeInv, Unheard
    <3> QED
      BY <3>4, <3>5
  <2>10. ChunksOwn'
    <3> SUFFICES ASSUME NEW k \in 1 .. Len(events')
                 PROVE  LET d == events'[k] IN
                        /\ d.buf \in 1 .. Len(calls)
                        /\ d.pid_tgid = calls[d.buf].thread
                        /\ d.ssl_ptr = calls[d.buf].ssl
                        /\ d.rw = Probes!Rw(calls[d.buf].fn)
                        /\ d.at + d.data_len <= calls[d.buf].moved
      BY <1>12 DEF ChunksOwn
    <3>1. CASE k = Len(events) + 1
      BY <3>1, <2>7, <1>6, <1>11
    <3>2. CASE k # Len(events) + 1
      <4>1. k \in 1 .. Len(events) /\ events'[k] = events[k]
        BY <3>2, <2>7, SMTT(20)
      <4> QED
        BY <4>1, ZenonT(30) DEF ProbeInv, ChunksOwn
    <3> QED
      BY <3>1, <3>2
  <2> QED
    BY <2>5, <2>6, <2>8, <2>9, <2>10 DEF ProbeInv
<1> QED
  BY <1>0, <1>9, <1>10, <1>12 DEF Probes!LoopTurn

LEMMA NextInv == ASSUME Probes!Bounds PROVE ProbeInv /\ [Probes!Next]_(Probes!vars) => ProbeInv'
<1> SUFFICES ASSUME ProbeInv, [Probes!Next]_(Probes!vars) PROVE ProbeInv'
  OBVIOUS
<1>1. CASE Probes!ReadBuffer \/ UNCHANGED Probes!vars
  BY <1>1, ReadStep
<1>2. ASSUME NEW t \in Threads, Probes!ThreadStep(t) PROVE ProbeInv'
  BY <1>2, EntryStep, ExitStep, TurnStep, EndStep DEF Probes!ThreadStep
<1> QED
  BY <1>1, <1>2 DEF Probes!Next

-----------------------------------------------------------------------------
(***************************************************************************)
(* The composition.  A step of SSLCapture is a step of the probes or       *)
(* leaves their state alone, and what handle gives to the record has data. *)
(***************************************************************************)
LEMMA ComposedStep == [CaptureNext]_captureVars => [Probes!Next]_(Probes!vars)
BY DEF CaptureNext, captureVars, probeVars, Traced, Handle, ParseStep, Probes!Next, Probes!vars

CaptureInv == IInv /\ ProbeInv /\ taken \in Nat

LEMMA CaptureStart == CaptureInit => CaptureInv
BY InitIInv, InitInv, SMTT(20) DEF CaptureInit, CaptureInv, Probes!Init

LEMMA HandleKeeps == CaptureInv /\ Handle => IInv' /\ stamp' >= stamp /\ taken' \in Nat
<1> SUFFICES ASSUME CaptureInv, Handle PROVE IInv' /\ stamp' >= stamp /\ taken' \in Nat
  OBVIOUS
<1>0. stamp \in Nat /\ IInv /\ taken \in Nat
  BY Offsets, SMTT(20) DEF CaptureInv, IInv, TypeOK
<1>1. taken < Len(events) /\ taken' = taken + 1
  BY DEF Handle, Probes!ReadBuffer
<1>2. PICK len : len = events[taken + 1].data_len
  OBVIOUS
<1>3. len \in Nat \ {0}
  <2>1. events[taken + 1] \in Chunk
    BY <1>0, <1>1, SMTT(20) DEF CaptureInv, ProbeInv, ProbeTypeOK
  <2> QED
    BY <2>1, <1>2 DEF Chunk
<1>4. CASE AppendBuffer(len)
  <2>1. stamp' = stamp
    BY <1>4 DEF AppendBuffer
  <2> QED
    BY <2>1, <1>0, <1>1, <1>3, <1>4, AppendKeeps, SMTT(20)
<1>5. CASE UNCHANGED vars
  <2>1. [Next]_vars
    BY <1>5
  <2> QED
    BY <2>1, <1>0, <1>1, Inductive, SMTT(20)
<1> QED
  BY <1>2, <1>4, <1>5 DEF Handle

LEMMA CaptureStep ==
    CaptureInv /\ [CaptureNext]_captureVars => CaptureInv' /\ stamp' >= stamp
<1> SUFFICES ASSUME CaptureInv, [CaptureNext]_captureVars
             PROVE  CaptureInv' /\ stamp' >= stamp
  OBVIOUS
<1>1. ProbeInv'
  BY ComposedStep, NextInv, ProbeAssumption DEF CaptureInv
<1>2. IInv /\ taken \in Nat
  BY DEF CaptureInv
<1>3. CASE Handle
  BY <1>1, <1>3, HandleKeeps DEF CaptureInv
<1>4. ASSUME [Next]_vars, taken' = taken PROVE CaptureInv' /\ stamp' >= stamp
  BY <1>1, <1>2, <1>4, Inductive DEF CaptureInv
<1>5. ASSUME NEW t \in Threads, Traced(t) PROVE [Next]_vars /\ taken' = taken
  BY <1>5 DEF Traced, Probes!ThreadStep, Probes!Entry, Probes!Exit, Probes!LoopTurn, Probes!LoopEnds
<1>6. CASE ParseStep
  BY <1>4, <1>6 DEF ParseStep, Next, probeVars
<1>7. CASE UNCHANGED captureVars
  BY <1>4, <1>7 DEF captureVars, probeVars
<1> QED
  BY <1>3, <1>4, <1>5, <1>6, <1>7 DEF CaptureNext

LEMMA Captured == CaptureSpec => []CaptureInv
BY CaptureStart, CaptureStep, PTL DEF CaptureSpec

(***************************************************************************)
(* Whatever handle and the parser do meanwhile, the chunks on their way to *)
(* the store are of the calls they name.                                   *)
(***************************************************************************)
THEOREM CapturedChunks == CaptureSpec => []ChunksOfTheirCall
<1>1. CaptureInv => ChunksOfTheirCall
  BY Chunks DEF CaptureInv, ChunksOfTheirCall
<1> QED
  BY <1>1, Captured, PTL

(***************************************************************************)
(* With the buffers that the probes really send, of the sizes that         *)
(* emit_ssl_events cuts and in the order it submits them, the bytes in     *)
(* Stream always have a buffer in Info: no chunk is empty.                 *)
(***************************************************************************)
THEOREM CapturedCoverage == CaptureSpec => []InfoCoversStream
<1>1. CaptureInv => InfoCoversStream
  BY Coverage DEF CaptureInv
<1> QED
  BY <1>1, Captured, PTL

(***************************************************************************)
(* A message cut from captured chunks is never stamped with a chunk that   *)
(* was captured after its last byte.                                       *)
(***************************************************************************)
THEOREM CapturedNotAhead == CaptureSpec => []StampNotAhead
<1>1. CaptureInv => StampNotAhead
  BY DEF CaptureInv, IInv, StampInv, StampNotAhead
<1> QED
  BY <1>1, Captured, PTL

(***************************************************************************)
(* The timestamps of the messages cut from captured chunks never go back.  *)
(***************************************************************************)
THEOREM CapturedMonotone == CaptureSpec => StampsMonotone
<1>1. CaptureInv /\ [CaptureNext]_captureVars => [stamp' >= stamp]_vars
  BY CaptureStep
<1> QED
  BY <1>1, Captured, PTL DEF CaptureSpec, StampsMonotone
=============================================================================
