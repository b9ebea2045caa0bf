----------------------------- MODULE SSLRecord -----------------------------
(***************************************************************************)
(* The byte accounting of one SSLRecord in tls/protocol.go: Stream, the    *)
(* captured bytes not yet parsed, and Info, the length and timestamp of    *)
(* each captured buffer.  consumeRecord takes the bytes of a message off   *)
(* Stream, walks Info to find the buffer the message ended in, and returns *)
(* that buffer's timestamp.                                                *)
(*                                                                         *)
(* Bytes are offsets since the record was created.  Stream holds the bytes *)
(* pos+1 .. End(Len(ends)), Info the buffers lo .. Len(ends).  Each turn   *)
(* of the loop in consumeRecord is a step; reqMu or respMu keeps Append    *)
(* out while it runs.                                                      *)
(***************************************************************************)
EXTENDS Integers, Sequences

CONSTANTS MaxBuffers,  \* bound on the number of buffers captured
          MaxLen       \* bound on the length of a buffer

ASSUME SSLRecordAssumption == MaxBuffers \in Nat \ {0} /\ MaxLen \in Nat \ {0}

VARIABLES
    ends,   \* ends[i]: offset of the last byte of the i-th buffer
    pos,    \* bytes taken off the front of Stream
    lo,     \* the first buffer in Info
    pc,     \* "idle", or "walk" inside the loop of consumeRecord
    i,      \* the loop's position in Info
    left,   \* the loop's variable length
    last,   \* the loop's variable last
    stamp   \* the buffer whose timestamp was returned last, 0 at first

vars == <<ends, pos, lo, pc, i, left, last, stamp>>
loopVars == <<i, left, last>>

n == Len(ends)

End(b) == IF b = 0 THEN 0 ELSE ends[b]

DataLen(b) == End(b) - End(b - 1)

\* len(record.Stream)
StreamLen == End(n) - pos

Init ==
    /\ ends = << >>
    /\ pos = 0
    /\ lo = 1
    /\ pc = "idle"
    /\ i = 1 /\ left = 0 /\ last = 1
    /\ stamp = 0

\* SSLRecord.Append: SSL probes only submit buffers with data.
AppendBuffer(len) ==
    /\ pc = "idle"
    /\ n < MaxBuffers
    /\ ends' = Append(ends, End(n) + len)
    /\ UNCHANGED <<pos, lo, pc, loopVars, stamp>>

\* detectProtocol cuts a Postgres startup message off Stream and leaves Info.
\* It runs before anything else is consumed: the protocol is cached then.
DetectStartup(len) ==
    /\ pc = "idle"
    /\ pos = 0
    /\ len <= StreamLen
    /\ pos' = len
    /\ UNCHANGED <<ends, lo, pc, loopVars, stamp>>

\* consumeRecord up to its loop.  Without Info it returns at once and takes
\* nothing; a message that ends with Stream clears both.
consumeRecord(consumed) ==
    /\ pc = "idle"
    /\ StreamLen > 0
    /\ IF lo > n THEN UNCHANGED vars
       ELSE IF consumed >= StreamLen
         THEN /\ pos' = End(n)
              /\ lo' = n + 1
              /\ stamp' = n
              /\ UNCHANGED <<ends, pc, loopVars>>
         ELSE /\ pos' = pos + consumed
              /\ pc' = "walk"
              /\ i' = lo /\ left' = consumed /\ last' = lo
              /\ UNCHANGED <<ends, lo, stamp>>

\* Mutants: the buffer the message ended in is dropped with those before it;
\* the timestamp is the next buffer's; it is the first buffer's.
ReturnDropsPartial(index, lastBuffer) ==
    lo' = index + 1 /\ stamp' = lastBuffer /\ pc' = "idle"

ReturnStampsNext(index, lastBuffer) ==
    lo' = index /\ stamp' = lastBuffer + 1 /\ pc' = "idle"

ReturnStampsFirst(index, lastBuffer) ==
    lo' = index /\ stamp' = 1 /\ pc' = "idle"

\* Info = Info[index:], and the timestamp of Info[lastBuffer].
Return(index, lastBuffer) ==
    /\ lo' = index
    /\ stamp' = lastBuffer
    /\ pc' = "idle"

\* One turn of the loop over Info.
Walk ==
    /\ pc = "walk"
    /\ \/ /\ left = 0 \/ left < DataLen(i)
          /\ Return(i, last)
          /\ UNCHANGED loopVars
       \/ /\ left # 0 /\ left >= DataLen(i)
          /\ left' = left - DataLen(i)
          /\ last' = i
          /\ i' = i + 1
          /\ IF i < n THEN UNCHANGED <<lo, pc, stamp>>
             ELSE Return(IF left' = 0 THEN n + 1 ELSE n, last')
    /\ UNCHANGED <<ends, pos>>

Lengths == 1 .. MaxBuffers * MaxLen

Next ==
    \/ \E len \in 1 .. MaxLen : AppendBuffer(len)
    \/ \E len \in Lengths : DetectStartup(len)
    \/ \E len \in Lengths : consumeRecord(len)
    \/ Walk

Spec == Init /\ [][Next]_vars

-----------------------------------------------------------------------------
TypeOK ==
    /\ ends \in Seq(Nat)
    /\ pos \in Nat /\ pos <= End(n)
    /\ lo \in 1 .. n + 1
    /\ pc \in {"idle", "walk"}
    /\ i \in Nat \ {0} /\ left \in Nat /\ last \in Nat \ {0}
    /\ stamp \in 0 .. n

(***************************************************************************)
(* Whatever messages were cut from the buffers, Info still covers Stream:  *)
(* bytes that wait in Stream have a buffer in Info.  consumeRecord returns *)
(* without shrinking Stream when Info is empty, and the loops of           *)
(* parseRequest and parseResponse would then parse the same bytes forever. *)
(***************************************************************************)
InfoCoversStream == pc = "idle" /\ StreamLen > 0 => lo <= n

(***************************************************************************)
(* A message is never given the timestamp of a buffer that was captured    *)
(* after its last byte, although Info keeps a buffer that a message ended  *)
(* inside of and so runs ahead of Stream.                                  *)
(***************************************************************************)
StampNotAhead == pc = "idle" /\ stamp > 0 => End(stamp - 1) < pos

(***************************************************************************)
(* The timestamps of the messages of a connection never go back.           *)
(***************************************************************************)
StampsMonotone == [][stamp' >= stamp]_vars
=============================================================================
