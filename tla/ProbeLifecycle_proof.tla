------------------------ MODULE ProbeLifecycle_proof ------------------------
(* Proofs about ProbeLifecycle: libraries are attached once, and channels   *)
(* outlive their senders but for what was under way.                        *)
EXTENDS ProbeLifecycle, TLAPS

Libs == Seq(Paths)

\* What the proofs need of the types.
TypeOK ==
    /\ main \in -1 .. Len(Closes)
    /\ reader \in [Readers -> [pc : {"read", "send", "event", "done"}, libs : Libs]]
    /\ chan \in [{"ProcChan", "DynLibChan"} -> Seq(Libs)]
    /\ start \in [pc : {"select", "check", "attach", "wait"}, libs : Libs,
                  nil : SUBSET {"ProcChan", "DynLibChan"}]
    /\ started \in [Keys -> Nat]
    /\ probes \subseteq Keys
    /\ closed \in 0 .. 3

(***************************************************************************)
(* The library that Start is about to enter is still not in probes, because *)
(* nobody else enters any; and Start closes channels only behind its loop, *)
(* when ctx is done and no goroutine is left to start.                     *)
(***************************************************************************)
Inv ==
    /\ TypeOK
    /\ AttachedOnce
    /\ PanicsOnlyLate
    /\ start.pc = "attach" => start.libs # << >> /\ ~Known(Head(start.libs))
    /\ start.pc = "wait" => ctx
    /\ closed > 0 => start.pc = "wait" /\ handles = {}

LEMMA Constants ==
    /\ Range(ChanOf) = {"ProcChan", "DynLibChan"}
    /\ Len(Closes) = 6
    /\ \A path \in Paths : KeyOf[path] \in Keys
BY LifecycleAssumption DEF Range, ChanOf, Closes, Keys

\* The rings are closed before the channels their readers send on.
LEMMA RingsFirst ==
    ASSUME NEW r \in Readers, main \in -1 .. 6,
           IsShut(ChanOf[r]) \/ (r = "proc" /\ IsShut("ExecChan"))
    PROVE  IsShut(RingOf[r])
BY DEF IsShut, Closes, Readers, RingOf, ChanOf

LEMMA InitInv == Init => Inv
<1> SUFFICES ASSUME Init PROVE Inv
  OBVIOUS
<1>1. << >> \in Libs /\ << >> \in Seq(Libs)
  BY DEF Libs
<1>2. TypeOK
  BY <1>1, Constants, LifecycleAssumption DEF Init, TypeOK, Closes
<1>3. AttachedOnce
  BY DEF Init, AttachedOnce
<1>4. PanicsOnlyLate
  BY DEF Init, PanicsOnlyLate, Readers
<1> QED
  BY <1>2, <1>3, <1>4 DEF Init, Inv

\* Closing one more resource does not reopen another.
LEMMA StaysShut ==
    ASSUME NEW resource, main \in -1 .. 6, main' \in -1 .. 6, main' >= main, IsShut(resource)
    PROVE  IsShut(resource)'
BY DEF IsShut, Closes

LEMMA SequenceFacts ==
    ASSUME NEW S, NEW s \in Seq(S)
    PROVE  /\ \A e \in S : Append(s, e) \in Seq(S)
           /\ s # << >> => Head(s) \in S /\ Tail(s) \in Seq(S)
OBVIOUS

\* The steps of run.
LEMMA MainStep ==
    ASSUME Inv, Cancel \/ RunReturns \/ CloseNext \/ Exit
    PROVE  Inv'
<1>1. main' \in -1 .. 6 /\ main' >= main /\ main \in -1 .. 6
  BY Constants DEF Inv, TypeOK, Cancel, RunReturns, CloseNext, Exit
<1>2. UNCHANGED <<reader, chan, start, probes, started, handles, closed>>
  BY DEF Cancel, RunReturns, CloseNext, Exit, execVars, tlsVars
<1>3. TypeOK'
  BY <1>1, <1>2, Constants DEF Inv, TypeOK, Closes
<1>4. probes \ handles \subseteq shut'
  BY DEF Inv, AttachedOnce, Cancel, RunReturns, CloseNext, Exit, tlsVars
<1>5. AttachedOnce'
  BY <1>2, <1>4 DEF Inv, AttachedOnce
<1>6. process' = process \/ process' = "exited"
  BY DEF Cancel, RunReturns, CloseNext, Exit
<1>7. ctx => ctx'
  BY DEF Cancel, RunReturns, CloseNext, Exit
<1>8. ASSUME NEW r \in Readers, process' = r
      PROVE  IsShut(RingOf[r])'
  <2>1. IsShut(RingOf[r])
    BY <1>6, <1>8 DEF Inv, PanicsOnlyLate, Readers
  <2> QED
    BY <1>1, <2>1, StaysShut
<1>9. PanicsOnlyLate'
  BY <1>2, <1>6, <1>7, <1>8 DEF Inv, PanicsOnlyLate, Readers
<1> QED
  BY <1>2, <1>3, <1>5, <1>7, <1>9 DEF Inv, Known

\* The readers of execve.
LEMMA ReaderStep ==
    ASSUME Inv, NEW r \in Readers, NEW room \in BOOLEAN, Read(r) \/ Send(r) \/ SendEvent(room)
    PROVE  Inv'
<1>0. Running /\ UNCHANGED <<ctx, main, tlsVars>>
  BY DEF Read, Send, SendEvent
<1>1. << >> \in Libs /\ r \in {"proc", "lib"} /\ ChanOf[r] \in {"ProcChan", "DynLibChan"}
  BY DEF Libs, Readers, ChanOf
<1>2. reader[r].libs \in Libs /\ chan[ChanOf[r]] \in Seq(Libs)
  BY <1>1 DEF Inv, TypeOK
<1>3. Append(chan[ChanOf[r]], reader[r].libs) \in Seq(Libs)
  BY <1>2, SequenceFacts
<1>4. \A libs \in Found : libs \in Libs
  BY LifecycleAssumption DEF Libs
<1>5. TypeOK'
  <2>1. CASE Read(r)
    BY <2>1, <1>0, <1>1, <1>4 DEF Inv, TypeOK, Read, At, tlsVars
  <2>2. CASE Send(r)
    <3>1. reader' \in [Readers -> [pc : {"read", "send", "event", "done"}, libs : Libs]]
      <4>1. reader' = reader \/ \E pc \in {"read", "event", "done"} : At(r, pc)
        BY <2>2 DEF Send, Select
      <4>2. \A pc \in {"read", "event", "done"} :
                [pc |-> pc, libs |-> << >>] \in
                    [pc : {"read", "send", "event", "done"}, libs : Libs]
        BY <1>1
      <4>3. CASE reader' = reader
        BY <4>3 DEF Inv, TypeOK
      <4>4. ASSUME NEW pc \in {"read", "event", "done"}, At(r, pc)
            PROVE  reader' \in [Readers -> [pc : {"read", "send", "event", "done"}, libs : Libs]]
        BY <4>2, <4>4 DEF Inv, TypeOK, At
      <4> QED
        BY <4>1, <4>3, <4>4, Zenon
    <3>2. chan' \in [{"ProcChan", "DynLibChan"} -> Seq(Libs)]
      BY ZenonT(30), <2>2, <1>1, <1>3 DEF Inv, TypeOK, Send, Select
    <3> QED
      BY <3>1, <3>2, <1>0 DEF Inv, TypeOK, tlsVars
  <2>3. CASE SendEvent(room)
    <3>1. "proc" \in Readers
      BY DEF Readers
    <3>2. reader' \in [Readers -> [pc : {"read", "send", "event", "done"}, libs : Libs]]
      <4>1. reader' = reader \/ At("proc", "read") \/ At("proc", "done")
        BY <2>3 DEF SendEvent, Select
      <4>2. \A pc \in {"read", "done"} :
                [pc |-> pc, libs |-> << >>] \in
                    [pc : {"read", "send", "event", "done"}, libs : Libs]
        BY <1>1
      <4>3. CASE reader' = reader
        BY <4>3 DEF Inv, TypeOK
      <4>4. ASSUME NEW pc \in {"read", "done"}, At("proc", pc)
            PROVE  reader' \in [Readers -> [pc : {"read", "send", "event", "done"}, libs : Libs]]
        BY <4>2, <4>4 DEF Inv, TypeOK, At
      <4> QED
        BY <4>1, <4>3, <4>4
    <3>3. chan' = chan
      BY <2>3 DEF SendEvent, Select
    <3> QED
      BY <3>2, <3>3, <1>0 DEF Inv, TypeOK, tlsVars
  <2> QED
    BY <2>1, <2>2, <2>3
<1>6. AttachedOnce'
  BY <1>0 DEF Inv, AttachedOnce, tlsVars
<1>7. \/ process' = process
      \/ process' = r /\ IsShut(ChanOf[r])
      \/ process' = "proc" /\ IsShut("ExecChan")
  BY DEF Read, Send, SendEvent, Select
<1>8. ASSUME NEW q \in Readers, process' = q
      PROVE  IsShut(RingOf[q])'
  <2>1. process # q
    BY <1>0 DEF Running, Readers
  <2>2. IsShut(ChanOf[q]) \/ (q = "proc" /\ IsShut("ExecChan"))
    BY <1>7, <1>8, <2>1
  <2>3. IsShut(RingOf[q])
    BY <2>2, RingsFirst, Constants DEF Inv, TypeOK
  <2> QED
    BY <1>0, <2>3 DEF IsShut
<1>9. PanicsOnlyLate'
  BY <1>0, <1>7, <1>8 DEF Running, PanicsOnlyLate, Readers
<1> QED
  BY <1>0, <1>5, <1>6, <1>9 DEF Inv, Known, tlsVars

\* The loop of TLSProbe.Start.
LEMMA ReceiveStep ==
    ASSUME Inv, NEW c \in {"ProcChan", "DynLibChan"}, Receive(c)
    PROVE  Inv'
<1>0. UNCHANGED <<ctx, process, main, reader, probes, shut, started, handles, closed>>
  BY DEF Receive
<1>1. chan[c] # << >> => Head(chan[c]) \in Libs /\ Tail(chan[c]) \in Seq(Libs)
  BY SequenceFacts DEF Inv, TypeOK
<1>2. chan' \in [{"ProcChan", "DynLibChan"} -> Seq(Libs)]
  BY <1>1 DEF Receive, Inv, TypeOK
<1>3. /\ start' \in [pc : {"select", "check", "attach", "wait"}, libs : Libs,
                     nil : SUBSET {"ProcChan", "DynLibChan"}]
      /\ start'.pc \in {"select", "check"}
  <2>1. CASE chan[c] # << >> /\ GoOn(Head(chan[c]))
    BY <2>1, <1>1 DEF GoOn, Inv, TypeOK
  <2>2. CASE UNCHANGED start
    BY <2>2 DEF Receive, Inv, TypeOK
  <2>3. CASE start' = [start EXCEPT !.nil = @ \cup {c}]
    <3>1. start.nil \cup {c} \in SUBSET {"ProcChan", "DynLibChan"}
      BY DEF Inv, TypeOK
    <3> QED
      BY <2>3, <3>1 DEF Receive, Inv, TypeOK
  <2> QED
    BY <2>1, <2>2, <2>3 DEF Receive
<1>4. TypeOK'
  BY <1>0, <1>2, <1>3 DEF Inv, TypeOK
<1>5. closed = 0
  BY DEF Receive, Inv, TypeOK
<1>6. AttachedOnce' /\ PanicsOnlyLate'
  BY <1>0 DEF Inv, AttachedOnce, PanicsOnlyLate, IsShut
<1> QED
  BY <1>0, <1>3, <1>4, <1>5, <1>6 DEF Inv

LEMMA CheckStep ==
    ASSUME Inv, Check
    PROVE  Inv'
<1>0. UNCHANGED <<ctx, process, main, reader, chan, probes, shut, started, handles, closed>>
  BY DEF Check, execVars
<1>1. start.libs # << >> => Tail(start.libs) \in Libs
  BY SequenceFacts DEF Libs, Inv, TypeOK
<1>2. start' \in [pc : {"select", "check", "attach", "wait"}, libs : Libs,
                  nil : SUBSET {"ProcChan", "DynLibChan"}]
  BY <1>1 DEF Check, Fails, Skip, GoOn, Inv, TypeOK
<1>3. \/ start'.pc \in {"select", "check"}
      \/ /\ start'.pc = "attach" /\ start'.libs = start.libs
         /\ start.libs # << >> /\ ~Known(Head(start.libs))
  BY DEF Check, Fails, Skip, GoOn, Inv, TypeOK
<1>4. TypeOK'
  BY <1>0, <1>2 DEF Inv, TypeOK
<1>5. closed = 0
  BY DEF Check, Inv, TypeOK
<1>6. AttachedOnce' /\ PanicsOnlyLate'
  BY <1>0 DEF Inv, AttachedOnce, PanicsOnlyLate, IsShut
<1> QED
  BY <1>0, <1>3, <1>4, <1>5, <1>6 DEF Inv, Known

\* Attach starts the only goroutine of a library that had none.
LEMMA AttachStep ==
    ASSUME Inv, Attach
    PROVE  Inv'
<1> DEFINE path == Head(start.libs)
           key == KeyOf[path]
<1>0. UNCHANGED <<ctx, process, main, reader, chan, shut, closed>> /\ Running
  BY DEF Attach, execVars
<1>1. path \in Paths /\ Tail(start.libs) \in Libs /\ ~Known(path)
  BY SequenceFacts DEF Attach, Inv, TypeOK, Libs
<1>2. key \in Keys /\ key \notin probes
  BY <1>1, Constants DEF Known
<1>3. started[key] = 0
  BY <1>2 DEF Inv, AttachedOnce
<1>4. /\ start' \in [pc : {"select", "check", "attach", "wait"}, libs : Libs,
                     nil : SUBSET {"ProcChan", "DynLibChan"}]
      /\ start'.pc = "check"
  BY <1>1 DEF Attach, Fails, GoOn, Inv, TypeOK
<1>5. TypeOK' /\ AttachedOnce'
  <2>1. CASE UNCHANGED <<probes, started, handles>>
    BY <2>1, <1>0, <1>4 DEF Inv, TypeOK, AttachedOnce
  <2>2. CASE /\ probes' = probes \cup {key}
             /\ started' = [started EXCEPT ![key] = @ + 1]
             /\ handles' = handles \cup {key}
    <3>1. started' \in [Keys -> Nat]
      BY <2>2, <1>2 DEF Inv, TypeOK
    <3>2. TypeOK'
      BY <2>2, <3>1, <1>0, <1>2, <1>4 DEF Inv, TypeOK
    <3>3. \A k \in Keys : started'[k] = IF k \in probes' THEN 1 ELSE 0
      BY <2>2, <1>2, <1>3 DEF Inv, TypeOK, AttachedOnce
    <3>4. handles' \subseteq probes' /\ probes' \ handles' \subseteq shut'
      BY <2>2, <1>0 DEF Inv, AttachedOnce
    <3> QED
      BY <3>2, <3>3, <3>4 DEF AttachedOnce
  <2> QED
    BY <2>1, <2>2 DEF Attach
<1>6. closed = 0
  BY DEF Attach, Inv, TypeOK
<1>7. PanicsOnlyLate'
  BY <1>0 DEF PanicsOnlyLate, Running, Readers
<1> QED
  BY <1>0, <1>4, <1>5, <1>6, <1>7 DEF Inv

\* The end of Start, the handle goroutines and Parse.
LEMMA EndStep ==
    ASSUME Inv, \/ BreakLoop \/ CloseChannel \/ Tick \/ ParseDone \/ PassEnds
                \/ \E key \in Keys : HandleReturns(key)
    PROVE  Inv'
<1>0. UNCHANGED <<ctx, process, main, reader, chan, probes, shut, started>> /\ Running
  BY DEF BreakLoop, CloseChannel, HandleReturns, Tick, ParseDone, PassEnds, ParseTo, execVars
<1>1. UNCHANGED start \/ (ctx /\ start.pc = "select" /\ start' = [start EXCEPT !.pc = "wait"])
  BY DEF BreakLoop, CloseChannel, HandleReturns, Tick, ParseDone, PassEnds, ParseTo
<1>2. \/ closed' = closed
      \/ closed' = closed + 1 /\ closed < 3 /\ start'.pc = "wait" /\ handles' = {}
  BY DEF BreakLoop, CloseChannel, HandleReturns, Tick, ParseDone, PassEnds, ParseTo,
         AllDone, TLSChannels
<1>3. handles' \subseteq handles /\ handles \ handles' \subseteq shut
  BY DEF BreakLoop, CloseChannel, HandleReturns, Tick, ParseDone, PassEnds, ParseTo
<1>4. TypeOK'
  <2>1. start' \in [pc : {"select", "check", "attach", "wait"}, libs : Libs,
                    nil : SUBSET {"ProcChan", "DynLibChan"}]
    BY <1>1 DEF Inv, TypeOK
  <2>2. closed' \in 0 .. 3
    BY <1>2 DEF Inv, TypeOK
  <2> QED
    BY <1>0, <2>1, <2>2 DEF Inv, TypeOK
<1>5. AttachedOnce'
  BY <1>0, <1>3 DEF Inv, AttachedOnce
<1>6. PanicsOnlyLate'
  BY <1>0 DEF PanicsOnlyLate, Running, Readers
<1>7. (start.pc = "attach" => start.libs # << >> /\ ~Known(Head(start.libs)))'
  BY <1>0, <1>1 DEF Inv, TypeOK, Known
<1>8. start'.pc = "wait" => ctx'
  BY <1>0, <1>1 DEF Inv, TypeOK
<1>9. closed' > 0 => start'.pc = "wait" /\ handles' = {}
  BY <1>1, <1>2, <1>3 DEF Inv, TypeOK
<1> QED
  BY <1>4, <1>5, <1>6, <1>7, <1>8, <1>9 DEF Inv

\* Parse panics on a channel that Start has closed behind its loop.
LEMMA ParseStep ==
    ASSUME Inv, \E c \in Range(TLSChannels) : ParseSends(c)
    PROVE  Inv'
<1>0. UNCHANGED <<ctx, main, reader, chan, start, probes, shut, started, handles, closed>>
  BY DEF ParseSends, ParseTo, execVars
<1>1. process' = "parse" /\ closed > 0
  BY DEF ParseSends, Inv, TypeOK
<1>2. PanicsOnlyLate'
  BY <1>0, <1>1 DEF Inv, PanicsOnlyLate, Readers
<1> QED
  BY <1>0, <1>2 DEF Inv, TypeOK, AttachedOnce, Known

LEMMA NextInv == Inv /\ [Next]_vars => Inv'
<1> SUFFICES ASSUME Inv, [Next]_vars PROVE Inv'
  OBVIOUS
<1>1. CASE UNCHANGED vars
  BY <1>1 DEF vars, execVars, tlsVars, Inv, TypeOK, AttachedOnce, PanicsOnlyLate, IsShut, Known
<1>2. CASE Cancel \/ RunReturns \/ CloseNext \/ Exit
  BY <1>2, MainStep
<1>3. CASE \E r \in Readers : Read(r) \/ Send(r)
  BY <1>3, ReaderStep
<1>4. CASE \E room \in BOOLEAN : SendEvent(room)
  <2>1. "proc" \in Readers
    BY DEF Readers
  <2> QED
    BY <1>4, <2>1, ReaderStep
<1>5. CASE \E c \in Range(ChanOf) : Receive(c)
  BY <1>5, ReceiveStep, Constants
<1>6. CASE StartStep
  BY <1>6, CheckStep, AttachStep DEF StartStep
<1>7. CASE \/ BreakLoop \/ CloseChannel \/ Tick \/ ParseDone \/ PassEnds
           \/ \E key \in Keys : HandleReturns(key)
  BY <1>7, EndStep
<1>8. CASE \E c \in Range(TLSChannels) : ParseSends(c)
  BY <1>8, ParseStep
<1> QED
  BY <1>1, <1>2, <1>3, <1>4, <1>5, <1>6, <1>7, <1>8 DEF Next

(***************************************************************************)
(* For any libraries, records and channel sizes: a library is attached     *)
(* once, though TLSProbe.Start releases mu between its look at probes and  *)
(* the entry, and a goroutine ends with its probe only.                    *)
(***************************************************************************)
THEOREM OneProbe == Spec => []AttachedOnce
<1>1. Inv => AttachedOnce
  BY DEF Inv
<1> QED
  BY <1>1, InitInv, NextInv, PTL DEF Spec

(***************************************************************************)
(* A goroutine sends on a closed channel only when the source of what it   *)
(* sends has been closed: its ring buffer, or every handle goroutine.      *)
(***************************************************************************)
THEOREM LatePanics == Spec => []PanicsOnlyLate
<1>1. Inv => PanicsOnlyLate
  BY DEF Inv
<1> QED
  BY <1>1, InitInv, NextInv, PTL DEF Spec
=============================================================================
