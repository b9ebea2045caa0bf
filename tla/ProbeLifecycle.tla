--------------------------- MODULE ProbeLifecycle ---------------------------
(***************************************************************************)
(* The goroutines that find TLS libraries and follow them, from start to   *)
(* the end of the program: the two readers of execve/probe.go, the loop of *)
(* TLSProbe.Start with a handle goroutine per library, Parse, and run in   *)
(* cmd/main.go, which closes the probes and does not wait for them.        *)
(*                                                                         *)
(* A record that a reader takes from its ring buffer is the sequence of    *)
(* library paths that will be detected for it.  A send on a closed channel *)
(* panics and ends the program.  A select takes any of its ready cases,    *)
(* and its default only when none is.  The lock mu of TLSProbe is held for *)
(* one step at a time.                                                     *)
(***************************************************************************)
EXTENDS Integers, Sequences, SequencesExt

CONSTANTS
    Paths, KeyOf,      \* KeyOf[path]: its device and inode, proc.LibKey
    Found,             \* what may be detected for a record: sequences of paths
    InitialKeys,       \* what NewTLSProbe may have attached
    CHANNEL_SIZE,
    MaxRecords         \* bound on the records read

Keys == Range(KeyOf)

ASSUME LifecycleAssumption ==
    /\ DOMAIN KeyOf = Paths
    /\ \A libs \in Found : libs \in Seq(Paths)
    /\ \A keys \in InitialKeys : keys \subseteq Keys
    /\ CHANNEL_SIZE \in Nat /\ MaxRecords \in Nat

VARIABLES
    ctx,       \* ctx is done
    process,   \* "running", "exited", or the goroutine that panicked
    main,      \* -1 until run returns, then how many of Closes are done
    reader,    \* reader[r]: [pc, libs]
    chan,      \* chan[c]: the items of ProcChan and DynLibChan
    start,     \* [pc, libs, nil]: the libraries still to attach and the
               \* channels that were set to nil
    probes,    \* the keys of sp.probes
    shut,      \* the keys whose probe was closed
    started,   \* started[key]: handle goroutines started for it
    handles,   \* the keys whose handle goroutine runs
    parse,     \* where Parse is
    closed,    \* how many of TLSChannels Start has closed
    records,   \* records read so far
    failed     \* history: paths that were not detected or not attached

tlsVars == <<start, probes, shut, started, handles, parse, closed, failed>>
execVars == <<reader, chan, records>>
vars == <<ctx, process, main, execVars, tlsVars>>

Readers == {"proc", "lib"}
RingOf == [proc |-> "rbProc", lib |-> "rbDynLib"]
ChanOf == [proc |-> "ProcChan", lib |-> "DynLibChan"]
TLSChannels == <<"reqChan", "respChan", "postgresChan">>

\* Mutant: the channels are closed before the rings their senders read.
ClosesEarly == <<"ssl", "ProcChan", "ExecChan", "DynLibChan", "rbProc", "rbDynLib">>

\* The deferred calls of run: sslProbe.Close and the steps of execProbe.Close.
\* Those of the other probes come before them, exporter.Close with Exit.
Closes == <<"ssl", "rbProc", "rbDynLib", "ProcChan", "ExecChan", "DynLibChan">>

IsShut(resource) == \E i \in 1 .. main : Closes[i] = resource

Running == process = "running"

Init ==
    /\ ctx = FALSE
    /\ process = "running"
    /\ main = -1
    /\ reader = [r \in Readers |-> [pc |-> "read", libs |-> << >>]]
    /\ chan = [c \in Range(ChanOf) |-> << >>]
    /\ start = [pc |-> "select", libs |-> << >>, nil |-> {}]
    /\ probes \in InitialKeys
    /\ shut = {}
    /\ started = [key \in Keys |-> IF key \in probes THEN 1 ELSE 0]
    /\ handles = probes
    /\ parse = "select"
    /\ closed = 0
    /\ records = 0
    /\ failed = {}

-----------------------------------------------------------------------------
\* cmd/main.go.

\* A signal, or the end of the terminal UI.
Cancel ==
    /\ Running /\ ~ctx
    /\ ctx' = TRUE
    /\ UNCHANGED <<process, main, execVars, tlsVars>>

\* ctx is done, or a probe that is initialised later fails.
RunReturns ==
    /\ Running /\ main = -1
    /\ main' = 0
    /\ UNCHANGED <<ctx, process, execVars, tlsVars>>

CloseNext ==
    /\ Running /\ main \in 0 .. Len(Closes) - 1
    /\ main' = main + 1
    /\ shut' = IF Closes[main + 1] = "ssl" THEN probes ELSE shut
    /\ UNCHANGED <<ctx, process, execVars, start, probes, started, handles, parse, closed, failed>>

Exit ==
    /\ Running /\ main = Len(Closes)
    /\ process' = "exited"
    /\ UNCHANGED <<ctx, main, execVars, tlsVars>>

-----------------------------------------------------------------------------
\* execve/probe.go, Start: the readers.

At(r, pc) == reader' = [reader EXCEPT ![r] = [pc |-> pc, libs |-> << >>]]

Read(r) ==
    /\ Running /\ reader[r].pc = "read"
    /\ \/ /\ IsShut(RingOf[r])
          /\ At(r, "done")
          /\ UNCHANGED records
       \/ /\ ~IsShut(RingOf[r]) /\ records < MaxRecords
          /\ \E libs \in Found : reader' = [reader EXCEPT ![r] = [pc |-> "send", libs |-> libs]]
          /\ records' = records + 1
    /\ UNCHANGED <<ctx, process, main, chan, tlsVars>>

\* The select with the send, ctx.Done and a default.  room: the channel can
\* take an item now; Sent: what the send does.
Select(r, channel, room, pc, Sent) ==
    \/ /\ IsShut(channel)
       /\ process' = r
       /\ UNCHANGED <<reader, chan>>
    \/ /\ ~IsShut(channel) /\ room
       /\ At(r, pc) /\ Sent
       /\ UNCHANGED process
    \/ /\ ctx
       /\ At(r, "done")
       /\ UNCHANGED <<process, chan>>
    \/ /\ ~IsShut(channel) /\ ~room /\ ~ctx
       /\ At(r, pc)
       /\ UNCHANGED <<process, chan>>

Send(r) ==
    LET c == ChanOf[r] IN
    /\ Running /\ reader[r].pc = "send"
    /\ Select(r, c, Len(chan[c]) < CHANNEL_SIZE, IF r = "proc" THEN "event" ELSE "read",
              chan' = [chan EXCEPT ![c] = Append(@, reader[r].libs)])
    /\ UNCHANGED <<ctx, main, records, tlsVars>>

\* The exec event follows the process id; whether ExecChan has room depends on
\* the exporter.
SendEvent(room) ==
    /\ Running /\ reader["proc"].pc = "event"
    /\ Select("proc", "ExecChan", room, "read", UNCHANGED chan)
    /\ UNCHANGED <<ctx, main, records, tlsVars>>

-----------------------------------------------------------------------------
\* tls/probe.go, Start.

\* pc "check": the loop over libs is at its next library.
GoOn(libs) == start' = [start EXCEPT !.pc = "check", !.libs = libs]

Receive(c) ==
    /\ Running /\ start.pc = "select" /\ c \notin start.nil
    /\ \/ /\ chan[c] # << >>
          /\ chan' = [chan EXCEPT ![c] = Tail(@)]
          /\ \/ GoOn(Head(chan[c])) /\ UNCHANGED failed
             \/ failed' = failed \cup Range(Head(chan[c])) /\ UNCHANGED start
       \/ /\ chan[c] = << >> /\ IsShut(c)
          /\ start' = [start EXCEPT !.nil = @ \cup {c}]
          /\ UNCHANGED <<chan, failed>>
    /\ UNCHANGED <<ctx, process, main, reader, records,
                   probes, shut, started, handles, parse, closed>>

Fails(path) ==
    /\ failed' = failed \cup {path}
    /\ GoOn(Tail(start.libs))

\* Mutant: a library that is attached ends the loop over the others.
SkipAll(libs) == GoOn(<< >>)

Skip(libs) == GoOn(Tail(libs))

\* Mutant: only libraries attached at the start are looked for.
KnownAtStart(path) == KeyOf[path] \in probes /\ probes \in InitialKeys

\* Looked up under mu, which is released before the probe is created.
Known(path) == KeyOf[path] \in probes

Check ==
    /\ Running /\ start.pc = "check"
    /\ IF start.libs = << >>
       THEN start' = [start EXCEPT !.pc = "select"] /\ UNCHANGED failed
       ELSE \/ Fails(Head(start.libs))
            \/ /\ Known(Head(start.libs))
               /\ Skip(start.libs)
               /\ UNCHANGED failed
            \/ /\ ~Known(Head(start.libs))
               /\ start' = [start EXCEPT !.pc = "attach"]
               /\ UNCHANGED failed
    /\ UNCHANGED <<ctx, process, main, execVars, probes, shut, started, handles, parse, closed>>

\* The probe is created and, under mu, entered with its goroutine.
Attach ==
    LET path == Head(start.libs)
        key == KeyOf[path] IN
    /\ Running /\ start.pc = "attach"
    /\ \/ /\ Fails(path)
          /\ UNCHANGED <<probes, started, handles>>
       \/ /\ GoOn(Tail(start.libs))
          /\ probes' = probes \cup {key}
          /\ started' = [started EXCEPT ![key] = @ + 1]
          /\ handles' = handles \cup {key}
          /\ UNCHANGED failed
    /\ UNCHANGED <<ctx, process, main, execVars, shut, parse, closed>>

BreakLoop ==
    /\ Running /\ start.pc = "select" /\ ctx
    /\ start' = [start EXCEPT !.pc = "wait"]
    /\ UNCHANGED <<ctx, process, main, execVars,
                   probes, shut, started, handles, parse, closed, failed>>

\* wg.Wait
AllDone == handles = {}

\* The deferred closes, once the handle goroutines have returned.
CloseChannel ==
    /\ Running /\ start.pc = "wait" /\ AllDone
    /\ closed < Len(TLSChannels)
    /\ closed' = closed + 1
    /\ UNCHANGED <<ctx, process, main, execVars,
                   start, probes, shut, started, handles, parse, failed>>

\* handle reads its ring buffer until it is closed.
HandleReturns(key) ==
    /\ Running /\ key \in handles \cap shut
    /\ handles' = handles \ {key}
    /\ UNCHANGED <<ctx, process, main, execVars,
                   start, probes, shut, started, parse, closed, failed>>

\* Parse: parseRequest and then parseResponse at a tick.
ParseTo(pc) ==
    /\ parse' = pc
    /\ UNCHANGED <<ctx, main, execVars, start, probes, shut, started, handles, closed, failed>>

Tick == Running /\ parse = "select" /\ ParseTo("pass") /\ UNCHANGED process

ParseDone == Running /\ parse = "select" /\ ctx /\ ParseTo("done") /\ UNCHANGED process

PassEnds == Running /\ parse = "pass" /\ ParseTo("select") /\ UNCHANGED process

\* A pass sends what it has parsed; the select has a default, not a guard
\* against a channel that is closed.
ParseSends(c) ==
    /\ Running /\ parse = "pass"
    /\ \E i \in 1 .. closed : TLSChannels[i] = c
    /\ process' = "parse"
    /\ ParseTo(parse)

-----------------------------------------------------------------------------
StartStep == Check \/ Attach

Next ==
    \/ Cancel \/ RunReturns \/ CloseNext \/ Exit
    \/ \E r \in Readers : Read(r) \/ Send(r)
    \/ \E room \in BOOLEAN : SendEvent(room)
    \/ \E c \in Range(ChanOf) : Receive(c)
    \/ StartStep \/ BreakLoop \/ CloseChannel
    \/ \E key \in Keys : HandleReturns(key)
    \/ Tick \/ ParseDone \/ PassEnds
    \/ \E c \in Range(TLSChannels) : ParseSends(c)

Spec == Init /\ [][Next]_vars

\* The goroutine of Start is scheduled, and its select does not pass over a
\* channel that is ready again and again: Go picks a ready case at random.
FairSpec ==
    /\ Spec
    /\ WF_vars(StartStep)
    /\ \A c \in Range(ChanOf) : SF_vars(Receive(c))

-----------------------------------------------------------------------------
(***************************************************************************)
(* The channels outlive their senders but for what was under way: a reader *)
(* of execve sends on a closed channel only with a record it took before   *)
(* Close closed its ring buffer, and Parse only in a pass after ctx was    *)
(* done and every handle goroutine had returned, so that nothing more is   *)
(* captured.                                                               *)
(***************************************************************************)
PanicsOnlyLate ==
    /\ \A r \in Readers : process = r => IsShut(RingOf[r])
    /\ process = "parse" => ctx /\ handles = {}

(***************************************************************************)
(* "There is no TOCTOU here": although mu is released between the look at  *)
(* probes and the entry, and two channels name libraries by any path, a    *)
(* library has one probe and one goroutine: no probe is replaced in probes *)
(* where Close looks for it, and a goroutine ends with its probe only.     *)
(***************************************************************************)
AttachedOnce ==
    /\ \A key \in Keys : started[key] = IF key \in probes THEN 1 ELSE 0
    /\ handles \subseteq probes /\ probes \ handles \subseteq shut

\* Some reader's record with the path waits for Start.
Awaited(path) ==
    \/ path \in Range(start.libs)
    \/ \E c \in Range(ChanOf) \ start.nil, k \in 1 .. CHANNEL_SIZE :
         k <= Len(chan[c]) /\ path \in Range(chan[c][k])

(***************************************************************************)
(* A library named by a record that got into a channel is attached, behind *)
(* whatever else the record and the channels name, unless it could not be  *)
(* detected or attached, or the program ends.                              *)
(***************************************************************************)
EventuallyAttached ==
    \A path \in Paths :
        Awaited(path) ~> (KeyOf[path] \in probes \/ path \in failed \/ ctx \/ ~Running)
=============================================================================
