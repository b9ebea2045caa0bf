------------------------------ MODULE Exporter ------------------------------
(***************************************************************************)
(* The export path of every probe: the reader goroutine that sends to a    *)
(* bounded channel (Start of each probe), the ingest goroutine of          *)
(* export/exporter.go that takes batches off it, and the sink, a gateway   *)
(* over HTTP with retries (export/sink_gateway.go) or a JSONL file that    *)
(* all endpoints share (export/sink_jsonl.go), up to the shutdown in       *)
(* cmd/main.go.                                                            *)
(*                                                                         *)
(* An event is its number in the order the reader of its endpoint met it.  *)
(* Go statements between two operations on shared state are one step.      *)
(***************************************************************************)
EXTENDS Naturals, Sequences, FiniteSets

CONSTANTS Endpoints,
          Setups,             \* [target, endpoints, events]: the sink of NewSink,
                              \* the endpoints in use and a bound on the events
                              \* of each
          Unconvertible,      \* events whose ToRecord returns nil
          ExportChannelSize,
          maxBatchSize,
          maxGatewayRetryCount,
          MaxEvents,          \* the largest of these bounds
          NoOne               \* nobody holds the mutex of the JSONL sink

ASSUME ExporterAssumption ==
    /\ Setups \subseteq [target : {"gateway", "jsonl"}, endpoints : SUBSET Endpoints,
                         events : 1 .. MaxEvents]
    /\ ExportChannelSize \in Nat \ {0}
    /\ maxBatchSize \in Nat \ {0}
    /\ maxGatewayRetryCount \in Nat \ {0}
    /\ Unconvertible \subseteq Nat
    /\ NoOne \notin Endpoints

VARIABLES
    setup,     \* one of Setups
    produced,  \* events the reader of each endpoint has met
    channel, closed,
    ring,      \* FALSE once Close of the probe closed the ring buffer
    canceled,  \* ctx is done
    pc, batch, open, attempt,   \* the ingest goroutine of each endpoint
    requests,  \* POSTs that were sent, [ep, events, attempt]
    ingested,  \* the requests the gateway has processed
    mu,        \* JSONLSink.mu
    file,      \* lines of the JSONL file, [ep, event]
    fileOpen,
    settled    \* history: events of the batches that WriteBatch returned for

reader == <<produced, channel, closed, ring>>
loop == <<pc, batch, open, attempt>>
gateway == <<requests, ingested>>
jsonl == <<mu, file, fileOpen>>
vars == <<setup, reader, canceled, loop, gateway, jsonl, settled>>

Target == setup.target

Events == 1 .. MaxEvents

IsRecord(e) == e \notin Unconvertible

\* An endpoint that is not in use, as the OTEL receiver is unless it has an
\* address, has no goroutines.
Init ==
    /\ setup \in Setups
    /\ produced = [p \in Endpoints |-> 0]
    /\ channel = [p \in Endpoints |-> << >>]
    /\ closed = [p \in Endpoints |-> p \notin setup.endpoints]
    /\ ring = [p \in Endpoints |-> p \in setup.endpoints]
    /\ canceled = FALSE
    /\ pc = [p \in Endpoints |-> IF p \in setup.endpoints THEN "select" ELSE "returned"]
    /\ batch = [p \in Endpoints |-> << >>]
    /\ open = [p \in Endpoints |-> TRUE]
    /\ attempt = [p \in Endpoints |-> 0]
    /\ requests = {} /\ ingested = {}
    /\ mu = NoOne /\ file = << >> /\ fileOpen = TRUE
    /\ settled = [p \in Endpoints |-> << >>]

-----------------------------------------------------------------------------
(* The reader: a send that never blocks, and close(channel) when the ring  *)
(* buffer was closed.  A record read before that may still be sent after.  *)

Produce(p) ==
    /\ ~closed[p]
    /\ produced[p] < setup.events
    /\ produced' = [produced EXCEPT ![p] = @ + 1]
    /\ channel' = IF Len(channel[p]) < ExportChannelSize
                  THEN [channel EXCEPT ![p] = Append(@, produced'[p])]
                  ELSE channel
    /\ UNCHANGED <<closed, ring, canceled, loop, gateway, jsonl, settled>>

ReaderReturns(p) ==
    /\ ~ring[p] /\ ~closed[p]
    /\ closed' = [closed EXCEPT ![p] = TRUE]
    /\ UNCHANGED <<produced, channel, ring, canceled, loop, gateway, jsonl, settled>>

(* cmd/main.go: run returns when ctx is done, or early with an error; the  *)
(* deferred calls close the probes and, last, the exporter.                *)

Cancel ==
    /\ ~canceled
    /\ canceled' = TRUE
    /\ UNCHANGED <<reader, loop, gateway, jsonl, settled>>

CloseProbe(p) ==
    /\ ring[p]
    /\ ring' = [ring EXCEPT ![p] = FALSE]
    /\ UNCHANGED <<produced, channel, closed, canceled, loop, gateway, jsonl, settled>>

CloseSink ==
    /\ Target = "jsonl"
    /\ \A p \in Endpoints : ~ring[p]
    /\ mu = NoOne
    /\ fileOpen
    /\ fileOpen' = FALSE
    /\ UNCHANGED <<reader, canceled, loop, gateway, mu, file, settled>>

-----------------------------------------------------------------------------
(* IngestEvents *)

\* Mutant: ctx.Done() is not selected.
SelectDoneMissing(p) == FALSE

\* The loop goes on while the channel is open.
Resume(p, isOpen) == pc' = [pc EXCEPT ![p] = IF isOpen THEN "select" ELSE "returned"]

SelectDone(p) ==
    /\ pc[p] = "select"
    /\ canceled
    /\ pc' = [pc EXCEPT ![p] = "returned"]
    /\ UNCHANGED <<reader, canceled, batch, open, attempt, gateway, jsonl, settled>>

SelectTick(p) ==
    /\ pc[p] = "select"
    /\ pc' = [pc EXCEPT ![p] = "consume"]
    /\ UNCHANGED <<reader, canceled, batch, open, attempt, gateway, jsonl, settled>>

\* Mutant: the batch keeps only the last record.
TakenFresh(b, e) == IF IsRecord(e) THEN <<e>> ELSE b

\* consumeFromChannel: an event without a record is skipped.
Taken(b, e) == IF IsRecord(e) THEN Append(b, e) ELSE b

\* One receive of its loop.
Receive(p) ==
    /\ pc[p] = "consume"
    /\ Len(batch[p]) < maxBatchSize
    /\ channel[p] # << >>
    /\ channel' = [channel EXCEPT ![p] = Tail(@)]
    /\ batch' = [batch EXCEPT ![p] = Taken(@, Head(channel[p]))]
    /\ UNCHANGED <<produced, closed, ring, canceled, pc, open, attempt, gateway, jsonl, settled>>

\* Mutant: a closed channel ends the loop although the batch was full.
StillOpenUnlessClosed(p) == ~closed[p]

\* The second result of consumeFromChannel.
StillOpen(p) == Len(batch[p]) = maxBatchSize \/ ~closed[p]

\* Its end: the batch is full or the channel empty.
Consumed(p) ==
    /\ pc[p] = "consume"
    /\ Len(batch[p]) = maxBatchSize \/ channel[p] = << >>
    /\ open' = [open EXCEPT ![p] = StillOpen(p)]
    /\ IF batch[p] = << >> THEN Resume(p, open'[p])
       ELSE pc' = [pc EXCEPT ![p] = "write"]
    /\ UNCHANGED <<reader, canceled, batch, attempt, gateway, jsonl, settled>>

\* WriteBatch returned: an error is logged and the batch dropped.
WriteReturns(p) ==
    /\ settled' = [settled EXCEPT ![p] = @ \o batch[p]]
    /\ batch' = [batch EXCEPT ![p] = << >>]
    /\ attempt' = [attempt EXCEPT ![p] = 0]
    /\ Resume(p, open[p])
    /\ UNCHANGED <<reader, canceled, open>>

-----------------------------------------------------------------------------
(* GatewaySink.WriteBatch.  The network may hold a request back, also past *)
(* the end of the attempt that sent it, or lose it; the gateway processes  *)
(* a request at most once; its answer may be lost.                         *)

Request(p, k) == [ep |-> p, events |-> batch[p], attempt |-> k]

Post(p) ==
    /\ Target = "gateway"
    /\ pc[p] = "write"
    /\ attempt' = [attempt EXCEPT ![p] = @ + 1]
    /\ requests' = requests \cup {Request(p, attempt[p] + 1)}
    /\ pc' = [pc EXCEPT ![p] = "answer"]
    /\ UNCHANGED <<reader, canceled, batch, open, ingested, jsonl, settled>>

GatewayIngests(r) ==
    /\ r \in requests \ ingested
    /\ ingested' = ingested \cup {r}
    /\ UNCHANGED <<reader, canceled, loop, requests, jsonl, settled>>

Accepted(p) ==
    /\ pc[p] = "answer"
    /\ Request(p, attempt[p]) \in ingested
    /\ WriteReturns(p)
    /\ UNCHANGED <<gateway, jsonl>>

LastAttempt(p) == attempt[p] = maxGatewayRetryCount

\* The attempt timed out, was cancelled, or the status was not 202.
Failed(p) ==
    /\ pc[p] = "answer"
    /\ IF LastAttempt(p) THEN WriteReturns(p)
       ELSE /\ pc' = [pc EXCEPT ![p] = "backoff"]
            /\ UNCHANGED <<reader, canceled, batch, open, attempt, settled>>
    /\ UNCHANGED <<gateway, jsonl>>

Retry(p) ==
    /\ pc[p] = "backoff"
    /\ pc' = [pc EXCEPT ![p] = "write"]
    /\ UNCHANGED <<reader, canceled, batch, open, attempt, gateway, jsonl, settled>>

BackoffCanceled(p) ==
    /\ pc[p] = "backoff"
    /\ canceled
    /\ WriteReturns(p)
    /\ UNCHANGED <<gateway, jsonl>>

-----------------------------------------------------------------------------
(* JSONLSink.WriteBatch: lines are encoded one by one under mu. *)

\* Mutant: a sink without a mutex.
AcquireNothing(p) == UNCHANGED mu

Acquire(p) == mu = NoOne /\ mu' = p

FileUsable == fileOpen

\* attempt[p] is the index of the next event to encode.
Lock(p) ==
    /\ Target = "jsonl"
    /\ pc[p] = "write"
    /\ IF FileUsable
       THEN /\ Acquire(p)
            /\ attempt' = [attempt EXCEPT ![p] = 1]
            /\ pc' = [pc EXCEPT ![p] = "encode"]
            /\ UNCHANGED <<reader, canceled, batch, open, settled>>
       ELSE mu = NoOne /\ WriteReturns(p) /\ UNCHANGED mu
    /\ UNCHANGED <<gateway, file, fileOpen>>

Encode(p) ==
    /\ pc[p] = "encode"
    /\ attempt[p] <= Len(batch[p])
    /\ file' = Append(file, [ep |-> p, event |-> batch[p][attempt[p]]])
    /\ attempt' = [attempt EXCEPT ![p] = @ + 1]
    /\ UNCHANGED <<reader, canceled, pc, batch, open, gateway, mu, fileOpen, settled>>

\* All lines are written, or the write of one failed.
Unlock(p) ==
    /\ pc[p] = "encode"
    /\ mu' = NoOne
    /\ WriteReturns(p)
    /\ UNCHANGED <<gateway, file, fileOpen>>

-----------------------------------------------------------------------------
Ingest(p) ==
    \/ SelectDone(p) \/ SelectTick(p) \/ Receive(p) \/ Consumed(p)
    \/ Post(p) \/ Accepted(p) \/ Failed(p) \/ Retry(p) \/ BackoffCanceled(p)
    \/ Lock(p) \/ Encode(p) \/ Unlock(p)

Step ==
    \/ \E p \in Endpoints :
        Produce(p) \/ ReaderReturns(p) \/ CloseProbe(p) \/ Ingest(p)
    \/ \E r \in requests : GatewayIngests(r)
    \/ Cancel
    \/ CloseSink

Next == Step /\ UNCHANGED setup

Spec == Init /\ [][Next]_vars

\* The ingest goroutine is scheduled (its ticker, timers and requests all
\* end), and its select takes a ready <-ctx.Done() in the end: Go picks among
\* the ready cases at random.
FairSpec ==
    /\ Spec
    /\ \A p \in Endpoints : /\ WF_vars(Ingest(p) /\ UNCHANGED setup)
                            /\ SF_vars(SelectDone(p) /\ UNCHANGED setup)

-----------------------------------------------------------------------------
\* How often the sink has got an event.
Copies(p, e) ==
    Cardinality({r \in ingested : r.ep = p /\ e \in {r.events[k] : k \in DOMAIN r.events}})
    + Cardinality({k \in DOMAIN file : file[k] = [ep |-> p, event |-> e]})

Promise == INSTANCE LossyQueue WITH
    Items <- {e \in Events : IsRecord(e)},
    limit <- IF Target = "gateway" THEN maxGatewayRetryCount ELSE 1,
    queue <- [p \in Endpoints |-> batch[p] \o SelectSeq(channel[p], IsRecord)],
    copies <- [p \in Endpoints |-> [e \in {x \in Events : IsRecord(x)} |-> Copies(p, e)]]

(***************************************************************************)
(* The channel, the batches and the retries together implement LossyQueue: *)
(* records settle in the order the reader sent them, none is skipped, and  *)
(* none reaches the gateway more than maxGatewayRetryCount times (the file *)
(* more than once), whatever answers are lost or late.                     *)
(***************************************************************************)
PromiseKept == Promise!Spec

\* While WriteBatch runs, the file ends with the lines of its batch so far.
BatchAtEnd ==
    \A p \in Endpoints : pc[p] = "encode" =>
        LET done == attempt[p] - 1 IN
        SubSeq(file, Len(file) - done + 1, Len(file))
            = [k \in 1 .. done |-> [ep |-> p, event |-> batch[p][k]]]

(***************************************************************************)
(* JSONLSink: no line of another endpoint gets between the lines of a      *)
(* batch, and none is written once Close closed the file, although the     *)
(* ingest goroutines are not waited for.                                   *)
(***************************************************************************)
LinesInPlace == []BatchAtEnd /\ [][~fileOpen => UNCHANGED file]_vars

(***************************************************************************)
(* After the context is cancelled every IngestEvents returns, from its     *)
(* select, from a retry or from a batch.                                   *)
(***************************************************************************)
ShutdownReturns == canceled ~> \A p \in Endpoints : pc[p] = "returned"

\* The event is in the channel or in the batch of its endpoint.
Pending(p, e) ==
    e \in {channel[p][k] : k \in DOMAIN channel[p]} \cup {batch[p][k] : k \in DOMAIN batch[p]}

(***************************************************************************)
(* An event in a channel leaves it and its batch is settled, unless the    *)
(* context is cancelled first: IngestEvents does not return while there is *)
(* something in the channel, even if it was closed behind a full batch.    *)
(***************************************************************************)
EventuallySettled ==
    \A p \in Endpoints, e \in Events : Pending(p, e) ~> (canceled \/ ~Pending(p, e))
=============================================================================
