----------------------------- MODULE SSLParser -----------------------------
(***************************************************************************)
(* tls/http1.go, tls/http2.go, tls/postgres.go and detectProtocol: what    *)
(* one call of ParseRequest or ParseResponse makes of the units at the     *)
(* head of a record's stream.                                              *)
(*                                                                         *)
(* A unit is [kind, x, sid, eh, es, ok]: x is the exchange it belongs to,  *)
(* sid its HTTP/2 stream (0 otherwise), eh and es the frame flags          *)
(* END_HEADERS and END_STREAM, ok whether the body of the message it       *)
(* completes can be decoded.  Kinds:                                       *)
(*   HTTP/1    msg; part then rest, a message in two buffers; head, chunk, *)
(*             end of a chunked response; half then rest, a chunk in two   *)
(*             buffers; bare, a response without Content-Length            *)
(*   HTTP/2    headers, continuation, data, rst, control                   *)
(*   Postgres  startup, stmt (Q, P, B, E), other, short (length below 4)   *)
(*   any       junk, which no parser accepts                               *)
(***************************************************************************)
EXTENDS Naturals, Sequences

CONSTANTS StreamIDs,  \* 0 and the HTTP/2 stream identifiers in use
          NoRecord    \* a key without a record

ASSUME StreamAssumption == StreamIDs \subseteq Nat /\ 0 \in StreamIDs

Http1Kinds == {"msg", "part", "rest", "head", "chunk", "half", "end", "bare"}
Http2Kinds == {"headers", "continuation", "data", "rst", "control"}
PostgresKinds == {"startup", "stmt", "other", "short"}
Kinds == Http1Kinds \cup Http2Kinds \cup PostgresKinds \cup {"junk"}

Unit == [kind : Kinds, x : Nat, sid : StreamIDs, eh : BOOLEAN, es : BOOLEAN,
         ok : BOOLEAN]

Protocols == {"HTTP1", "HTTP2", "Postgres", "Unknown"}

\* SSLRecord: chunked says that LastResp is a chunked response, open is
\* HTTP2State.HeaderStreamID, ready and ended the flags of its Streams.
\* framer is the stream whose header block the Framer of the running call of
\* HTTP2Parser.parse has read in part; every call makes a new Framer.
Record == [stream : Seq(Unit), stale : BOOLEAN, chunked : BOOLEAN,
           open : StreamIDs, framer : StreamIDs,
           ready : SUBSET StreamIDs, ended : SUBSET StreamIDs]

NewRecord == [stream |-> << >>, stale |-> FALSE, chunked |-> FALSE, open |-> 0,
              framer |-> 0, ready |-> {}, ended |-> {}]

NewFramer(r) == [r EXCEPT !.framer = 0]

-----------------------------------------------------------------------------
(* What detectProtocol decides from the first unit when nothing is cached. *)

Detected(u) ==
    IF u.kind \in Http1Kinds THEN "HTTP1"
    ELSE IF u.kind \in Http2Kinds THEN "HTTP2"
    ELSE IF u.kind = "startup" THEN "Postgres" ELSE "Unknown"

\* A Postgres startup message is consumed by the detection itself.
AfterDetection(r) ==
    IF Head(r.stream).kind = "startup" THEN [r EXCEPT !.stream = Tail(@)] ELSE r

-----------------------------------------------------------------------------
(* Results of the parsers: outcome, units consumed and the record's new    *)
(* parser state.                                                           *)
(*   error    the parser returned an error                                 *)
(*   wait     nothing consumed, more data is needed                        *)
(*   nil      consumed, no message, EndOfStream set by the parser          *)
(*   partial  consumed, no complete message yet                            *)
(*   discard  a reset HTTP/2 response stream                               *)
(*   message  a complete message                                           *)

\* Mutant: one unit less is consumed, so the last one is parsed again.
ResultOneShort(outcome, n, r) ==
    [outcome |-> outcome, n |-> n,
     rec |-> [r EXCEPT !.stream = SubSeq(@, IF n = 0 THEN 1 ELSE n, Len(@))]]

Result(outcome, n, r) ==
    [outcome |-> outcome, n |-> n,
     rec |-> [r EXCEPT !.stream = SubSeq(@, n + 1, Len(@))]]

\* HTTP1Parser, a message that is not chunked: wait for the whole body.
Http1Message(r) ==
    IF Head(r.stream).kind = "msg" THEN Result("message", 1, r)
    ELSE IF Head(r.stream).kind # "part" THEN Result("error", 0, r)
    ELSE IF Len(r.stream) = 1 THEN Result("wait", 0, r)
    ELSE Result("message", 2, r)

Http1Request(r) == Http1Message(r)

\* parseStream: one chunk of a chunked response, up to the final one.
Http1Chunk(r) ==
    IF Head(r.stream).kind = "chunk" THEN Result("partial", 1, r)
    ELSE IF Head(r.stream).kind = "end" THEN Result("message", 1, r)
    ELSE IF Head(r.stream).kind # "half" THEN Result("error", 0, r)
    ELSE IF Len(r.stream) = 1 THEN Result("wait", 0, r)
    ELSE Result("partial", 2, r)

\* ContentLength is -1 and added to the length of the head: the head's last
\* byte stays, with the body behind it, and no parser accepts what is left.
Http1Bare(r) ==
    [outcome |-> "message", n |-> 0,
     rec |-> [r EXCEPT !.stream = <<[Head(@) EXCEPT !.kind = "junk"]>> \o Tail(@)]]

\* HTTP1Parser.ParseResponse: a chunk of LastResp, or a new head.
Http1Response(r) ==
    IF r.chunked THEN Http1Chunk(r)
    ELSE IF Head(r.stream).kind = "bare" THEN Http1Bare(r)
    ELSE IF Head(r.stream).kind = "head"
      THEN Result("partial", 1, [r EXCEPT !.chunked = TRUE])
    ELSE Http1Message(r)

\* HTTP2Parser.parse, one frame: the state after it, before completion.
AfterFrame(r, u) ==
    LET closes == u.kind \in {"headers", "continuation"} /\ u.eh
        opens  == u.kind \in {"headers", "continuation"} /\ ~u.eh
        resets == u.kind = "rst"
    IN [r EXCEPT !.open  = IF opens THEN u.sid
                           ELSE IF closes \/ (resets /\ @ = u.sid) THEN 0 ELSE @,
                 !.framer = IF opens THEN u.sid ELSE 0,
                 !.ready = IF closes THEN @ \cup {u.sid}
                           ELSE IF resets THEN @ \ {u.sid} ELSE @,
                 !.ended = IF u.kind \in {"headers", "data"} /\ u.es
                             THEN @ \cup {u.sid}
                           ELSE IF resets THEN @ \ {u.sid} ELSE @]

\* Framer.ReadFrame (golang.org/x/net/http2): the frame that follows a header
\* block without END_HEADERS is its CONTINUATION, and no other frame is one.
OutOfOrder(r, u) ==
    IF r.framer = 0 THEN u.kind = "continuation"
                    ELSE u.kind # "continuation" \/ u.sid # r.framer

\* ... and parse's own checks, on the state kept from one call to the next.
FrameError(r, u) ==
    \/ u.kind \notin Http2Kinds
    \/ OutOfOrder(r, u)
    \/ u.kind = "headers" /\ r.open \notin {0, u.sid}
    \/ u.kind = "continuation" /\ r.open # u.sid

\* tryCompleteStream
Complete(r, u) == u.kind # "control" /\ u.sid \in r.ready \cap r.ended

Http2Frame(r) ==
    LET u == Head(r.stream)
        s == AfterFrame(r, u)
    IN IF FrameError(r, u) THEN Result("error", 0, r)
       ELSE IF u.kind = "rst" THEN Result("discard", 1, s)
       ELSE IF Complete(s, u)
         THEN Result("message", 1, [NewFramer(s) EXCEPT !.ready = @ \ {u.sid},
                                                        !.ended = @ \ {u.sid}])
       ELSE Result("partial", 1, s)

PostgresRequest(r) ==
    IF Head(r.stream).kind = "stmt" THEN Result("message", 1, r)
    ELSE IF Head(r.stream).kind = "other" THEN Result("nil", 1, r)
    ELSE Result("wait", 0, r)

PostgresResponse(r) ==
    IF Head(r.stream).kind \in {"stmt", "other"} THEN Result("nil", 1, r)
                                                 ELSE Result("wait", 0, r)

ParseRequest(protocol, r) ==
    IF protocol = "HTTP1" THEN Http1Request(r)
    ELSE IF protocol = "HTTP2" THEN Http2Frame(r)
    ELSE PostgresRequest(r)

ParseResponse(protocol, r) ==
    IF protocol = "HTTP1" THEN Http1Response(r)
    ELSE IF protocol = "HTTP2" THEN Http2Frame(r)
    ELSE PostgresResponse(r)
=============================================================================
