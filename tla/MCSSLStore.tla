----------------------------- MODULE MCSSLStore -----------------------------
(* SSLStore on scripts of SSL events: the captures the runs start from.     *)
EXTENDS SSLStore, TLC

CONSTANTS c1, c2, c3   \* connections

U(kind, x) == [kind |-> kind, x |-> x, sid |-> 0, eh |-> FALSE, es |-> FALSE,
               ok |-> TRUE]

Bad(kind, x) == [U(kind, x) EXCEPT !.ok = FALSE]

\* An HTTP/2 frame of stream sid with the flags END_HEADERS and END_STREAM.
F(kind, sid, eh, es) == [U(kind, sid) EXCEPT !.sid = sid, !.eh = eh, !.es = es]

Write(k, u) == [dir |-> "request", key |-> k, unit |-> u]
Read(k, u) == [dir |-> "response", key |-> k, unit |-> u]

\* Two HTTP/1 exchanges one after the other on a connection that is kept.
Plain(k) == << Write(k, U("msg", 1)), Read(k, U("msg", 1)),
               Write(k, U("msg", 2)), Read(k, U("msg", 2)) >>

\* A request in two buffers, then a chunked response, then a second exchange.
Chunked(k) == << Write(k, U("part", 1)), Write(k, U("rest", 1)),
                 Read(k, U("head", 1)), Read(k, U("half", 1)), Read(k, U("rest", 1)),
                 Read(k, U("end", 1)),
                 Write(k, U("msg", 2)), Read(k, U("msg", 2)) >>

\* Bodies that cannot be decoded, and a response stream that breaks.
Broken(k) == << Write(k, U("msg", 1)), Read(k, Bad("msg", 1)),
                Write(k, Bad("msg", 2)), Read(k, U("msg", 2)),
                Write(k, U("msg", 3)), Read(k, U("junk", 3)),
                Write(k, U("msg", 4)), Read(k, U("msg", 4)) >>

\* A response without Content-Length, and a second exchange at that address.
Bare(k) == << Write(k, U("msg", 1)), Read(k, U("bare", 1)),
              Write(k, U("msg", 2)), Read(k, U("msg", 2)) >>

Http1Scripts == {Plain(c1), Chunked(c1), Broken(c1), Bare(c1)}

\* Two HTTP/2 streams, answered in the other order; headers in two frames.
Streams(k) == << Write(k, F("control", 0, FALSE, FALSE)),
                 Write(k, F("headers", 1, FALSE, TRUE)),
                 Write(k, F("continuation", 1, TRUE, FALSE)),
                 Write(k, F("headers", 3, TRUE, FALSE)),
                 Write(k, F("data", 3, FALSE, TRUE)),
                 Read(k, F("headers", 3, TRUE, FALSE)),
                 Read(k, F("data", 3, FALSE, TRUE)),
                 Read(k, F("headers", 1, TRUE, TRUE)) >>

\* A stream reset by the server, one by the client, and a broken frame order.
Resets(k) == << Write(k, F("headers", 1, TRUE, TRUE)),
                Write(k, F("headers", 3, TRUE, FALSE)),
                Write(k, F("rst", 3, FALSE, FALSE)),
                Read(k, F("rst", 1, FALSE, FALSE)),
                Write(k, F("headers", 5, TRUE, FALSE)),
                Read(k, F("continuation", 5, TRUE, FALSE)),
                Write(k, F("data", 5, FALSE, TRUE)),
                Read(k, F("headers", 5, TRUE, TRUE)) >>

Http2Scripts == {Streams(c3), Resets(c3)}

\* A Postgres connection beside an HTTP/1 connection, and unknown bytes.
Mixed == << Write(c1, U("startup", 0)), Write(c2, U("msg", 1)),
            Read(c1, U("other", 0)), Write(c1, U("stmt", 1)),
            Read(c2, U("msg", 1)), Write(c1, U("other", 2)),
            Write(c1, U("stmt", 3)), Write(c1, U("short", 4)),
            Write(c2, U("msg", 2)) >>

Unknown == << Write(c2, U("msg", 1)), Write(c1, U("stmt", 1)), Read(c2, U("junk", 1)),
              Read(c1, U("other", 1)), Write(c2, U("msg", 2)), Read(c2, U("msg", 2)) >>

\* Two HTTP/1 connections at once.
Interleaved == << Write(c1, U("msg", 1)), Write(c2, U("msg", 1)), Read(c2, U("msg", 1)),
                  Write(c2, U("msg", 2)), Read(c1, U("msg", 1)), Read(c2, U("msg", 2)) >>

MixedScripts == {Mixed, Unknown, Interleaved}

Exchanges == Http1Scripts \cup Http2Scripts \cup MixedScripts

PlainScript == {Plain(c1)}

\* One request that is never answered, one response that is never completed.
UnansweredScripts == {<< Write(c1, U("msg", 1)) >>, << Read(c1, U("part", 1)) >>}

\* The order that MessagesInOrder asks of the captures.
ASSUME CapturesOrdered == Ordered
=============================================================================
