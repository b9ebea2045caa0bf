----------------------------- MODULE SSLStore -----------------------------
(***************************************************************************)
(* tls/protocol.go: the store that turns captured SSL_write / SSL_read     *)
(* buffers into HTTP and Postgres records.  Probe goroutines call Add; one *)
(* goroutine, Parse, runs parseRequest and then parseResponse at every     *)
(* tick of one second.  A request and its response are correlated by the   *)
(* session key kept for their scope (connection, HTTP/2 stream) between    *)
(* the two emissions.                                                      *)
(*                                                                         *)
(* A buffer is abstracted to one unit: what one iteration of the parsing   *)
(* loop consumes (an HTTP/1 message, head or chunk, an HTTP/2 frame, a     *)
(* Postgres statement), or one of the two halves of a message that arrived *)
(* in two buffers.  Byte counts are the subject of module SSLRecord.       *)
(***************************************************************************)
EXTENDS Naturals, Sequences, FiniteSets, SSLParser

CONSTANTS Keys,     \* SSLKey values: thread, user, SSL pointer, cgroup
          Scripts,  \* sequences of SSL events a run may capture
          NoKey,    \* no stream is being parsed
          Paced     \* keys whose events come at least a tick after the one before

VARIABLES
    todo,       \* SSL events not yet captured, in capture order
    records,    \* records[d][k]: SSLStore.Request and SSLStore.Response
    protocol,   \* protocolCache
    sessions,   \* session key of each scope, 0 if none
    index,      \* sessionScopes: scopes indexed by connection
    nextKey,    \* the next generated session key
    due,        \* nextCleanup has passed
    pc,         \* where the Parse goroutine is
    pending,    \* keys the range loop has still to visit
    cur,        \* key whose stream is being parsed, or NoKey
    settled,    \* a whole tick has run since the last Add
    out,        \* history: messages emitted, in order
    lost        \* history: session keys dropped before their response

cacheVars == <<sessions, index, nextKey, lost>>
loopVars == <<pc, pending, cur>>
vars == <<todo, records, protocol, sessions, index, nextKey, due, pc, pending,
          cur, settled, out, lost>>

Dirs == {"request", "response"}

\* What TLSProbe.handle passes to Add: direction, connection, data.
Event == [dir : Dirs, key : Keys, unit : Unit]

ASSUME StoreAssumption ==
    /\ Scripts \subseteq Seq(Event)
    /\ Paced \subseteq Keys
    /\ NoKey \notin Keys
    /\ NoRecord \notin Record

Scopes == Keys \X StreamIDs

\* Mutant: the streams of an HTTP/2 connection share one scope.
ScopeOfConnection(k, sid) == <<k, 0>>

\* sessionScopeForKey
Scope(k, sid) == <<k, sid>>

Present(d) == {k \in Keys : records[d][k] # NoRecord}

Init ==
    /\ todo \in Scripts
    /\ records = [d \in Dirs |-> [k \in Keys |-> NoRecord]]
    /\ protocol = [k \in Keys |-> "Unknown"]
    /\ sessions = [s \in Scopes |-> 0]
    /\ index = {}
    /\ nextKey = 1
    /\ due = FALSE
    /\ pc = "idle"
    /\ pending = {}
    /\ cur = NoKey
    /\ settled = TRUE
    /\ out = << >>
    /\ lost = {}

-----------------------------------------------------------------------------
(* The session cache and its index. *)

Live(scopes) == {s \in scopes : sessions[s] # 0}

\* The session keys of these scopes go before a response has used them.
Lose(scopes) == lost' = lost \cup {sessions[s] : s \in Live(scopes)}

\* Mutant: a key is generated for every message.
SessionKeyFresh(s) == nextKey

\* The body of ensureSessionKey.
SessionKey(s) == IF sessions[s] # 0 THEN sessions[s] ELSE nextKey

\* Mutant: the scope is not indexed.
ensureSessionKeyUnindexed(s) ==
    /\ sessions' = [sessions EXCEPT ![s] = SessionKey(s)]
    /\ nextKey' = IF sessions[s] # 0 THEN nextKey ELSE nextKey + 1
    /\ UNCHANGED index

ensureSessionKey(s) ==
    /\ sessions' = [sessions EXCEPT ![s] = SessionKey(s)]
    /\ index' = IF sessions[s] # 0 THEN index ELSE index \cup {s}
    /\ nextKey' = IF sessions[s] # 0 THEN nextKey ELSE nextKey + 1

deleteSessionKey(s) ==
    /\ sessions' = [sessions EXCEPT ![s] = 0]
    /\ index' = index \ {s}

\* Mutant: the response does not release the key it has used.
UseSessionKeyKept(s) == ensureSessionKey(s)

\* ensureSessionKey followed by deleteSessionKey, as a response does.
UseSessionKey(s) ==
    /\ deleteSessionKey(s)
    /\ nextKey' = IF sessions[s] # 0 THEN nextKey ELSE nextKey + 1

\* For each of the connections ks, sessionScopesForConn prunes the expired
\* scopes and returns the others, which are then deleted one by one.
deleteConnectionSessions(ks) ==
    LET indexed == index \cap (ks \X StreamIDs) IN
    /\ sessions' = [s \in Scopes |-> IF s \in indexed THEN 0 ELSE sessions[s]]
    /\ index' = index \ indexed
    /\ Lose(indexed)
    /\ UNCHANGED nextKey

-----------------------------------------------------------------------------
(* Capturing: Add, called by TLSProbe.handle in the order of the ring. *)

\* Add waits for the mutex of its direction, which a parse pass holds.
Locked(d) == pc = d

\* The record a key has after SSLRecord.Append, created when it had none.
Appended(r, u) ==
    LET record == IF r = NoRecord THEN NewRecord ELSE r IN
    [record EXCEPT !.stream = Append(@, u), !.stale = FALSE]

Add ==
    /\ todo # << >>
    /\ Head(todo).key \in Paced => pc = "idle" /\ settled
    /\ LET e == Head(todo) IN
         /\ ~Locked(e.dir)
         /\ records' = [records EXCEPT ![e.dir][e.key] = Appended(@, e.unit)]
    /\ todo' = Tail(todo)
    /\ settled' = FALSE
    /\ UNCHANGED <<protocol, cacheVars, due, loopVars, out>>

-----------------------------------------------------------------------------
(* Time: the expiry of the two caches, stale records, the cleanup deadline. *)

\* protocolCache expires on access and every tick accesses the entry of each
\* key that has a record.
ExpireProtocol(k) ==
    /\ protocol[k] # "Unknown"
    /\ \A d \in Dirs : records[d][k] = NoRecord
    /\ protocol' = [protocol EXCEPT ![k] = "Unknown"]
    /\ UNCHANGED <<todo, records, cacheVars, due, loopVars, settled, out>>

\* sessionTTL passes without a use of the scope; the index is not told.
ExpireSession(s) ==
    /\ sessions[s] # 0
    /\ sessions' = [sessions EXCEPT ![s] = 0]
    /\ Lose({s})
    /\ UNCHANGED <<todo, records, protocol, index, nextKey, due, loopVars,
                   settled, out>>

\* recordTTL passes without an Append to the record.
GoStale(d, k) ==
    /\ records[d][k] # NoRecord
    /\ ~records[d][k].stale
    /\ records' = [records EXCEPT ![d][k].stale = TRUE]
    /\ UNCHANGED <<todo, protocol, cacheVars, due, loopVars, settled, out>>

\* cleanupInterval passes.
CleanupDue ==
    /\ ~due
    /\ due' = TRUE
    /\ UNCHANGED <<todo, records, protocol, cacheVars, loopVars, settled, out>>

-----------------------------------------------------------------------------
(* Parse: parseRequest, then parseResponse, at every tick. *)

Entering(d) == IF d = "request" THEN "enterRequest" ELSE "enterResponse"

Before(d) == IF d = "request" THEN "idle" ELSE "between"

\* The records cleanupStaleRequestRecords or cleanupStaleResponseRecords drops.
Stale(d) == {k \in Present(d) : records[d][k].stale}

Without(d, ks) ==
    [records EXCEPT ![d] = [k \in Keys |-> IF k \in ks THEN NoRecord ELSE @[k]]]

\* A response record that goes takes the sessions of its connection with it.
DropSessions(d, ks) ==
    IF d = "response" THEN deleteConnectionSessions(ks) ELSE UNCHANGED cacheVars

\* The call's first lines: shouldCleanup, one deadline for both directions.
Start(d) ==
    /\ pc = Before(d)
    /\ pc' = Entering(d)
    /\ due' = FALSE
    /\ \/ /\ due
          /\ records' = Without(d, Stale(d))
          /\ DropSessions(d, Stale(d))
       \/ /\ ~due
          /\ UNCHANGED <<records, cacheVars>>
    /\ UNCHANGED <<todo, protocol, pending, cur, settled, out>>

\* The mutex of the direction is taken and the map is ranged over.
Lock(d) ==
    /\ pc = Entering(d)
    /\ pc' = d
    /\ pending' = Present(d)
    /\ UNCHANGED <<todo, records, protocol, cacheVars, due, cur, settled, out>>

\* The protocol of a connection is cached at its first detection.
ProtocolOf(d, k) ==
    IF protocol[k] # "Unknown" THEN protocol[k]
                               ELSE Detected(Head(records[d][k].stream))

Visit(d, k) ==
    /\ pc = d
    /\ cur = NoKey
    /\ k \in pending
    /\ pending' = pending \ {k}
    /\ \/ /\ ProtocolOf(d, k) = "Unknown"
          /\ records' = Without(d, {k})
          /\ DropSessions(d, {k})
          /\ UNCHANGED <<protocol, cur>>
       \/ /\ ProtocolOf(d, k) # "Unknown"
          /\ cur' = k
          /\ protocol' = [protocol EXCEPT ![k] = ProtocolOf(d, k)]
          /\ records' = [records EXCEPT ![d][k] =
                           NewFramer(IF protocol[k] # "Unknown" THEN @
                                                                ELSE AfterDetection(@))]
          /\ UNCHANGED cacheVars
    /\ UNCHANGED <<todo, due, pc, settled, out>>

\* One call of the parser of the connection's protocol.
ParseOf(d, k) ==
    IF d = "request" THEN ParseRequest(protocol[k], records[d][k])
                     ELSE ParseResponse(protocol[k], records[d][k])

\* The record after an iteration: consumeRecord, and the deletion of a
\* record that is consumed to its end, except for HTTP/2.
Consumed(k, res) ==
    IF /\ res.rec.stream = << >>
       /\ res.outcome \in {"nil", "message"}
       /\ protocol[k] # "HTTP2"
      THEN NoRecord
      ELSE res.rec

\* The record after an emission, which also forgets LastResp.
Emitted(k, res) ==
    IF Consumed(k, res) = NoRecord THEN NoRecord ELSE [res.rec EXCEPT !.chunked = FALSE]

Message(d, k, u, key) == [dir |-> d, key |-> k, sid |-> u.sid, x |-> u.x, session |-> key]

\* The send on the channel never blocks: a full channel drops the message,
\* after its session key has been taken.  Both count as emitted here.
Emit(d, k, u) ==
    \/ /\ protocol[k] = "Postgres"
       /\ out' = Append(out, Message(d, k, u, 0))
       /\ UNCHANGED cacheVars
    \/ /\ protocol[k] # "Postgres"
       /\ out' = Append(out, Message(d, k, u, SessionKey(Scope(k, u.sid))))
       /\ \/ d = "request" /\ ensureSessionKey(Scope(k, u.sid))
          \/ d = "response" /\ UseSessionKey(Scope(k, u.sid))
       /\ UNCHANGED lost

\* The loop's condition fails: the record is deleted or its stream empty.
Exhausted(r) == IF r = NoRecord THEN TRUE ELSE r.stream = << >>

\* One iteration of the loop over the stream of key k.
Iterate(d, k) ==
    LET r   == records[d][k]
        u   == Head(r.stream)
        res == ParseOf(d, k)
        put(rec) == records' = [records EXCEPT ![d][k] = rec]
    IN
    \/ /\ Exhausted(r)
       /\ cur' = NoKey
       /\ UNCHANGED <<records, cacheVars, out>>
    \/ /\ ~Exhausted(r)
       /\ \/ /\ res.outcome = "error"
             /\ put(NoRecord)
             /\ DropSessions(d, {k})
             /\ cur' = NoKey
             /\ UNCHANGED out
          \/ /\ res.outcome = "wait"
             /\ cur' = NoKey
             /\ UNCHANGED <<records, cacheVars, out>>
          \/ /\ \/ res.outcome \in {"nil", "partial"}
                \/ d = "request" /\ res.outcome = "discard"
                \/ d = "request" /\ res.outcome = "message" /\ ~u.ok
             /\ put(Consumed(k, res))
             /\ UNCHANGED <<cur, cacheVars, out>>
          \/ /\ d = "response"
             /\ res.outcome = "discard" \/ (res.outcome = "message" /\ ~u.ok)
             /\ put(Consumed(k, res))
             /\ deleteSessionKey(Scope(k, u.sid))
             /\ Lose({Scope(k, u.sid)})
             /\ UNCHANGED <<cur, nextKey, out>>
          \/ /\ res.outcome = "message" /\ u.ok
             /\ put(Emitted(k, res))
             /\ Emit(d, k, u)
             /\ cur' = NoKey

Loop(d) ==
    /\ pc = d
    /\ cur # NoKey
    /\ Iterate(d, cur)
    /\ UNCHANGED <<todo, protocol, due, pc, pending, settled>>

\* Mutant: a tick ends after parseRequest.
FinishRequestsOnly(d) ==
    /\ pc = d
    /\ cur = NoKey
    /\ pending = {}
    /\ pc' = "idle"
    /\ settled' = TRUE
    /\ UNCHANGED <<todo, records, protocol, cacheVars, due, pending, cur, out>>

Finish(d) ==
    /\ pc = d
    /\ cur = NoKey
    /\ pending = {}
    /\ pc' = IF d = "request" THEN "between" ELSE "idle"
    /\ settled' = TRUE
    /\ UNCHANGED <<todo, records, protocol, cacheVars, due, pending, cur, out>>

Parse ==
    \E d \in Dirs : \/ Start(d)
                    \/ Lock(d)
                    \/ \E k \in Keys : Visit(d, k)
                    \/ Loop(d)
                    \/ Finish(d)

Next ==
    \/ Add
    \/ \E k \in Keys : ExpireProtocol(k)
    \/ \E s \in Scopes : ExpireSession(s)
    \/ \E d \in Dirs, k \in Keys : GoStale(d, k)
    \/ CleanupDue
    \/ Parse

Spec == Init /\ [][Next]_vars

\* The ticker keeps firing and the Parse goroutine keeps being scheduled.
FairSpec == Spec /\ WF_vars(Parse)

\* ... and time passes: cleanupInterval elapses again and again.
TimedSpec == FairSpec /\ WF_vars(CleanupDue)

-----------------------------------------------------------------------------
TypeOK ==
    /\ todo \in Seq(Event)
    /\ records \in [Dirs -> [Keys -> Record \cup {NoRecord}]]
    /\ protocol \in [Keys -> Protocols]
    /\ sessions \in [Scopes -> Nat]
    /\ index \subseteq Scopes
    /\ nextKey \in Nat \ {0}
    /\ due \in BOOLEAN
    /\ pc \in Dirs \cup {"idle", "between", "enterRequest", "enterResponse"}
    /\ pending \subseteq Keys
    /\ cur \in Keys \cup {NoKey}
    /\ settled \in BOOLEAN
    /\ out \in Seq([dir : Dirs, key : Keys, sid : StreamIDs, x : Nat, session : Nat])
    /\ lost \subseteq Nat

IsRequest(m) == m.dir = "request" /\ m.session # 0

IsResponse(m) == m.dir = "response"

(***************************************************************************)
(* Every live session is in the connection index, so the deletions that go *)
(* through sessionScopesForConn (parse error, unknown protocol, stale      *)
(* response record) leave no session of the connection behind.             *)
(***************************************************************************)
SessionsIndexed == Live(Scopes) \subseteq index

(***************************************************************************)
(* Messages that carry the same session key come from the same connection, *)
(* and at most one of them is a response: generateSessionKey is called     *)
(* once per scope and parseResponse releases the key when it has used it.  *)
(***************************************************************************)
KeyIsolation ==
    \A i, j \in 1 .. Len(out) :
        out[i].session = out[j].session /\ out[i].session # 0 =>
            /\ out[i].key = out[j].key
            /\ IsResponse(out[i]) /\ IsResponse(out[j]) => i = j

(***************************************************************************)
(* Two requests never carry the same session key                           *)
(* (protocol_test.go: "second request reused session key").                *)
(***************************************************************************)
RequestKeysDistinct ==
    \A i, j \in 1 .. Len(out) :
        /\ IsRequest(out[i]) /\ IsRequest(out[j])
        /\ out[i].session = out[j].session
        => i = j

(***************************************************************************)
(* A response emitted after its request carries the request's session key, *)
(* unless that key expired or was dropped with a broken response stream.   *)
(***************************************************************************)
ResponsePaired ==
    \A i, j \in 1 .. Len(out) :
        /\ i < j /\ IsRequest(out[i]) /\ IsResponse(out[j])
        /\ out[i].key = out[j].key /\ out[i].x = out[j].x
        => out[i].session \in {out[j].session} \cup lost

\* The frame that ends its side of an HTTP/2 stream.
Ends(u) == u.kind \in {"headers", "data"} /\ u.es

\* The units without which a message is not complete.
Completes(u) == u.kind \in {"msg", "part", "end", "bare", "stmt"} \/ Ends(u)

\* v may follow u: exchanges of a scope are numbered in order, each has one unit
\* that completes it, and an HTTP/2 stream is for one exchange.
Follows(u, v) ==
    u.sid = v.sid /\ Completes(u) /\ Completes(v) => u.x < v.x /\ ~Ends(u) /\ ~Ends(v)

SameRecord(e, f) == e.dir = f.dir /\ e.key = f.key

\* Every capture has its units in such an order.
Ordered ==
    \A script \in Scripts : \A i, j \in 1 .. Len(script) :
        i < j /\ SameRecord(script[i], script[j]) => Follows(script[i].unit, script[j].unit)

(***************************************************************************)
(* The exchanges of a connection, or of an HTTP/2 stream, are numbered in  *)
(* the order the application writes them; parseRequest and parseResponse   *)
(* emit each at most once, and in that order, however the stream was cut   *)
(* into buffers.                                                           *)
(***************************************************************************)
EmittedInOrder ==
    \A i, j \in 1 .. Len(out) :
        /\ i < j /\ out[i].dir = out[j].dir
        /\ out[i].key = out[j].key /\ out[i].sid = out[j].sid
        => out[i].x < out[j].x

\* Nothing a parser could still consume is left in the record.
Drained(d, k) ==
    LET r == records[d][k] IN
    \/ Exhausted(r)
    \/ protocol[k] # "Unknown" /\ ParseOf(d, k).outcome = "wait"

(***************************************************************************)
(* Once nothing more is captured, every buffered message gets parsed, one  *)
(* per connection and tick, until at most an unfinished one is left: the   *)
(* parsing loops never stop on a stream they could go on with.             *)
(***************************************************************************)
EventuallyDrained ==
    (todo = << >>) ~> (\A d \in Dirs, k \in Keys : Drained(d, k))

(***************************************************************************)
(* A response record that has seen no data for recordTTL is evicted        *)
(* (protocol_test.go: "expected stale response record to be evicted").     *)
(***************************************************************************)
StaleResponsesEvicted ==
    \A k \in Keys :
        (k \in Stale("response")) ~> (k \notin Stale("response"))
=============================================================================
