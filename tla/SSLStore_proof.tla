--------------------------- MODULE SSLStore_proof ---------------------------
(* Proofs about SSLStore: types, the session index, isolation of keys, the  *)
(* order of messages.                                                       *)
EXTENDS SSLStore, TLAPS

\* Leaves are for Zenon; those about numbers, sequences and records name SMT.
USE ZenonT(20)

-----------------------------------------------------------------------------
(* The parsers. *)

LEMMA HeadUnit ==
    ASSUME NEW r \in Record, r.stream # << >>
    PROVE  /\ Head(r.stream) \in Unit
           /\ Len(r.stream) \in Nat \ {0}
           /\ Tail(r.stream) \in Seq(Unit)
BY SMTT(20) DEF Record

LEMMA ResultTyped ==
    ASSUME NEW r \in Record, NEW n \in 0 .. Len(r.stream), NEW o
    PROVE  Result(o, n, r).rec \in Record
<1>1. r.stream \in Seq(Unit) /\ Len(r.stream) \in Nat
  BY SMTT(20) DEF Record
<1>2. SubSeq(r.stream, n + 1, Len(r.stream)) \in Seq(Unit)
  BY <1>1, SMTT(20)
<1> QED
  BY <1>2 DEF Result, Record

LEMMA ResultsTyped ==
    ASSUME NEW r \in Record, r.stream # << >>
    PROVE  \A o : /\ Result(o, 0, r).rec \in Record
                  /\ Result(o, 1, r).rec \in Record
                  /\ Len(r.stream) # 1 => Result(o, 2, r).rec \in Record
<1> TAKE o
<1>0. Len(r.stream) \in Nat \ {0}
  BY HeadUnit
<1>1. \A n \in Nat \ {0} : /\ 0 \in 0 .. n /\ 1 \in 0 .. n
                           /\ n # 1 => 2 \in 0 .. n
  BY SMTT(20)
<1>2. Result(o, 0, r).rec \in Record
  BY <1>0, <1>1, ResultTyped
<1>3. Result(o, 1, r).rec \in Record
  BY <1>0, <1>1, ResultTyped
<1>4. Len(r.stream) # 1 => Result(o, 2, r).rec \in Record
  BY <1>0, <1>1, ResultTyped
<1> QED
  BY <1>2, <1>3, <1>4

LEMMA Http1MessageTyped ==
    ASSUME NEW r \in Record, r.stream # << >>
    PROVE  Http1Message(r).rec \in Record
BY ResultsTyped DEF Http1Message

LEMMA Http1ResponseTyped ==
    ASSUME NEW r \in Record, r.stream # << >>
    PROVE  Http1Response(r).rec \in Record
<1>3. /\ [r EXCEPT !.chunked = TRUE] \in Record
      /\ [r EXCEPT !.chunked = TRUE].stream = r.stream
  BY DEF Record
<1>4. \A o : Result(o, 1, [r EXCEPT !.chunked = TRUE]).rec \in Record
  BY <1>3, ResultsTyped
<1>5. Http1Bare(r).rec \in Record
  <2>1. [Head(r.stream) EXCEPT !.kind = "junk"] \in Unit
    BY HeadUnit DEF Unit, Kinds
  <2>2. <<[Head(r.stream) EXCEPT !.kind = "junk"]>> \o Tail(r.stream) \in Seq(Unit)
    BY <2>1, HeadUnit, SMTT(20)
  <2> QED
    BY <2>2 DEF Http1Bare, Record
<1> QED
  BY <1>4, <1>5, ResultsTyped, Http1MessageTyped DEF Http1Response, Http1Chunk

LEMMA Http2FrameTyped ==
    ASSUME NEW r \in Record, r.stream # << >>
    PROVE  Http2Frame(r).rec \in Record
<1> DEFINE u == Head(r.stream)
           s == AfterFrame(r, u)
           c == [NewFramer(s) EXCEPT !.ready = @ \ {u.sid}, !.ended = @ \ {u.sid}]
<1>1. Len(r.stream) \in Nat \ {0} /\ u \in Unit
  BY HeadUnit
<1>2. u.sid \in StreamIDs /\ 0 \in StreamIDs
  BY <1>1, StreamAssumption DEF Unit
<1>3. s \in Record /\ s.stream = r.stream
  BY ZenonT(30), <1>2 DEF AfterFrame, Record
<1>4. c \in Record /\ c.stream = r.stream
  BY <1>2, <1>3 DEF NewFramer, Record
<1>5. \A o : /\ Result(o, 0, r).rec \in Record
             /\ Result(o, 1, s).rec \in Record
             /\ Result(o, 1, c).rec \in Record
  BY <1>3, <1>4, ResultsTyped
<1> HIDE DEF u, s, c
<1>6. Http2Frame(r) \in {Result("error", 0, r), Result("discard", 1, s),
                         Result("message", 1, c), Result("partial", 1, s)}
  BY DEF Http2Frame, u, s, c
<1> QED
  BY <1>5, <1>6

LEMMA PostgresTyped ==
    ASSUME NEW r \in Record, r.stream # << >>
    PROVE  PostgresRequest(r).rec \in Record /\ PostgresResponse(r).rec \in Record
BY ResultsTyped DEF PostgresRequest, PostgresResponse

LEMMA ParserTyped ==
    ASSUME NEW r \in Record, r.stream # << >>, NEW p \in Protocols \ {"Unknown"}
    PROVE  ParseRequest(p, r).rec \in Record /\ ParseResponse(p, r).rec \in Record
BY Http1MessageTyped, Http1ResponseTyped, Http2FrameTyped, PostgresTyped
   DEF ParseRequest, ParseResponse, Protocols, Http1Request

-----------------------------------------------------------------------------
(* The inductive invariant. *)

\* The parse loops: a key still to be visited has a record, a key being parsed
\* has a protocol, and detectProtocol never sees an empty stream.
LoopInv ==
    /\ pc \in Dirs => \A k \in pending : records[pc][k] # NoRecord /\ k # cur
    /\ cur # NoKey => /\ pc \in Dirs
                      /\ records[pc][cur] # NoRecord => protocol[cur] # "Unknown"
    /\ \A d \in Dirs, k \in Keys :
         records[d][k] # NoRecord /\ protocol[k] = "Unknown"
            => records[d][k].stream # << >>

\* Keys are generated in order, live in one scope at most, and while a key is
\* live only requests of its connection have carried it.
KeyInv ==
    /\ \A s \in Scopes : sessions[s] < nextKey
    /\ \A s, t \in Scopes : sessions[s] = sessions[t] /\ sessions[s] # 0 => s = t
    /\ \A i \in 1 .. Len(out) : out[i].session < nextKey
    /\ \A i \in 1 .. Len(out), s \in Scopes :
         out[i].session = sessions[s] /\ sessions[s] # 0
            => s[1] = out[i].key /\ ~IsResponse(out[i])

IInv == TypeOK /\ LoopInv /\ SessionsIndexed /\ KeyInv /\ KeyIsolation

LEMMA InitIInv == Init => IInv
<1> SUFFICES ASSUME Init PROVE IInv
  OBVIOUS
<1>1. TypeOK
  <2>1. todo \in Seq(Event)
    BY StoreAssumption DEF Init
  <2>2. /\ records \in [Dirs -> [Keys -> Record \cup {NoRecord}]]
        /\ protocol \in [Keys -> Protocols]
        /\ sessions \in [Scopes -> Nat]
    BY DEF Init, Protocols
  <2>3. /\ index \subseteq Scopes /\ nextKey \in Nat \ {0} /\ lost \subseteq Nat
        /\ out \in Seq([dir : Dirs, key : Keys, sid : StreamIDs, x : Nat, session : Nat])
    BY SMTT(20) DEF Init
  <2>4. /\ due \in BOOLEAN /\ settled \in BOOLEAN /\ pending \subseteq Keys
        /\ pc \in Dirs \cup {"idle", "between", "enterRequest", "enterResponse"}
        /\ cur \in Keys \cup {NoKey}
    BY DEF Init
  <2> QED
    BY <2>1, <2>2, <2>3, <2>4 DEF TypeOK
<1>2. LoopInv
  BY DEF Init, LoopInv, Dirs
<1>3. SessionsIndexed /\ KeyInv /\ KeyIsolation
  BY SMTT(20) DEF Init, SessionsIndexed, Live, KeyInv, KeyIsolation
<1> QED
  BY <1>1, <1>2, <1>3 DEF IInv

-----------------------------------------------------------------------------
(* What a step does to the cache and to the messages. *)

\* Some scopes lose their session, and the index forgets no other.
Shrinks ==
    /\ nextKey' = nextKey
    /\ out' = out
    /\ sessions' \in [Scopes -> Nat]
    /\ index' \subseteq Scopes
    /\ lost' \subseteq Nat
    /\ \A s \in Scopes : sessions'[s] \in {0, sessions[s]}
    /\ \A s \in index \ index' : sessions'[s] = 0

\* A message with the key of its scope, or a Postgres statement.
Emits ==
    \E d \in Dirs, k \in Keys, u \in Unit : protocol[k] # "Unknown" /\ Emit(d, k, u)

LEMMA DeleteShrinks ==
    ASSUME TypeOK, NEW ks \in SUBSET Keys, deleteConnectionSessions(ks), out' = out
    PROVE  Shrinks
<1> DEFINE indexed == index \cap (ks \X StreamIDs)
<1>1. sessions' = [s \in Scopes |-> IF s \in indexed THEN 0 ELSE sessions[s]]
  BY DEF deleteConnectionSessions
<1>2. index' = index \ indexed /\ nextKey' = nextKey
  BY DEF deleteConnectionSessions
<1>3. sessions \in [Scopes -> Nat] /\ index \subseteq Scopes /\ lost \subseteq Nat
  BY DEF TypeOK
<1>4. lost' \subseteq Nat
  BY <1>3 DEF deleteConnectionSessions, Lose, Live
<1> HIDE DEF indexed
<1> QED
  BY <1>1, <1>2, <1>3, <1>4 DEF Shrinks

LEMMA DropShrinks ==
    ASSUME TypeOK, NEW d \in Dirs, NEW ks \in SUBSET Keys, DropSessions(d, ks), out' = out
    PROVE  Shrinks
<1>1. CASE d = "response"
  BY <1>1, DeleteShrinks DEF DropSessions
<1>2. CASE d # "response"
  BY <1>2 DEF DropSessions, cacheVars, Shrinks, TypeOK
<1> QED
  BY <1>1, <1>2

LEMMA ForgetShrinks ==
    ASSUME TypeOK, NEW s \in Scopes, deleteSessionKey(s), Lose({s}),
           nextKey' = nextKey, out' = out
    PROVE  Shrinks
BY DEF deleteSessionKey, Lose, Live, Shrinks, TypeOK

LEMMA IterateTyped ==
    ASSUME IInv, NEW d \in Dirs, pc = d, cur # NoKey, Iterate(d, cur)
    PROVE  /\ records' \in [Dirs -> [Keys -> Record \cup {NoRecord}]]
           /\ cur' \in {cur, NoKey}
           /\ \A e \in Dirs, k \in Keys : <<e, k>> # <<d, cur>> => records'[e][k] = records[e][k]
           /\ ~Exhausted(records[d][cur]) => protocol[cur] # "Unknown"
           /\ Shrinks \/ Emits
<1> DEFINE r == records[d][cur]
           u == Head(r.stream)
           res == ParseOf(d, cur)
<1>1. /\ cur \in Keys
      /\ r \in Record \cup {NoRecord}
      /\ records \in [Dirs -> [Keys -> Record \cup {NoRecord}]]
      /\ protocol[cur] \in Protocols
  BY DEF IInv, TypeOK
<1>2. CASE Exhausted(r)
  <2>1. cur' = NoKey /\ UNCHANGED <<records, cacheVars, out>>
    BY <1>2 DEF Iterate
  <2>2. Shrinks
    BY <2>1 DEF cacheVars, Shrinks, IInv, TypeOK
  <2> QED
    BY <1>1, <1>2, <2>1, <2>2
<1>3. CASE ~Exhausted(r)
  <2>1. r \in Record /\ r.stream # << >>
    BY <1>1, <1>3 DEF Exhausted
  <2>2. protocol[cur] \in Protocols \ {"Unknown"}
    BY <1>1, <2>1, StoreAssumption DEF IInv, LoopInv
  <2>3. u \in Unit
    BY <2>1, HeadUnit
  <2>4. res.rec \in Record
    BY <2>1, <2>2, ParserTyped DEF ParseOf
  <2>5. /\ Consumed(cur, res) \in Record \cup {NoRecord}
        /\ Emitted(cur, res) \in Record \cup {NoRecord}
    BY <2>4 DEF Consumed, Emitted, Record
  <2>6. Scope(cur, u.sid) \in Scopes
    BY <1>1, <2>3 DEF Scope, Scopes, Unit
  <2> DEFINE put(rec) == records' = [records EXCEPT ![d][cur] = rec]
  <2> HIDE DEF r, u, res
  <2>7. \/ put(NoRecord) /\ DropSessions(d, {cur}) /\ cur' = NoKey /\ out' = out
        \/ cur' = NoKey /\ UNCHANGED <<records, cacheVars, out>>
        \/ put(Consumed(cur, res)) /\ UNCHANGED <<cur, cacheVars, out>>
        \/ /\ put(Consumed(cur, res))
           /\ deleteSessionKey(Scope(cur, u.sid)) /\ Lose({Scope(cur, u.sid)})
           /\ UNCHANGED <<cur, nextKey, out>>
        \/ put(Emitted(cur, res)) /\ Emit(d, cur, u) /\ cur' = NoKey
    BY <1>3 DEF Iterate, r, u, res
  <2>8. \/ \E rec \in Record \cup {NoRecord} : put(rec)
        \/ records' = records
    BY <2>5, <2>7
  <2>9. /\ records' \in [Dirs -> [Keys -> Record \cup {NoRecord}]]
        /\ \A e \in Dirs, k \in Keys : <<e, k>> # <<d, cur>> => records'[e][k] = records[e][k]
    BY <1>1, <2>8, SMTT(20)
  <2>10. Shrinks \/ Emits
    <3>1. UNCHANGED <<cacheVars, out>> => Shrinks
      BY DEF cacheVars, Shrinks, IInv, TypeOK
    <3>2. DropSessions(d, {cur}) /\ out' = out => Shrinks
      BY <1>1, DropShrinks DEF IInv
    <3>3. /\ deleteSessionKey(Scope(cur, u.sid)) /\ Lose({Scope(cur, u.sid)})
          /\ UNCHANGED <<nextKey, out>>
          => Shrinks
      BY <2>6, ForgetShrinks DEF IInv
    <3>4. Emit(d, cur, u) => Emits
      BY <1>1, <2>2, <2>3 DEF Emits, u
    <3> QED
      BY <2>7, <3>1, <3>2, <3>3, <3>4
  <2> QED
    BY <2>2, <2>7, <2>9, <2>10
<1> QED
  BY <1>2, <1>3

LEMMA NextCache == IInv /\ [Next]_vars => Shrinks \/ Emits
<1> SUFFICES ASSUME IInv, [Next]_vars PROVE Shrinks \/ Emits
  OBVIOUS
<1>0. UNCHANGED <<cacheVars, out>> => Shrinks
  BY DEF cacheVars, Shrinks, IInv, TypeOK
<1>1. CASE Add
  BY <1>0, <1>1 DEF Add
<1>2. ASSUME NEW k \in Keys, ExpireProtocol(k) PROVE Shrinks
  BY <1>0, <1>2 DEF ExpireProtocol
<1>3. ASSUME NEW s \in Scopes, ExpireSession(s) PROVE Shrinks
  BY <1>3 DEF ExpireSession, Lose, Live, Shrinks, IInv, TypeOK
<1>4. ASSUME NEW d \in Dirs, NEW k \in Keys, GoStale(d, k) PROVE Shrinks
  BY <1>0, <1>4 DEF GoStale
<1>5. CASE CleanupDue
  BY <1>0, <1>5 DEF CleanupDue
<1>6. ASSUME NEW d \in Dirs, Start(d) PROVE Shrinks
  <2>1. Stale(d) \in SUBSET Keys
    BY DEF Stale, Present
  <2>2. out' = out /\ (DropSessions(d, Stale(d)) \/ UNCHANGED cacheVars)
    BY <1>6 DEF Start
  <2> QED
    BY <1>0, <2>1, <2>2, DropShrinks DEF IInv
<1>7. ASSUME NEW d \in Dirs, Lock(d) \/ Finish(d) PROVE Shrinks
  BY <1>0, <1>7 DEF Lock, Finish
<1>8. ASSUME NEW d \in Dirs, NEW k \in Keys, Visit(d, k) PROVE Shrinks
  <2>1. out' = out /\ (DropSessions(d, {k}) \/ UNCHANGED cacheVars)
    BY <1>8 DEF Visit
  <2> QED
    BY <1>0, <2>1, DropShrinks DEF IInv
<1>9. ASSUME NEW d \in Dirs, Loop(d) PROVE Shrinks \/ Emits
  BY <1>9, IterateTyped DEF Loop
<1>10. CASE UNCHANGED vars
  BY <1>0, <1>10 DEF vars, cacheVars
<1> QED
  BY <1>1, <1>2, <1>3, <1>4, <1>5, <1>6, <1>7, <1>8, <1>9, <1>10 DEF Next, Parse

\* What Emit does, in terms of the scope of the message.
LEMMA EmitEffect ==
    ASSUME TypeOK, Emits
    PROVE  \E m \in [dir : Dirs, key : Keys, sid : StreamIDs, x : Nat, session : Nat] :
              /\ out' = Append(out, m)
              /\ lost' = lost
              /\ \/ m.session = 0 /\ UNCHANGED <<sessions, index, nextKey>>
                 \/ \E s \in Scopes :
                      /\ s[1] = m.key
                      /\ m.session = SessionKey(s)
                      /\ \/ m.dir = "request" /\ ensureSessionKey(s)
                         \/ m.dir = "response" /\ UseSessionKey(s)
<1>1. PICK d \in Dirs, k \in Keys, u \in Unit : Emit(d, k, u)
  BY DEF Emits
<1>2. u.x \in Nat /\ u.sid \in StreamIDs
  BY DEF Unit
<1> DEFINE s == Scope(k, u.sid)
<1>3. s \in Scopes /\ s[1] = k
  BY <1>2 DEF Scope, Scopes
<1>4. SessionKey(s) \in Nat
  BY <1>3 DEF SessionKey, TypeOK
<1>5. CASE protocol[k] = "Postgres"
  <2> DEFINE m == Message(d, k, u, 0)
  <2>1. m \in [dir : Dirs, key : Keys, sid : StreamIDs, x : Nat, session : Nat] /\ m.session = 0
    BY <1>2 DEF Message
  <2>2. out' = Append(out, m) /\ lost' = lost /\ UNCHANGED <<sessions, index, nextKey>>
    BY <1>1, <1>5 DEF Emit, cacheVars
  <2> QED
    BY <2>1, <2>2
<1>6. CASE protocol[k] # "Postgres"
  <2> DEFINE m == Message(d, k, u, SessionKey(s))
  <2>1. m \in [dir : Dirs, key : Keys, sid : StreamIDs, x : Nat, session : Nat]
    BY <1>2, <1>4 DEF Message
  <2>2. m.session = SessionKey(s) /\ m.dir = d /\ m.key = k
    BY DEF Message
  <2>3. /\ out' = Append(out, m) /\ lost' = lost
        /\ \/ d = "request" /\ ensureSessionKey(s)
           \/ d = "response" /\ UseSessionKey(s)
    BY <1>1, <1>6 DEF Emit
  <2> HIDE DEF m, s
  <2> QED
    BY <1>3, <2>1, <2>2, <2>3
<1> QED
  BY <1>5, <1>6

LEMMA CacheTyped ==
    ASSUME TypeOK, Shrinks \/ Emits
    PROVE  /\ sessions' \in [Scopes -> Nat]
           /\ index' \subseteq Scopes
           /\ nextKey' \in Nat \ {0}
           /\ lost' \subseteq Nat
           /\ out' \in Seq([dir : Dirs, key : Keys, sid : StreamIDs, x : Nat, session : Nat])
<1>1. CASE Shrinks
  BY <1>1 DEF Shrinks, TypeOK
<1>2. CASE Emits
  <2>1. PICK m \in [dir : Dirs, key : Keys, sid : StreamIDs, x : Nat, session : Nat] :
           /\ out' = Append(out, m)
           /\ lost' = lost
           /\ \/ UNCHANGED <<sessions, index, nextKey>>
              \/ \E s \in Scopes : ensureSessionKey(s) \/ UseSessionKey(s)
    BY <1>2, EmitEffect
  <2>2. /\ sessions' \in [Scopes -> Nat]
        /\ index' \subseteq Scopes
        /\ nextKey' \in Nat \ {0}
    <3>1. sessions \in [Scopes -> Nat] /\ index \subseteq Scopes /\ nextKey \in Nat \ {0}
      BY DEF TypeOK
    <3>2. ASSUME NEW s \in Scopes, ensureSessionKey(s)
          PROVE  /\ sessions' \in [Scopes -> Nat]
                 /\ index' \subseteq Scopes
                 /\ nextKey' \in Nat \ {0}
      BY <3>1, <3>2, SMTT(20) DEF ensureSessionKey, SessionKey
    <3>3. ASSUME NEW s \in Scopes, UseSessionKey(s)
          PROVE  /\ sessions' \in [Scopes -> Nat]
                 /\ index' \subseteq Scopes
                 /\ nextKey' \in Nat \ {0}
      BY <3>1, <3>3, SMTT(20) DEF UseSessionKey, deleteSessionKey
    <3> QED
      BY <2>1, <3>1, <3>2, <3>3
  <2> QED
    BY <2>1, <2>2, SMTT(20) DEF TypeOK
<1> QED
  BY <1>1, <1>2

LEMMA CacheInv ==
    ASSUME IInv, Shrinks \/ Emits
    PROVE  SessionsIndexed' /\ KeyInv' /\ KeyIsolation'
<1> DEFINE M == [dir : Dirs, key : Keys, sid : StreamIDs, x : Nat, session : Nat]
<1>0. /\ sessions \in [Scopes -> Nat] /\ nextKey \in Nat \ {0} /\ out \in Seq(M)
      /\ index \subseteq Scopes /\ Len(out) \in Nat
  BY SMTT(20) DEF IInv, TypeOK
<1>m. \A S : \A q \in Seq(S) : \A i \in 1 .. Len(q) : q[i] \in S
  BY SMTT(20)
<1>n. \A i \in 1 .. Len(out) : out[i].session \in Nat /\ out[i].session < nextKey
  <2>1. \A i \in 1 .. Len(out) : out[i] \in M
    BY <1>0, <1>m
  <2> QED
    BY <2>1 DEF IInv, KeyInv
<1>1. CASE Shrinks
  <2>1. SessionsIndexed'
    BY <1>1 DEF Shrinks, IInv, SessionsIndexed, Live
  <2>2. KeyInv'
    <3>1. /\ nextKey' = nextKey /\ out' = out
          /\ \A s \in Scopes : sessions'[s] = 0 \/ sessions'[s] = sessions[s]
      BY <1>1 DEF Shrinks
    <3>2. \A s \in Scopes : sessions'[s] < nextKey'
      <4> TAKE s \in Scopes
      <4>1. sessions[s] < nextKey /\ 0 < nextKey
        BY <1>0, SMTT(20) DEF IInv, KeyInv
      <4> QED
        BY <3>1, <4>1
    <3>3. \A s, t \in Scopes : sessions'[s] = sessions'[t] /\ sessions'[s] # 0 => s = t
      BY <3>1 DEF IInv, KeyInv
    <3>4. \A i \in 1 .. Len(out'), s \in Scopes :
             out'[i].session = sessions'[s] /\ sessions'[s] # 0
                => s[1] = out'[i].key /\ ~IsResponse(out'[i])
      BY <3>1, SMTT(20) DEF IInv, KeyInv
    <3>5. \A i \in 1 .. Len(out') : out'[i].session < nextKey'
      BY <1>n, <3>1
    <3> QED
      BY <3>2, <3>3, <3>4, <3>5 DEF KeyInv, IsResponse
  <2>3. KeyIsolation'
    BY <1>1 DEF Shrinks, IInv, KeyIsolation, IsResponse
  <2> QED
    BY <2>1, <2>2, <2>3
<1>2. CASE Emits
  <2>1. PICK m \in M :
           /\ out' = Append(out, m)
           /\ \/ m.session = 0 /\ UNCHANGED <<sessions, index, nextKey>>
              \/ \E s \in Scopes :
                   /\ s[1] = m.key
                   /\ m.session = SessionKey(s)
                   /\ \/ m.dir = "request" /\ ensureSessionKey(s)
                      \/ m.dir = "response" /\ UseSessionKey(s)
    BY <1>2, EmitEffect DEF IInv
  <2>2. /\ Len(out') = Len(out) + 1
        /\ \A i \in 1 .. Len(out) : out'[i] = out[i]
        /\ out'[Len(out) + 1] = m
    BY <1>0, <2>1, SMTT(20)
  <2>3. \A i \in 1 .. Len(out') : i \in 1 .. Len(out) \/ i = Len(out) + 1
    BY <1>0, <2>2, SMTT(20)
  <2>4. CASE m.session = 0 /\ UNCHANGED <<sessions, index, nextKey>>
    <3>1. SessionsIndexed'
      BY <2>4 DEF IInv, SessionsIndexed, Live
    <3>2. KeyInv'
      <4>1. \A s \in Scopes : sessions'[s] < nextKey'
        BY <2>4 DEF IInv, KeyInv
      <4>2. \A s, t \in Scopes : sessions'[s] = sessions'[t] /\ sessions'[s] # 0 => s = t
        BY <2>4 DEF IInv, KeyInv
      <4>3. \A i \in 1 .. Len(out') : out'[i].session < nextKey'
        <5> TAKE i \in 1 .. Len(out')
        <5>1. CASE i \in 1 .. Len(out)
          BY <1>n, <2>2, <2>4, <5>1
        <5>2. CASE i = Len(out) + 1
          BY <1>0, <2>2, <2>4, <5>2, SMTT(20)
        <5> QED
          BY <2>3, <5>1, <5>2
      <4>4. \A i \in 1 .. Len(out'), s \in Scopes :
               out'[i].session = sessions'[s] /\ sessions'[s] # 0
                  => s[1] = out'[i].key /\ ~IsResponse(out'[i])
        BY <2>2, <2>3, <2>4 DEF IInv, KeyInv
      <4> QED
        BY <4>1, <4>2, <4>3, <4>4 DEF KeyInv, IsResponse
    <3>3. KeyIsolation'
      BY <2>2, <2>3, <2>4, SMTT(20) DEF IInv, KeyIsolation, IsResponse
    <3> QED
      BY <3>1, <3>2, <3>3
  <2>5. CASE \E s \in Scopes :
                /\ s[1] = m.key
                /\ m.session = SessionKey(s)
                /\ \/ m.dir = "request" /\ ensureSessionKey(s)
                   \/ m.dir = "response" /\ UseSessionKey(s)
    <3>1. PICK s \in Scopes :
              /\ s[1] = m.key
              /\ m.session = SessionKey(s)
              /\ \/ m.dir = "request" /\ ensureSessionKey(s)
                 \/ m.dir = "response" /\ UseSessionKey(s)
      BY <2>5
    <3>2. /\ nextKey' \in {nextKey, nextKey + 1}
          /\ m.session < nextKey'
          /\ \A t \in Scopes \ {s} : sessions'[t] = sessions[t]
          /\ sessions'[s] = IF m.dir = "request" THEN m.session ELSE 0
      BY <1>0, <3>1, SMTT(20) DEF ensureSessionKey, UseSessionKey, deleteSessionKey, SessionKey,
                        IInv, KeyInv
    <3>3. SessionsIndexed'
      BY <1>0, <3>1 DEF ensureSessionKey, UseSessionKey, deleteSessionKey, SessionKey,
                        IInv, SessionsIndexed, Live
    \* The key of the message is the scope's own or has never been used.
    <3>4. \/ m.session = sessions[s] /\ sessions[s] # 0
          \/ m.session = nextKey
      BY <3>1 DEF SessionKey
    <3>5. \A t \in Scopes \ {s} : sessions[t] # m.session
      BY <1>0, <3>4, SMTT(20) DEF IInv, KeyInv
    <3>6. \A i \in 1 .. Len(out) :
             out[i].session = m.session => out[i].key = m.key /\ ~IsResponse(out[i])
      BY <1>0, <3>1, <3>4, SMTT(20) DEF IInv, KeyInv
    <3>7. KeyIsolation'
      BY <2>2, <2>3, <3>6, SMTT(20) DEF IInv, KeyIsolation, IsResponse
    <3>8. KeyInv'
      <4>1. \A t \in Scopes : sessions'[t] < nextKey'
        <5> TAKE t \in Scopes
        <5>1. sessions[t] \in Nat /\ sessions[t] < nextKey /\ nextKey \in Nat /\ nextKey # 0
          BY <1>0 DEF IInv, KeyInv
        <5>2. nextKey' = nextKey \/ nextKey' = nextKey + 1
          BY <3>2
        <5>3. CASE t = s
          BY <3>2, <5>1, <5>2, <5>3, SMTT(20)
        <5>4. CASE t # s
          BY <3>2, <5>1, <5>2, <5>4, SMTT(20)
        <5> QED
          BY <5>3, <5>4
      <4>2. \A t, v \in Scopes :
               sessions'[t] = sessions'[v] /\ sessions'[t] # 0 => t = v
        BY <3>2, <3>5 DEF IInv, KeyInv
      <4>3. \A i \in 1 .. Len(out') : out'[i].session < nextKey'
        <5> TAKE i \in 1 .. Len(out')
        <5>1. CASE i \in 1 .. Len(out)
          <6>1. out[i].session \in Nat /\ out[i].session < nextKey /\ out'[i] = out[i]
            BY <1>n, <2>2, <5>1
          <6>2. nextKey' = nextKey \/ nextKey' = nextKey + 1
            BY <3>2
          <6> QED
            BY <1>0, <6>1, <6>2, SMTT(20)
        <5>2. CASE i = Len(out) + 1
          BY <2>2, <3>2, <5>2
        <5> QED
          BY <2>3, <5>1, <5>2
      <4>4. \A i \in 1 .. Len(out'), t \in Scopes :
               out'[i].session = sessions'[t] /\ sessions'[t] # 0
                  => t[1] = out'[i].key /\ ~IsResponse(out'[i])
        <5> TAKE i \in 1 .. Len(out'), t \in Scopes
        <5> HAVE out'[i].session = sessions'[t] /\ sessions'[t] # 0
        <5>1. CASE i \in 1 .. Len(out) /\ t # s
          BY <2>2, <3>2, <5>1, SMTT(20) DEF IInv, KeyInv
        <5>2. CASE i \in 1 .. Len(out) /\ t = s
          BY <2>2, <3>1, <3>2, <3>6, <5>2
        <5>3. CASE i = Len(out) + 1
          BY <2>2, <3>1, <3>2, <3>5, <5>3 DEF IsResponse
        <5> QED
          BY <2>3, <5>1, <5>2, <5>3
      <4> QED
        BY <4>1, <4>2, <4>3, <4>4 DEF KeyInv, IsResponse
    <3> QED
      BY <3>3, <3>7, <3>8
  <2> QED
    BY <2>1, <2>4, <2>5
<1> QED
  BY <1>1, <1>2

-----------------------------------------------------------------------------
(* The rest of the state: records, protocols and the parse loops. *)

\* The part of TypeOK that is not about the cache and the messages.
RestTyped ==
    /\ todo \in Seq(Event)
    /\ records \in [Dirs -> [Keys -> Record \cup {NoRecord}]]
    /\ protocol \in [Keys -> Protocols]
    /\ due \in BOOLEAN
    /\ pc \in Dirs \cup {"idle", "between", "enterRequest", "enterResponse"}
    /\ pending \subseteq Keys
    /\ cur \in Keys \cup {NoKey}
    /\ settled \in BOOLEAN

LEMMA AddTyped ==
    ASSUME IInv, Add
    PROVE  RestTyped' /\ LoopInv'
<1> DEFINE e == Head(todo)
           old == records[e.dir][e.key]
           new == Appended(old, e.unit)
<1>1. todo \in Seq(Event) /\ todo # << >> /\ RestTyped
  BY DEF Add, IInv, TypeOK, RestTyped
<1>2. e \in Event /\ Tail(todo) \in Seq(Event)
  BY <1>1, SMTT(20)
<1>3. e.dir \in Dirs /\ e.key \in Keys /\ e.unit \in Unit
  BY <1>2 DEF Event
<1>4. (IF old = NoRecord THEN NewRecord ELSE old) \in Record
  BY SMTT(30), <1>1, <1>3, StreamAssumption DEF RestTyped, NewRecord, Record
<1>5. new \in Record /\ new.stream # << >>
  <2> DEFINE base == IF old = NoRecord THEN NewRecord ELSE old
  <2>1. base.stream \in Seq(Unit)
    BY <1>4 DEF Record
  <2>2. Append(base.stream, e.unit) \in Seq(Unit) /\ Append(base.stream, e.unit) # << >>
    <3>1. \A q \in Seq(Unit), v \in Unit : Append(q, v) \in Seq(Unit) /\ Append(q, v) # << >>
      <4> TAKE q \in Seq(Unit), v \in Unit
      <4>1. Append(q, v) \in Seq(Unit) /\ Len(Append(q, v)) = Len(q) + 1 /\ Len(q) \in Nat
        BY SMTT(20)
      <4>2. Len(<< >>) = 0
        OBVIOUS
      <4> QED
        BY <4>1, <4>2, SMTT(20)
    <3> QED
      BY <1>3, <2>1, <3>1
  <2> HIDE DEF base
  <2>3. [base EXCEPT !.stream = Append(@, e.unit), !.stale = FALSE] \in Record
    BY <1>4, <2>2 DEF Record, base
  <2>4. [base EXCEPT !.stream = Append(@, e.unit), !.stale = FALSE].stream
          = Append(base.stream, e.unit)
    BY <1>4 DEF Record, base
  <2> QED
    BY <2>2, <2>3, <2>4 DEF base, Appended
<1>6. new # NoRecord
  BY <1>5, StoreAssumption
<1>7. /\ records' = [records EXCEPT ![e.dir][e.key] = new]
      /\ todo' = Tail(todo) /\ settled' = FALSE /\ ~Locked(e.dir)
      /\ UNCHANGED <<protocol, due, pc, pending, cur>>
  BY DEF Add, loopVars
<1> HIDE DEF e, old, new
<1>8. RestTyped'
  BY <1>1, <1>2, <1>3, <1>5, <1>7, StoreAssumption DEF RestTyped
<1>9. /\ records'[e.dir][e.key] = new
      /\ \A d \in Dirs, k \in Keys :
           <<d, k>> # <<e.dir, e.key>> => records'[d][k] = records[d][k]
  BY <1>1, <1>3, <1>7 DEF RestTyped
<1>10. LoopInv'
  <2>1. pc' \in Dirs => \A k \in pending' : records'[pc'][k] # NoRecord /\ k # cur'
    BY <1>1, <1>6, <1>7, <1>9 DEF IInv, LoopInv, RestTyped
  <2>2. cur' # NoKey => /\ pc' \in Dirs
                        /\ records'[pc'][cur'] # NoRecord => protocol'[cur'] # "Unknown"
    BY <1>1, <1>7, <1>9 DEF IInv, LoopInv, RestTyped, Locked
  <2>3. \A d \in Dirs, k \in Keys :
           records'[d][k] # NoRecord /\ protocol'[k] = "Unknown"
              => records'[d][k].stream # << >>
    BY <1>5, <1>7, <1>9 DEF IInv, LoopInv
  <2> QED
    BY <2>1, <2>2, <2>3 DEF LoopInv
<1> QED
  BY <1>8, <1>10

LEMMA TimeTyped ==
    ASSUME IInv,
           \/ \E k \in Keys : ExpireProtocol(k)
           \/ \E s \in Scopes : ExpireSession(s)
           \/ \E d \in Dirs, k \in Keys : GoStale(d, k)
           \/ CleanupDue
    PROVE  RestTyped' /\ LoopInv'
<1>0. RestTyped /\ LoopInv
  BY DEF IInv, TypeOK, RestTyped
<1>1. ASSUME NEW k \in Keys, ExpireProtocol(k) PROVE RestTyped' /\ LoopInv'
  <2>1. RestTyped'
    BY <1>0, <1>1 DEF ExpireProtocol, RestTyped, loopVars, Protocols
  <2>2. LoopInv'
    BY <1>0, <1>1 DEF ExpireProtocol, RestTyped, loopVars, LoopInv
  <2> QED
    BY <2>1, <2>2
<1>2. ASSUME NEW s \in Scopes, ExpireSession(s) PROVE RestTyped' /\ LoopInv'
  BY <1>0, <1>2 DEF ExpireSession, RestTyped, loopVars, LoopInv
<1>3. ASSUME NEW d \in Dirs, NEW k \in Keys, GoStale(d, k) PROVE RestTyped' /\ LoopInv'
  <2> DEFINE new == [records[d][k] EXCEPT !.stale = TRUE]
  <2>1. records[d][k] \in Record
    BY <1>0, <1>3 DEF GoStale, RestTyped
  <2>2. new \in Record /\ new.stream = records[d][k].stream /\ new # NoRecord
    BY <2>1, StoreAssumption DEF Record
  <2>3. records' = [records EXCEPT ![d][k] = new] /\ records[d][k] # NoRecord
    BY <1>0, <1>3 DEF GoStale, RestTyped
  <2>4. UNCHANGED <<todo, protocol, due, pc, pending, cur, settled>>
    BY <1>3 DEF GoStale, loopVars
  <2> HIDE DEF new
  <2>5. RestTyped'
    BY <1>0, <2>2, <2>3, <2>4 DEF RestTyped
  <2>6. \A e \in Dirs, c \in Keys :
           /\ records'[e][c] = NoRecord <=> records[e][c] = NoRecord
           /\ records'[e][c] # NoRecord => records'[e][c].stream = records[e][c].stream
    BY <1>0, <2>2, <2>3 DEF RestTyped
  <2>7. LoopInv'
    BY SMTT(30), <1>0, <2>4, <2>6 DEF RestTyped, LoopInv
  <2> QED
    BY <2>5, <2>7
<1>4. CASE CleanupDue
  BY <1>0, <1>4 DEF CleanupDue, RestTyped, loopVars, LoopInv
<1> QED
  BY <1>1, <1>2, <1>3, <1>4

LEMMA PassTyped ==
    ASSUME IInv, NEW d \in Dirs, Start(d) \/ Lock(d) \/ Finish(d)
    PROVE  RestTyped' /\ LoopInv'
<1>0. RestTyped /\ LoopInv
  BY DEF IInv, TypeOK, RestTyped
<1>1. CASE Start(d)
  <2>1. /\ pc' \in {"enterRequest", "enterResponse"} /\ pc \notin Dirs /\ due' = FALSE
        /\ UNCHANGED <<todo, protocol, pending, cur, settled>>
    BY <1>1 DEF Start, Entering, Before, Dirs
  <2>2. records' \in {records, Without(d, Stale(d))}
    BY <1>1 DEF Start
  <2>3. \A ks : /\ Without(d, ks) \in [Dirs -> [Keys -> Record \cup {NoRecord}]]
                /\ \A e \in Dirs, k \in Keys : Without(d, ks)[e][k] \in {NoRecord, records[e][k]}
    BY <1>0 DEF Without, RestTyped
  <2>4. RestTyped'
    <3>1. records' \in [Dirs -> [Keys -> Record \cup {NoRecord}]]
      BY ZenonT(60), <1>0, <2>2, <2>3 DEF RestTyped
    <3> QED
      BY <1>0, <2>1, <3>1 DEF RestTyped
  <2>5. \A e \in Dirs, k \in Keys : records'[e][k] \in {NoRecord, records[e][k]}
    BY <2>2, <2>3
  <2>6. LoopInv'
    BY <1>0, <2>1, <2>5 DEF LoopInv, Dirs
  <2> QED
    BY <2>4, <2>6
<1>2. CASE Lock(d)
  <2>1. /\ pc' = d /\ pending' = Present(d) /\ pc \notin Dirs
        /\ UNCHANGED <<todo, records, protocol, due, cur, settled>>
    BY <1>2 DEF Lock, Entering, Dirs
  <2>2. cur = NoKey /\ NoKey \notin Keys
    BY <1>0, <2>1, StoreAssumption DEF LoopInv
  <2>3. RestTyped'
    <3>1. Present(d) \subseteq Keys
      BY DEF Present
    <3> QED
      BY <1>0, <2>1, <3>1 DEF RestTyped
  <2>4. LoopInv'
    BY <1>0, <2>1, <2>2 DEF LoopInv, Present
  <2> QED
    BY <2>3, <2>4
<1>3. CASE Finish(d)
  <2>1. /\ pc' \in {"between", "idle"} /\ settled' = TRUE /\ cur = NoKey
        /\ UNCHANGED <<todo, records, protocol, due, pending, cur>>
    BY <1>3 DEF Finish
  <2>2. RestTyped'
    BY <1>0, <2>1 DEF RestTyped
  <2>3. LoopInv'
    BY <1>0, <2>1 DEF LoopInv, Dirs
  <2> QED
    BY <2>2, <2>3
<1> QED
  BY <1>1, <1>2, <1>3

LEMMA VisitTyped ==
    ASSUME IInv, NEW d \in Dirs, NEW k \in Keys, Visit(d, k)
    PROVE  RestTyped' /\ LoopInv'
<1>0. RestTyped /\ LoopInv
  BY DEF IInv, TypeOK, RestTyped
<1>1. /\ pc = d /\ cur = NoKey /\ k \in pending /\ pending' = pending \ {k}
      /\ UNCHANGED <<todo, due, pc, settled>>
  BY DEF Visit
<1>2. records[d][k] \in Record /\ records[d][k] # NoRecord
  BY <1>0, <1>1 DEF LoopInv, RestTyped
<1>3. ProtocolOf(d, k) \in Protocols
  BY <1>0 DEF ProtocolOf, Detected, RestTyped, Protocols
<1>4. k # NoKey
  BY StoreAssumption
<1>5. CASE ProtocolOf(d, k) = "Unknown"
  <2>1. records' = Without(d, {k}) /\ UNCHANGED <<protocol, cur>>
    BY <1>5 DEF Visit
  <2>2. /\ Without(d, {k}) \in [Dirs -> [Keys -> Record \cup {NoRecord}]]
        /\ Without(d, {k})[d][k] = NoRecord
        /\ \A e \in Dirs, c \in Keys :
             <<e, c>> # <<d, k>> => Without(d, {k})[e][c] = records[e][c]
    BY <1>0 DEF Without, RestTyped
  <2>3. RestTyped'
    BY <1>0, <1>1, <2>1, <2>2 DEF RestTyped
  <2>4. LoopInv'
    <3>1. \A c \in pending' : c \in Keys /\ c # k /\ records'[pc'][c] # NoRecord /\ c # cur'
      BY <1>0, <1>1, <2>1, <2>2 DEF RestTyped, LoopInv
    <3>2. \A e \in Dirs, c \in Keys : records'[e][c] \in {NoRecord, records[e][c]}
      BY <2>1, <2>2
    <3>3. \A e \in Dirs, c \in Keys :
             records'[e][c] # NoRecord /\ protocol'[c] = "Unknown"
                => records'[e][c].stream # << >>
      <4> TAKE e \in Dirs, c \in Keys
      <4> HAVE records'[e][c] # NoRecord /\ protocol'[c] = "Unknown"
      <4>1. records'[e][c] = records[e][c] /\ protocol[c] = "Unknown"
        BY <2>1, <3>2
      <4> QED
        BY <1>0, <4>1 DEF LoopInv
    <3>4. cur' = NoKey
      BY <1>1, <2>1
    <3> QED
      BY <3>1, <3>3, <3>4 DEF LoopInv
  <2> QED
    BY <2>3, <2>4
<1>6. CASE ProtocolOf(d, k) # "Unknown"
  <2> DEFINE base == IF protocol[k] # "Unknown" THEN records[d][k]
                                                 ELSE AfterDetection(records[d][k])
             new == NewFramer(base)
  <2>1. /\ records' = [records EXCEPT ![d][k] = new]
        /\ protocol' = [protocol EXCEPT ![k] = ProtocolOf(d, k)]
        /\ cur' = k
    BY <1>6 DEF Visit
  <2>2. base \in Record
    <3>1. CASE protocol[k] # "Unknown"
      BY <1>2, <3>1
    <3>2. CASE protocol[k] = "Unknown"
      <4>1. records[d][k].stream # << >>
        BY <1>0, <1>2, <3>2 DEF LoopInv
      <4>2. Tail(records[d][k].stream) \in Seq(Unit)
        BY <1>2, <4>1, HeadUnit
      <4> QED
        BY <1>2, <3>2, <4>2 DEF AfterDetection, Record
    <3> QED
      BY <3>1, <3>2
  <2> HIDE DEF base
  <2>3. new \in Record
    BY <2>2, StreamAssumption DEF NewFramer, Record
  <2> HIDE DEF new
  <2>4. RestTyped'
    BY <1>0, <1>1, <1>3, <2>1, <2>3 DEF RestTyped
  <2>5. /\ protocol'[k] # "Unknown"
        /\ \A c \in Keys \ {k} : protocol'[c] = protocol[c]
        /\ \A e \in Dirs, c \in Keys : <<e, c>> # <<d, k>> => records'[e][c] = records[e][c]
    BY <1>0, <1>6, <2>1 DEF RestTyped
  <2>6. LoopInv'
    BY SMTT(30), <1>0, <1>1, <1>4, <2>1, <2>5 DEF RestTyped, LoopInv
  <2> QED
    BY <2>4, <2>6
<1> QED
  BY <1>5, <1>6

LEMMA LoopTyped ==
    ASSUME IInv, NEW d \in Dirs, Loop(d)
    PROVE  RestTyped' /\ LoopInv'
<1>0. RestTyped /\ LoopInv
  BY DEF IInv, TypeOK, RestTyped
<1>1. /\ pc = d /\ cur # NoKey /\ Iterate(d, cur)
      /\ UNCHANGED <<todo, protocol, due, pc, pending, settled>>
  BY DEF Loop
<1>2. /\ records' \in [Dirs -> [Keys -> Record \cup {NoRecord}]]
      /\ cur' \in {cur, NoKey}
      /\ \A e \in Dirs, k \in Keys : <<e, k>> # <<d, cur>> => records'[e][k] = records[e][k]
      /\ ~Exhausted(records[d][cur]) => protocol[cur] # "Unknown"
  BY <1>1, IterateTyped
<1>3. Exhausted(records[d][cur]) => UNCHANGED <<records>> /\ cur' = NoKey
  BY <1>1 DEF Iterate
<1>4. RestTyped'
  BY <1>0, <1>1, <1>2 DEF RestTyped
<1>5. cur \in Keys /\ \A k \in pending : k \in Keys /\ k # cur /\ k # NoKey
  BY <1>0, <1>1, StoreAssumption DEF RestTyped, LoopInv
<1>6. CASE Exhausted(records[d][cur])
  BY <1>0, <1>1, <1>3, <1>4, <1>5, <1>6 DEF LoopInv
<1>7. CASE ~Exhausted(records[d][cur])
  <2>1. protocol[cur] # "Unknown"
    BY <1>2, <1>7
  <2>2. pc' \in Dirs => \A k \in pending' : records'[pc'][k] # NoRecord /\ k # cur'
    BY <1>0, <1>1, <1>2, <1>5 DEF LoopInv
  <2>3. cur' # NoKey => /\ pc' \in Dirs
                        /\ records'[pc'][cur'] # NoRecord => protocol'[cur'] # "Unknown"
    BY <1>1, <1>2, <2>1
  <2>4. \A e \in Dirs, k \in Keys :
           records'[e][k] # NoRecord /\ protocol'[k] = "Unknown"
              => records'[e][k].stream # << >>
    BY <1>0, <1>1, <1>2, <2>1 DEF LoopInv
  <2> QED
    BY <1>4, <2>2, <2>3, <2>4 DEF LoopInv
<1> QED
  BY <1>6, <1>7

LEMMA Inductive == IInv /\ [Next]_vars => IInv'
<1> SUFFICES ASSUME IInv, [Next]_vars PROVE IInv'
  OBVIOUS
<1>1. RestTyped' /\ LoopInv'
  <2>1. CASE UNCHANGED vars
    BY <2>1 DEF vars, IInv, TypeOK, RestTyped, LoopInv
  <2>2. CASE Next
    <3>1. CASE Add
      BY <3>1, AddTyped
    <3>2. CASE \/ \E k \in Keys : ExpireProtocol(k)
               \/ \E s \in Scopes : ExpireSession(s)
               \/ \E d \in Dirs, k \in Keys : GoStale(d, k)
               \/ CleanupDue
      BY <3>2, TimeTyped
    <3>3. ASSUME NEW d \in Dirs, Start(d) \/ Lock(d) \/ Finish(d)
          PROVE  RestTyped' /\ LoopInv'
      BY <3>3, PassTyped
    <3>4. ASSUME NEW d \in Dirs, NEW k \in Keys, Visit(d, k) PROVE RestTyped' /\ LoopInv'
      BY <3>4, VisitTyped
    <3>5. ASSUME NEW d \in Dirs, Loop(d) PROVE RestTyped' /\ LoopInv'
      BY <3>5, LoopTyped
    <3> QED
      BY <2>2, <3>1, <3>2, <3>3, <3>4, <3>5 DEF Next, Parse
  <2> QED
    BY <2>1, <2>2
<1>2. Shrinks \/ Emits
  BY NextCache
<1>3. TypeOK'
  <2>1. TypeOK
    BY DEF IInv
  <2> QED
    BY <1>1, <1>2, <2>1, CacheTyped DEF TypeOK, RestTyped
<1>4. SessionsIndexed' /\ KeyInv' /\ KeyIsolation'
  BY <1>2, CacheInv
<1> QED
  BY <1>1, <1>3, <1>4 DEF IInv

(***************************************************************************)
(* The state of the store keeps its types, for any capture: a parser only  *)
(* runs on a stream with data and a detected protocol.                     *)
(***************************************************************************)
THEOREM TypeCorrect == Spec => []TypeOK
<1>1. IInv => TypeOK
  BY DEF IInv
<1> QED
  BY <1>1, InitIInv, Inductive, PTL DEF Spec

(***************************************************************************)
(* A live session is always found through the connection index, so         *)
(* deleteConnectionSessions misses none of the connection's sessions.      *)
(***************************************************************************)
THEOREM Indexed == Spec => []SessionsIndexed
<1>1. IInv => SessionsIndexed
  BY DEF IInv
<1> QED
  BY <1>1, InitIInv, Inductive, PTL DEF Spec

(***************************************************************************)
(* A session key never joins messages of two connections, nor two          *)
(* responses, whatever was captured and however Add, the parse passes, the *)
(* cache expiries and the cleanups interleave.                             *)
(***************************************************************************)
THEOREM Isolation == Spec => []KeyIsolation
<1>1. IInv => KeyIsolation
  BY DEF IInv
<1> QED
  BY <1>1, InitIInv, Inductive, PTL DEF Spec

-----------------------------------------------------------------------------
(* The order of messages. *)

StreamOf(r) == IF r = NoRecord THEN << >> ELSE r.stream
EndedOf(r) == IF r = NoRecord THEN {} ELSE r.ended

Sent(m, d, k, sid) == m.dir = d /\ m.key = k /\ m.sid = sid

\* A unit still to be parsed that completes a message is of a later exchange than
\* every message of its scope.
Fresh(d, k, v) ==
    Completes(v) =>
        /\ \A n \in 1 .. Len(out) : Sent(out[n], d, k, v.sid) => out[n].x < v.x /\ ~Ends(v)
        /\ v.sid \notin EndedOf(records[d][k])

RecordInv(d, k) ==
    LET s == StreamOf(records[d][k]) IN
    /\ \A i, j \in 1 .. Len(s) : i < j => Follows(s[i], s[j])
    /\ \A i \in 1 .. Len(s), j \in 1 .. Len(todo) :
         todo[j].dir = d /\ todo[j].key = k => Follows(s[i], todo[j].unit)
    /\ \A i \in 1 .. Len(s) : Fresh(d, k, s[i])
    /\ \A sid \in EndedOf(records[d][k]), n \in 1 .. Len(out) : ~Sent(out[n], d, k, sid)

TodoInv ==
    /\ \A i, j \in 1 .. Len(todo) :
         i < j /\ SameRecord(todo[i], todo[j]) => Follows(todo[i].unit, todo[j].unit)
    /\ \A j \in 1 .. Len(todo) : Fresh(todo[j].dir, todo[j].key, todo[j].unit)

OrderInv == TodoInv /\ EmittedInOrder /\ \A d \in Dirs, k \in Keys : RecordInv(d, k)

\* new is what is left of old, behind its first c units, as far as units that
\* complete a message are concerned.
Moves(new, old, c) ==
    \E n \in 0 .. Len(old) :
        /\ Len(new) = Len(old) - n
        /\ \A i \in 1 .. Len(new) : Completes(new[i]) => new[i] = old[i + n] /\ i + n > c

LEMMA SuffixMoves ==
    ASSUME NEW s \in Seq(Unit), NEW n \in 0 .. Len(s), NEW c \in 0 .. n
    PROVE  Moves(SubSeq(s, n + 1, Len(s)), s, c)
<1>1. Len(s) \in Nat /\ n \in Nat /\ c \in Nat /\ n <= Len(s) /\ c <= n
  BY SMTT(20)
<1>2. PICK new : new = SubSeq(s, n + 1, Len(s))
  OBVIOUS
<1>3. Len(new) = Len(s) - n /\ \A i \in 1 .. Len(new) : new[i] = s[i + n]
  BY <1>1, <1>2, SMTT(20)
<1>4. \A i \in 1 .. Len(new) : i + n > c
  BY <1>1, <1>3, SMTT(20)
<1> QED
  BY <1>2, <1>3, <1>4 DEF Moves

LEMMA SameMoves ==
    ASSUME NEW s \in Seq(Unit)
    PROVE  Moves(s, s, 0) /\ Moves(<< >>, s, 0) /\ (s # << >> => Moves(Tail(s), s, 0))
<1>1. Len(s) \in Nat /\ 0 \in 0 .. Len(s)
  BY SMTT(20)
<1>2. Moves(s, s, 0)
  BY <1>1, SMTT(20) DEF Moves
<1>3. Moves(<< >>, s, 0)
  <2>1. Len(<< >>) = Len(s) - Len(s) /\ Len(s) \in 0 .. Len(s) /\ 1 .. Len(<< >>) = {}
    BY <1>1, SMTT(20)
  <2> QED
    BY <2>1 DEF Moves
<1>4. ASSUME s # << >> PROVE Moves(Tail(s), s, 0)
  <2>1. /\ Len(Tail(s)) = Len(s) - 1 /\ 1 \in 0 .. Len(s)
        /\ \A i \in 1 .. Len(Tail(s)) : Tail(s)[i] = s[i + 1] /\ i + 1 > 0
    BY <1>1, <1>4, SMTT(20)
  <2> QED
    BY <2>1 DEF Moves
<1> QED
  BY <1>2, <1>3, <1>4

LEMMA ResultMoves ==
    ASSUME NEW r \in Record, NEW n \in 0 .. Len(r.stream), NEW o
    PROVE  /\ Result(o, n, r).outcome = o
           /\ Result(o, n, r).rec.ended = r.ended
           /\ Moves(Result(o, n, r).rec.stream, r.stream, 0)
           /\ n > 0 => Moves(Result(o, n, r).rec.stream, r.stream, 1)
<1>1. r.stream \in Seq(Unit) /\ Len(r.stream) \in Nat /\ n \in Nat
  BY SMTT(20) DEF Record
<1>2. /\ Result(o, n, r).outcome = o
      /\ Result(o, n, r).rec.ended = r.ended
      /\ Result(o, n, r).rec.stream = SubSeq(r.stream, n + 1, Len(r.stream))
  BY DEF Result, Record
<1>3. 0 \in 0 .. n /\ (n > 0 => 1 \in 0 .. n)
  BY <1>1, SMTT(20)
<1> QED
  BY <1>1, <1>2, <1>3, SuffixMoves

\* What a call of a parser may do to the stream and to the streams that ended.
Parsed(res, r) ==
    LET u == Head(r.stream)
        s == res.rec.stream IN
    /\ Moves(s, r.stream, 0)
    /\ \/ res.rec.ended \subseteq r.ended
       \/ /\ Ends(u) /\ Moves(s, r.stream, 1) /\ res.outcome = "partial"
          /\ res.rec.ended \subseteq r.ended \cup {u.sid}
    /\ res.outcome = "message" =>
         /\ Moves(s, r.stream, 1)
         /\ Completes(u) \/ u.sid \in r.ended
         /\ u.sid \in res.rec.ended => Completes(u) /\ u.sid \in r.ended

LEMMA ResultParsed ==
    ASSUME NEW r \in Record, r.stream # << >>
    PROVE  /\ \A o : o # "message" => Parsed(Result(o, 0, r), r) /\ Parsed(Result(o, 1, r), r)
           /\ \A o : o # "message" /\ Len(r.stream) # 1 => Parsed(Result(o, 2, r), r)
           /\ Completes(Head(r.stream)) => Parsed(Result("message", 1, r), r)
           /\ Completes(Head(r.stream)) /\ Len(r.stream) # 1 => Parsed(Result("message", 2, r), r)
<1>1. Len(r.stream) \in Nat \ {0}
  BY HeadUnit
<1>2. /\ 0 \in 0 .. Len(r.stream) /\ 1 \in 0 .. Len(r.stream)
      /\ Len(r.stream) # 1 => 2 \in 0 .. Len(r.stream)
  <2>1. \A n \in Nat \ {0} : 0 \in 0 .. n /\ 1 \in 0 .. n /\ (n # 1 => 2 \in 0 .. n)
    BY SMTT(20)
  <2> QED
    BY <1>1, <2>1
<1>3. 1 > 0 /\ 2 > 0
  BY SMTT(20)
<1>4. ASSUME NEW o, NEW n \in 0 .. Len(r.stream), o # "message" PROVE Parsed(Result(o, n, r), r)
  BY <1>4, ResultMoves, SMTT(20) DEF Parsed
<1>5. ASSUME NEW n \in 0 .. Len(r.stream), n > 0, Completes(Head(r.stream))
      PROVE  Parsed(Result("message", n, r), r)
  BY <1>5, ResultMoves, SMTT(20) DEF Parsed
<1> QED
  BY <1>2, <1>3, <1>4, <1>5

LEMMA Http1Parsed ==
    ASSUME NEW r \in Record, r.stream # << >>
    PROVE  Parsed(Http1Message(r), r) /\ Parsed(Http1Response(r), r)
<1> DEFINE u == Head(r.stream)
<1>0. u \in Unit /\ Len(r.stream) \in Nat \ {0} /\ r.stream \in Seq(Unit)
  BY HeadUnit DEF Record
<1>1. Parsed(Http1Message(r), r)
  BY ResultParsed DEF Http1Message, Completes
<1>2. Parsed(Http1Chunk(r), r)
  BY ResultParsed DEF Http1Chunk, Completes
<1>3. u.kind = "bare" => Parsed(Http1Bare(r), r)
  <2> SUFFICES ASSUME u.kind = "bare" PROVE Parsed(Http1Bare(r), r)
    OBVIOUS
  <2>1. PICK junk : junk = [u EXCEPT !.kind = "junk"]
    OBVIOUS
  <2>2. PICK new : new = <<junk>> \o Tail(r.stream)
    OBVIOUS
  <2>3. junk \in Unit /\ ~Completes(junk)
    BY <1>0, <2>1 DEF Unit, Kinds, Completes, Ends
  <2>4. /\ Http1Bare(r).outcome = "message" /\ Http1Bare(r).rec.ended = r.ended
        /\ Http1Bare(r).rec.stream = new
    BY <2>1, <2>2 DEF Http1Bare, Record
  <2>5. /\ Len(new) = Len(r.stream) /\ new[1] = junk
        /\ \A i \in 1 .. Len(new) : i # 1 => new[i] = r.stream[i]
    BY <1>0, <2>2, <2>3, SMTT(20)
  <2>6. \A i \in 1 .. Len(new) : Completes(new[i]) => new[i] = r.stream[i + 0] /\ i + 0 > 1
    BY <1>0, <2>3, <2>5, SMTT(20)
  <2>7. 0 \in 0 .. Len(r.stream) /\ Len(new) = Len(r.stream) - 0
    BY <1>0, <2>5, SMTT(20)
  <2>8. Moves(new, r.stream, 1)
    BY <2>6, <2>7 DEF Moves
  <2>9. Moves(new, r.stream, 0)
    BY <1>0, <2>6, <2>7, SMTT(20) DEF Moves
  <2>10. Completes(u)
    BY DEF Completes
  <2> QED
    BY <2>4, <2>8, <2>9, <2>10 DEF Parsed
<1>4. Parsed(Result("partial", 1, [r EXCEPT !.chunked = TRUE]), r)
  <2>1. PICK c : c = [r EXCEPT !.chunked = TRUE]
    OBVIOUS
  <2>2. c \in Record /\ c.stream = r.stream /\ c.ended = r.ended
    BY <2>1 DEF Record
  <2>3. Parsed(Result("partial", 1, c), c)
    BY <2>2, ResultParsed
  <2> QED
    BY <2>1, <2>2, <2>3 DEF Parsed
<1> QED
  BY <1>1, <1>2, <1>3, <1>4 DEF Http1Response

LEMMA Http2Parsed ==
    ASSUME NEW r \in Record, r.stream # << >>
    PROVE  Parsed(Http2Frame(r), r)
<1>1. PICK u : u = Head(r.stream)
  OBVIOUS
<1>2. PICK s : s = AfterFrame(r, u)
  OBVIOUS
<1>3. PICK c : c = [NewFramer(s) EXCEPT !.ready = @ \ {u.sid}, !.ended = @ \ {u.sid}]
  OBVIOUS
<1>4. u \in Unit /\ u.sid \in StreamIDs /\ 0 \in StreamIDs
  BY <1>1, HeadUnit, StreamAssumption DEF Unit
<1>5. s \in Record /\ s.stream = r.stream
  BY ZenonT(30), <1>2, <1>4 DEF AfterFrame, Record
<1>6. /\ Ends(u) => s.ended \subseteq r.ended \cup {u.sid}
      /\ ~Ends(u) => s.ended \subseteq r.ended
      /\ u.kind = "rst" => s.ended \subseteq r.ended
  BY <1>2, <1>4 DEF AfterFrame, Record, Ends
<1>7. c \in Record /\ c.stream = r.stream /\ c.ended = s.ended \ {u.sid}
  BY <1>3, <1>4, <1>5 DEF NewFramer, Record
<1>8. Len(r.stream) \in Nat \ {0} /\ 1 \in 0 .. Len(r.stream) /\ 1 > 0
  BY HeadUnit, SMTT(20)
<1>9. ASSUME NEW o, NEW q \in {s, c}
      PROVE  /\ Result(o, 1, q).outcome = o /\ Result(o, 1, q).rec.ended = q.ended
             /\ Moves(Result(o, 1, q).rec.stream, r.stream, 0)
             /\ Moves(Result(o, 1, q).rec.stream, r.stream, 1)
  <2>1. q \in Record /\ q.stream = r.stream
    BY <1>5, <1>7
  <2> QED
    BY <1>8, <2>1, ResultMoves, SMTT(20)
<1>10. CASE Http2Frame(r) = Result("error", 0, r)
  BY <1>10, ResultParsed
<1>11. CASE Http2Frame(r) = Result("discard", 1, s) /\ u.kind = "rst"
  BY <1>1, <1>6, <1>9, <1>11, SMTT(20) DEF Parsed
<1>12. CASE Http2Frame(r) = Result("partial", 1, s)
  BY <1>1, <1>6, <1>9, <1>12, SMTT(20) DEF Parsed
<1>13. CASE Http2Frame(r) = Result("message", 1, c) /\ Complete(s, u)
  <2>1. u.sid \in s.ended
    BY <1>13 DEF Complete
  <2>2. Ends(u) \/ u.sid \in r.ended
    BY <1>6, <2>1
  <2>3. Completes(u) \/ u.sid \in r.ended
    BY <2>2 DEF Completes
  <2>4. c.ended \subseteq r.ended /\ u.sid \notin c.ended
    BY <1>6, <1>7
  <2> QED
    BY <1>1, <1>9, <1>13, <2>3, <2>4 DEF Parsed
<1> QED
  BY <1>1, <1>2, <1>3, <1>10, <1>11, <1>12, <1>13 DEF Http2Frame

LEMMA ParserMoves ==
    ASSUME NEW r \in Record, r.stream # << >>, NEW p \in Protocols \ {"Unknown"}
    PROVE  Parsed(ParseRequest(p, r), r) /\ Parsed(ParseResponse(p, r), r)
<1>1. Parsed(PostgresRequest(r), r) /\ Parsed(PostgresResponse(r), r)
  BY ResultParsed DEF PostgresRequest, PostgresResponse, Completes
<1> QED
  BY <1>1, Http1Parsed, Http2Parsed DEF ParseRequest, ParseResponse, Http1Request

\* A record loses units from the front, or is dropped.
Reduced(new, old) ==
    Moves(StreamOf(new), StreamOf(old), 0) /\ EndedOf(new) \subseteq EndedOf(old)

LEMMA StreamTyped ==
    ASSUME TypeOK, NEW d \in Dirs, NEW k \in Keys
    PROVE  /\ StreamOf(records[d][k]) \in Seq(Unit)
           /\ Len(StreamOf(records[d][k])) \in Nat
           /\ Len(todo) \in Nat /\ Len(out) \in Nat
<1>1. StreamOf(records[d][k]) \in Seq(Unit)
  BY SMTT(20) DEF TypeOK, StreamOf, Record
<1>2. todo \in Seq(Event) /\ Len(out) \in Nat
  BY SMTT(20) DEF TypeOK
<1> QED
  BY <1>1, <1>2, SMTT(20)

\* What holds of the units of a stream holds of those that are left.
LEMMA LeftOrdered ==
    ASSUME NEW old, NEW new, Len(old) \in Nat, NEW c \in {0, 1}, Moves(new, old, c),
           \A i, j \in 1 .. Len(old) : i < j => Follows(old[i], old[j])
    PROVE  /\ \A i, j \in 1 .. Len(new) : i < j => Follows(new[i], new[j])
           /\ \A i \in 1 .. Len(new) : Completes(new[i]) =>
                \E h \in 1 .. Len(old) : new[i] = old[h] /\ h > c
<1>1. PICK n \in 0 .. Len(old) :
        /\ Len(new) = Len(old) - n
        /\ \A i \in 1 .. Len(new) : Completes(new[i]) => new[i] = old[i + n] /\ i + n > c
  BY DEF Moves
<1>2. \A i \in 1 .. Len(new) : i + n \in 1 .. Len(old)
  BY <1>1, SMTT(20)
<1>3. ASSUME NEW i \in 1 .. Len(new), NEW j \in 1 .. Len(new), i < j,
             Completes(new[i]), Completes(new[j])
      PROVE  Follows(new[i], new[j])
  <2>1. new[i] = old[i + n] /\ new[j] = old[j + n] /\ i + n < j + n
    BY <1>1, <1>3, SMTT(20)
  <2> QED
    BY <1>2, <2>1
<1>4. \A u, v : ~(Completes(u) /\ Completes(v)) => Follows(u, v)
  BY DEF Follows
<1> QED
  BY <1>1, <1>2, <1>3, <1>4

LEMMA FreshKept ==
    ASSUME NEW d, NEW k, NEW v, Fresh(d, k, v), out' = out,
           EndedOf(records'[d][k]) \subseteq EndedOf(records[d][k])
    PROVE  Fresh(d, k, v)'
BY DEF Fresh, EndedOf, Sent

LEMMA NotCompleting ==
    \A d, k, u, v : /\ ~Completes(v) => Fresh(d, k, v) /\ Fresh(d, k, v)' /\ Follows(u, v)
                    /\ ~Completes(u) => Follows(u, v)
BY DEF Fresh, Follows

LEMMA ReducedOrdered ==
    ASSUME TypeOK, OrderInv, todo' = todo, out' = out,
           \A d \in Dirs, k \in Keys : Reduced(records'[d][k], records[d][k])
    PROVE  OrderInv'
<1>1. ASSUME NEW d \in Dirs, NEW k \in Keys PROVE RecordInv(d, k)'
  <2>1. PICK s, new : s = StreamOf(records[d][k]) /\ new = StreamOf(records'[d][k])
    OBVIOUS
  <2>2. /\ \A i, j \in 1 .. Len(s) : i < j => Follows(s[i], s[j])
        /\ \A i \in 1 .. Len(s), j \in 1 .. Len(todo) :
             todo[j].dir = d /\ todo[j].key = k => Follows(s[i], todo[j].unit)
        /\ \A i \in 1 .. Len(s) : Fresh(d, k, s[i])
        /\ \A sid \in EndedOf(records[d][k]), n \in 1 .. Len(out) : ~Sent(out[n], d, k, sid)
    BY <2>1 DEF OrderInv, RecordInv
  <2>3. Len(s) \in Nat /\ Moves(new, s, 0) /\ EndedOf(records'[d][k]) \subseteq EndedOf(records[d][k])
    BY <2>1, StreamTyped DEF Reduced
  <2>4. /\ \A i, j \in 1 .. Len(new) : i < j => Follows(new[i], new[j])
        /\ \A i \in 1 .. Len(new) : Completes(new[i]) => \E h \in 1 .. Len(s) : new[i] = s[h]
    BY <2>2, <2>3, LeftOrdered, SMTT(20)
  <2>5. \A i \in 1 .. Len(new), j \in 1 .. Len(todo) :
          todo[j].dir = d /\ todo[j].key = k => Follows(new[i], todo[j].unit)
    BY <2>2, <2>4, NotCompleting
  <2>6. ASSUME NEW i \in 1 .. Len(new) PROVE Fresh(d, k, new[i])'
    <3>1. PICK v : v = new[i]
      OBVIOUS
    <3>2. Fresh(d, k, v)
      BY <2>2, <2>4, <3>1, NotCompleting
    <3>3. Fresh(d, k, v)'
      BY <2>3, <3>2, FreshKept
    <3> QED
      BY <3>1, <3>3
  <2>7. \A sid \in EndedOf(records'[d][k]), n \in 1 .. Len(out') : ~Sent(out'[n], d, k, sid)
    BY <2>2, <2>3
  <2>8. \A i \in 1 .. Len(new), j \in 1 .. Len(todo') :
          todo'[j].dir = d /\ todo'[j].key = k => Follows(new[i], todo'[j].unit)
    BY <2>5
  <2> QED
    BY <2>1, <2>4, <2>6, <2>7, <2>8 DEF RecordInv, StreamOf, EndedOf, Fresh, Sent
<1>2. TodoInv'
  <2>1. PICK ahead : ahead = todo
    OBVIOUS
  <2>2. /\ \A i, j \in 1 .. Len(ahead) :
             i < j /\ SameRecord(ahead[i], ahead[j]) => Follows(ahead[i].unit, ahead[j].unit)
        /\ \A j \in 1 .. Len(ahead) : Fresh(ahead[j].dir, ahead[j].key, ahead[j].unit)
    BY <2>1 DEF OrderInv, TodoInv
  <2>3. ASSUME NEW j \in 1 .. Len(ahead) PROVE Fresh(ahead[j].dir, ahead[j].key, ahead[j].unit)'
    <3>1. PICK d, k, v : d = ahead[j].dir /\ k = ahead[j].key /\ v = ahead[j].unit
      OBVIOUS
    <3>2. d \in Dirs /\ k \in Keys
      <4>1. ahead[j] \in Event
        BY <2>1, <2>3, SMTT(20) DEF TypeOK
      <4> QED
        BY <3>1, <4>1 DEF Event
    <3>3. Fresh(d, k, v) /\ EndedOf(records'[d][k]) \subseteq EndedOf(records[d][k])
      BY <2>2, <3>1, <3>2 DEF Reduced
    <3>4. Fresh(d, k, v)'
      BY <3>3, FreshKept
    <3> QED
      BY <3>1, <3>4
  <2>4. todo' = ahead
    BY <2>1
  <2> QED
    BY <2>2, <2>3, <2>4 DEF TodoInv, Fresh
<1>3. EmittedInOrder'
  BY DEF OrderInv, EmittedInOrder
<1> QED
  BY <1>1, <1>2, <1>3 DEF OrderInv

\* One of the units at the head of a stream ends an HTTP/2 stream, or completes
\* a message that is emitted.
HeadEnds(d, k, u) ==
    /\ out' = out /\ Ends(u)
    /\ EndedOf(records'[d][k]) \subseteq EndedOf(records[d][k]) \cup {u.sid}

HeadEmitted(d, k, u) ==
    /\ \E m : out' = Append(out, m) /\ Sent(m, d, k, u.sid) /\ m.x = u.x
    /\ EndedOf(records'[d][k]) \subseteq EndedOf(records[d][k])
    /\ Completes(u) \/ u.sid \in EndedOf(records[d][k])
    /\ u.sid \in EndedOf(records'[d][k]) => Completes(u) /\ u.sid \in EndedOf(records[d][k])

\* The messages are as before, or one more of the scope of u.
LEMMA OneMore ==
    ASSUME TypeOK, NEW d, NEW k, NEW u, HeadEnds(d, k, u) \/ HeadEmitted(d, k, u),
           NEW n \in 1 .. Len(out')
    PROVE  \/ n \in 1 .. Len(out) /\ out'[n] = out[n]
           \/ /\ HeadEmitted(d, k, u) /\ n = Len(out) + 1
              /\ Sent(out'[n], d, k, u.sid) /\ out'[n].x = u.x
<1>1. CASE HeadEnds(d, k, u)
  BY <1>1 DEF HeadEnds
<1>2. CASE HeadEmitted(d, k, u)
  <2>1. PICK m : out' = Append(out, m) /\ Sent(m, d, k, u.sid) /\ m.x = u.x
    BY <1>2 DEF HeadEmitted
  <2>2. PICK old : old = out
    OBVIOUS
  <2>3. DOMAIN old = 1 .. Len(old) /\ Len(old) \in Nat
    BY <2>2, SMTT(20) DEF TypeOK
  <2>4. /\ Len(Append(old, m)) = Len(old) + 1
        /\ \A i \in 1 .. Len(old) : Append(old, m)[i] = old[i]
        /\ Append(old, m)[Len(old) + 1] = m
    BY <2>2, SMTT(20) DEF TypeOK
  <2>5. n \in 1 .. Len(old) \/ n = Len(old) + 1
    BY <2>1, <2>2, <2>3, <2>4, SMTT(20)
  <2> QED
    BY <1>2, <2>1, <2>2, <2>4, <2>5
<1> QED
  BY <1>1, <1>2

LEMMA FreshBehind ==
    ASSUME TypeOK, NEW d, NEW k, NEW u, HeadEnds(d, k, u) \/ HeadEmitted(d, k, u),
           NEW v, Follows(u, v), Fresh(d, k, v)
    PROVE  Fresh(d, k, v)'
<1> SUFFICES ASSUME Completes(v)
             PROVE  /\ \A n \in 1 .. Len(out') :
                         Sent(out'[n], d, k, v.sid) => out'[n].x < v.x /\ ~Ends(v)
                    /\ v.sid \notin EndedOf(records'[d][k])
  BY DEF Fresh, Sent, EndedOf
<1>1. /\ \A n \in 1 .. Len(out) : Sent(out[n], d, k, v.sid) => out[n].x < v.x /\ ~Ends(v)
      /\ v.sid \notin EndedOf(records[d][k])
  BY DEF Fresh
<1>2. Completes(u) /\ u.sid = v.sid => u.x < v.x /\ ~Ends(u) /\ ~Ends(v)
  BY DEF Follows
<1>3. v.sid \notin EndedOf(records'[d][k])
  <2>1. CASE HeadEnds(d, k, u)
    BY <1>1, <1>2, <2>1 DEF HeadEnds, Completes
  <2>2. CASE HeadEmitted(d, k, u)
    BY <1>1, <2>2 DEF HeadEmitted
  <2> QED
    BY <2>1, <2>2
<1>4. ASSUME NEW n \in 1 .. Len(out'), Sent(out'[n], d, k, v.sid) PROVE out'[n].x < v.x /\ ~Ends(v)
  <2>1. CASE n \in 1 .. Len(out) /\ out'[n] = out[n]
    BY <1>1, <1>4, <2>1
  <2>2. CASE HeadEmitted(d, k, u) /\ Sent(out'[n], d, k, u.sid) /\ out'[n].x = u.x
    <3>1. u.sid = v.sid
      BY <1>4, <2>2 DEF Sent
    <3>2. Completes(u)
      BY <1>1, <2>2, <3>1 DEF HeadEmitted
    <3> QED
      BY <1>2, <2>2, <3>1, <3>2
  <2> QED
    BY <2>1, <2>2, OneMore
<1> QED
  BY <1>3, <1>4

LEMMA FreshElsewhere ==
    ASSUME TypeOK, NEW d, NEW k, NEW u, HeadEnds(d, k, u) \/ HeadEmitted(d, k, u),
           NEW e, NEW c, <<e, c>> # <<d, k>>, records'[e][c] = records[e][c],
           NEW v, Fresh(e, c, v)
    PROVE  Fresh(e, c, v)'
<1>1. \A n \in 1 .. Len(out') :
        Sent(out'[n], e, c, v.sid) => n \in 1 .. Len(out) /\ out'[n] = out[n]
  BY OneMore DEF Sent
<1> QED
  BY <1>1 DEF Fresh, Sent, EndedOf

LEMMA EarlierIndex ==
    ASSUME NEW l \in Nat, NEW i, NEW j, i < j,
           i \in 1 .. l \/ i = l + 1, j \in 1 .. l \/ j = l + 1
    PROVE  i \in 1 .. l /\ i # l + 1
BY SMTT(20)

LEMMA HeadOrdered ==
    ASSUME TypeOK, OrderInv, todo' = todo, NEW d \in Dirs, NEW k \in Keys, NEW u,
           \A e \in Dirs, c \in Keys : <<e, c>> # <<d, k>> => records'[e][c] = records[e][c],
           StreamOf(records[d][k]) # << >>, u = StreamOf(records[d][k])[1],
           Moves(StreamOf(records'[d][k]), StreamOf(records[d][k]), 1),
           HeadEnds(d, k, u) \/ HeadEmitted(d, k, u)
    PROVE  OrderInv'
<1>1. PICK s, new : s = StreamOf(records[d][k]) /\ new = StreamOf(records'[d][k])
  OBVIOUS
<1>2. /\ \A i, j \in 1 .. Len(s) : i < j => Follows(s[i], s[j])
      /\ \A i \in 1 .. Len(s), j \in 1 .. Len(todo) :
           todo[j].dir = d /\ todo[j].key = k => Follows(s[i], todo[j].unit)
      /\ \A i \in 1 .. Len(s) : Fresh(d, k, s[i])
      /\ \A sid \in EndedOf(records[d][k]), n \in 1 .. Len(out) : ~Sent(out[n], d, k, sid)
  BY <1>1 DEF OrderInv, RecordInv
<1>3. Len(s) \in Nat /\ 1 \in 1 .. Len(s) /\ u = s[1]
  <2>1. s \in Seq(Unit) /\ s # << >> /\ u = s[1]
    BY <1>1, StreamTyped
  <2> QED
    BY <2>1, SMTT(20)
<1>4. Fresh(d, k, u)
  BY <1>2, <1>3
<1>5. /\ \A i, j \in 1 .. Len(new) : i < j => Follows(new[i], new[j])
      /\ \A i \in 1 .. Len(new) : Completes(new[i]) =>
           \E h \in 1 .. Len(s) : new[i] = s[h] /\ h > 1
  <2>1. Moves(new, s, 1)
    BY <1>1
  <2> QED
    BY ZenonT(60), <1>2, <1>3, <2>1, LeftOrdered
<1>6. \A h \in 1 .. Len(s) : h > 1 => Follows(u, s[h])
  BY <1>2, <1>3
<1>7. PICK ahead : ahead = todo
  OBVIOUS
<1>8. /\ \A i, j \in 1 .. Len(ahead) :
           i < j /\ SameRecord(ahead[i], ahead[j]) => Follows(ahead[i].unit, ahead[j].unit)
      /\ \A j \in 1 .. Len(ahead) : Fresh(ahead[j].dir, ahead[j].key, ahead[j].unit)
      /\ \A j \in 1 .. Len(ahead) :
           ahead[j].dir = d /\ ahead[j].key = k =>
             /\ Follows(u, ahead[j].unit)
             /\ \A i \in 1 .. Len(s) : Follows(s[i], ahead[j].unit)
  BY <1>2, <1>3, <1>7 DEF OrderInv, TodoInv
<1>9. TodoInv'
  <2>1. ASSUME NEW j \in 1 .. Len(ahead) PROVE Fresh(ahead[j].dir, ahead[j].key, ahead[j].unit)'
    <3>1. PICK e, c, v : e = ahead[j].dir /\ c = ahead[j].key /\ v = ahead[j].unit
      OBVIOUS
    <3>2. ahead[j] \in Event
      BY <1>7, <2>1, SMTT(20) DEF TypeOK
    <3>3. e \in Dirs /\ c \in Keys /\ Fresh(e, c, v)
      BY <1>8, <3>1, <3>2 DEF Event
    <3>4. CASE <<e, c>> = <<d, k>>
      <4>1. e = d /\ c = k /\ Follows(u, v) /\ Fresh(d, k, v)
        BY <1>8, <3>1, <3>3, <3>4
      <4>2. Fresh(d, k, v)'
        BY <4>1, FreshBehind
      <4> QED
        BY <3>1, <4>1, <4>2
    <3>5. CASE <<e, c>> # <<d, k>>
      <4>1. Fresh(e, c, v)'
        BY <3>3, <3>5, FreshElsewhere
      <4> QED
        BY <3>1, <4>1
    <3> QED
      BY <3>4, <3>5
  <2>2. todo' = ahead
    BY <1>7
  <2> QED
    BY <1>8, <2>1, <2>2 DEF TodoInv, Fresh
<1>10. EmittedInOrder'
  <2> SUFFICES ASSUME NEW i \in 1 .. Len(out'), NEW j \in 1 .. Len(out'), i < j,
                      out'[i].dir = out'[j].dir, out'[i].key = out'[j].key,
                      out'[i].sid = out'[j].sid
               PROVE  out'[i].x < out'[j].x
    BY DEF EmittedInOrder
  <2>1. /\ i \in 1 .. Len(out) \/ i = Len(out) + 1
        /\ j \in 1 .. Len(out) \/ j = Len(out) + 1
    BY OneMore
  <2>2. i \in 1 .. Len(out) /\ i # Len(out) + 1
    <3>1. Len(out) \in Nat /\ i < j
      BY StreamTyped
    <3> QED
      BY <2>1, <3>1, EarlierIndex
  <2>3. CASE j \in 1 .. Len(out) /\ out'[j] = out[j]
    <3>1. out'[i] = out[i]
      BY <2>2, OneMore
    <3> QED
      BY <2>2, <2>3, <3>1 DEF OrderInv, EmittedInOrder
  <2>4. CASE HeadEmitted(d, k, u) /\ j = Len(out) + 1 /\ Sent(out'[j], d, k, u.sid) /\ out'[j].x = u.x
    <3>1. out'[i] = out[i]
      BY <2>2, OneMore
    <3>2. Sent(out[i], d, k, u.sid)
      BY <2>4, <3>1 DEF Sent
    <3>3. Completes(u)
      BY <1>2, <2>2, <2>4, <3>2 DEF HeadEmitted
    <3> QED
      BY <1>4, <2>2, <2>4, <3>1, <3>2, <3>3 DEF Fresh
  <2> QED
    BY <2>3, <2>4, OneMore, SMTT(20)
<1>11. RecordInv(d, k)'
  <2>1. \A i \in 1 .. Len(new), j \in 1 .. Len(ahead) :
          ahead[j].dir = d /\ ahead[j].key = k => Follows(new[i], ahead[j].unit)
    BY <1>5, <1>8, NotCompleting
  <2>2. ASSUME NEW i \in 1 .. Len(new) PROVE Fresh(d, k, new[i])'
    <3>1. PICK v : v = new[i]
      OBVIOUS
    <3>2. Fresh(d, k, v) /\ Follows(u, v)
      BY <1>2, <1>5, <1>6, <3>1, NotCompleting
    <3>3. Fresh(d, k, v)'
      BY <3>2, FreshBehind
    <3> QED
      BY <3>1, <3>3
  <2>3. ASSUME NEW sid \in EndedOf(records'[d][k]), NEW n \in 1 .. Len(out'),
               Sent(out'[n], d, k, sid)
        PROVE  FALSE
    <3>1. CASE n \in 1 .. Len(out) /\ out'[n] = out[n]
      <4>1. sid \notin EndedOf(records[d][k])
        BY <1>2, <2>3, <3>1
      <4>2. HeadEnds(d, k, u) /\ sid = u.sid
        BY <2>3, <4>1 DEF HeadEnds, HeadEmitted
      <4> QED
        BY <1>4, <2>3, <3>1, <4>2 DEF HeadEnds, Fresh, Completes
    <3>2. CASE HeadEmitted(d, k, u) /\ Sent(out'[n], d, k, u.sid)
      <4>1. sid = u.sid
        BY <2>3, <3>2 DEF Sent
      <4> QED
        BY <1>4, <2>3, <3>2, <4>1 DEF HeadEmitted, Fresh
    <3> QED
      BY <3>1, <3>2, OneMore
  <2>4. \A i \in 1 .. Len(new), j \in 1 .. Len(todo') :
          todo'[j].dir = d /\ todo'[j].key = k => Follows(new[i], todo'[j].unit)
    BY <1>7, <2>1
  <2>5. \A sid \in EndedOf(records'[d][k]), n \in 1 .. Len(out') : ~Sent(out'[n], d, k, sid)
    BY <2>3
  <2> QED
    BY <1>1, <1>5, <2>2, <2>4, <2>5 DEF RecordInv, StreamOf, EndedOf, Fresh, Sent
<1>12. ASSUME NEW e \in Dirs, NEW c \in Keys, <<e, c>> # <<d, k>> PROVE RecordInv(e, c)'
  <2>1. PICK t : t = StreamOf(records[e][c])
    OBVIOUS
  <2>2. records'[e][c] = records[e][c]
    BY <1>12
  <2>3. /\ \A i, j \in 1 .. Len(t) : i < j => Follows(t[i], t[j])
        /\ \A i \in 1 .. Len(t), j \in 1 .. Len(ahead) :
             ahead[j].dir = e /\ ahead[j].key = c => Follows(t[i], ahead[j].unit)
        /\ \A i \in 1 .. Len(t) : Fresh(e, c, t[i])
        /\ \A sid \in EndedOf(records[e][c]), n \in 1 .. Len(out) : ~Sent(out[n], e, c, sid)
    BY <1>7, <2>1 DEF OrderInv, RecordInv
  <2>4. ASSUME NEW i \in 1 .. Len(t) PROVE Fresh(e, c, t[i])'
    <3>1. PICK v : v = t[i]
      OBVIOUS
    <3>2. Fresh(e, c, v)
      BY <2>3, <3>1
    <3>3. Fresh(e, c, v)'
      BY <1>12, <2>2, <3>2, FreshElsewhere
    <3> QED
      BY <3>1, <3>3
  <2>5. ASSUME NEW sid \in EndedOf(records'[e][c]), NEW n \in 1 .. Len(out'),
               Sent(out'[n], e, c, sid)
        PROVE  FALSE
    <3>1. \/ n \in 1 .. Len(out) /\ out'[n] = out[n]
          \/ Sent(out'[n], d, k, u.sid)
      BY OneMore
    <3>2. ~Sent(out'[n], d, k, u.sid)
      BY <1>12, <2>5 DEF Sent
    <3>3. sid \in EndedOf(records[e][c])
      BY <2>2, <2>5
    <3> QED
      BY <2>3, <2>5, <3>1, <3>2, <3>3
  <2>6. /\ todo' = ahead /\ StreamOf(records'[e][c]) = t
        /\ \A sid \in EndedOf(records'[e][c]), n \in 1 .. Len(out') : ~Sent(out'[n], e, c, sid)
    BY <1>7, <2>1, <2>2, <2>5
  <2> QED
    BY <2>3, <2>4, <2>6 DEF RecordInv, StreamOf, EndedOf, Fresh, Sent
<1> QED
  BY <1>9, <1>10, <1>11, <1>12 DEF OrderInv

LEMMA AddOrdered ==
    ASSUME IInv, OrderInv, Add
    PROVE  OrderInv'
<1>1. TypeOK /\ todo \in Seq(Event) /\ todo # << >>
  BY DEF IInv, TypeOK, Add
<1>2. PICK e, d, k, u : e = Head(todo) /\ d = e.dir /\ k = e.key /\ u = e.unit
  OBVIOUS
<1>3. e = todo[1] /\ e \in Event /\ 1 \in 1 .. Len(todo) /\ Len(todo) \in Nat
  BY <1>1, <1>2, SMTT(20)
<1>4. d \in Dirs /\ k \in Keys /\ u \in Unit
  BY <1>2, <1>3 DEF Event
<1>5. PICK s, ahead : s = StreamOf(records[d][k]) /\ ahead = Tail(todo)
  OBVIOUS
<1>6. /\ Len(ahead) \in Nat
      /\ \A j \in 1 .. Len(ahead) : /\ ahead[j] = todo[j + 1] /\ ahead[j] \in Event
                                    /\ j + 1 \in 1 .. Len(todo) /\ 1 < j + 1
  BY <1>1, <1>5, SMTT(20)
<1>7. /\ todo' = ahead /\ out' = out
      /\ records' = [records EXCEPT ![d][k] = Appended(records[d][k], u)]
  BY <1>1, <1>2, <1>4, <1>5 DEF Add, TypeOK
<1>8. /\ \A f \in Dirs, c \in Keys : <<f, c>> # <<d, k>> => records'[f][c] = records[f][c]
      /\ StreamOf(records'[d][k]) = Append(s, u)
      /\ EndedOf(records'[d][k]) = EndedOf(records[d][k])
  <2>1. /\ \A f \in Dirs, c \in Keys : <<f, c>> # <<d, k>> => records'[f][c] = records[f][c]
        /\ records'[d][k] = Appended(records[d][k], u)
    BY <1>1, <1>4, <1>7 DEF TypeOK
  <2>2. PICK r : r = records[d][k]
    OBVIOUS
  <2>3. PICK base : base = IF r = NoRecord THEN NewRecord ELSE r
    OBVIOUS
  <2>4. base \in Record /\ base.stream = s /\ base.ended = EndedOf(r)
    <3>1. NewRecord \in Record /\ NewRecord.stream = << >> /\ NewRecord.ended = {}
      BY StreamAssumption, SMTT(20) DEF NewRecord, Record
    <3>2. r \in Record \cup {NoRecord} /\ s = StreamOf(r)
      BY <1>1, <1>4, <1>5, <2>2 DEF TypeOK
    <3> QED
      BY <2>3, <3>1, <3>2 DEF StreamOf, EndedOf
  <2>5. Append(s, u) \in Seq(Unit)
    BY <1>1, <1>4, <1>5, StreamTyped, SMTT(20)
  <2>6. /\ Appended(r, u) = [base EXCEPT !.stream = Append(@, u), !.stale = FALSE]
        /\ Appended(r, u) \in Record
        /\ Appended(r, u).stream = Append(s, u)
        /\ Appended(r, u).ended = EndedOf(r)
    BY <2>3, <2>4, <2>5 DEF Appended, Record
  <2> QED
    BY <2>1, <2>2, <2>6, StoreAssumption DEF StreamOf, EndedOf
<1>9. \A f \in Dirs, c \in Keys : EndedOf(records'[f][c]) \subseteq EndedOf(records[f][c])
  BY <1>8
<1>10. /\ \A i, j \in 1 .. Len(todo) :
            i < j /\ SameRecord(todo[i], todo[j]) => Follows(todo[i].unit, todo[j].unit)
       /\ \A j \in 1 .. Len(todo) : Fresh(todo[j].dir, todo[j].key, todo[j].unit)
  BY DEF OrderInv, TodoInv
<1>11. /\ \A j \in 1 .. Len(ahead) : Fresh(ahead[j].dir, ahead[j].key, ahead[j].unit)
       /\ \A j \in 1 .. Len(ahead) : ahead[j].dir = d /\ ahead[j].key = k => Follows(u, ahead[j].unit)
       /\ Fresh(d, k, u)
  BY <1>2, <1>3, <1>6, <1>10 DEF SameRecord
<1>12. \A i, j \in 1 .. Len(ahead) :
         i < j /\ SameRecord(ahead[i], ahead[j]) => Follows(ahead[i].unit, ahead[j].unit)
  BY <1>6, <1>10, SMTT(20)
<1>13. TodoInv'
  <2>1. ASSUME NEW j \in 1 .. Len(ahead) PROVE Fresh(ahead[j].dir, ahead[j].key, ahead[j].unit)'
    <3>1. PICK f, c, v : f = ahead[j].dir /\ c = ahead[j].key /\ v = ahead[j].unit
      OBVIOUS
    <3>2. f \in Dirs /\ c \in Keys
      BY <1>6, <3>1 DEF Event
    <3>3. Fresh(f, c, v) /\ EndedOf(records'[f][c]) \subseteq EndedOf(records[f][c])
      BY <1>9, <1>11, <3>1, <3>2
    <3>4. Fresh(f, c, v)'
      BY <1>7, <3>3, FreshKept
    <3> QED
      BY <3>1, <3>4
  <2> QED
    BY <1>7, <1>12, <2>1 DEF TodoInv, Fresh
<1>14. EmittedInOrder'
  BY <1>7 DEF OrderInv, EmittedInOrder
<1>15. ASSUME NEW f \in Dirs, NEW c \in Keys PROVE RecordInv(f, c)'
  <2>1. PICK t, new : t = StreamOf(records[f][c]) /\ new = StreamOf(records'[f][c])
    OBVIOUS
  <2>2. /\ \A i, j \in 1 .. Len(t) : i < j => Follows(t[i], t[j])
        /\ \A i \in 1 .. Len(t), j \in 1 .. Len(todo) :
             todo[j].dir = f /\ todo[j].key = c => Follows(t[i], todo[j].unit)
        /\ \A i \in 1 .. Len(t) : Fresh(f, c, t[i])
        /\ \A sid \in EndedOf(records[f][c]), n \in 1 .. Len(out) : ~Sent(out[n], f, c, sid)
    BY <2>1 DEF OrderInv, RecordInv
  <2>3. \A i \in 1 .. Len(t), j \in 1 .. Len(ahead) :
          ahead[j].dir = f /\ ahead[j].key = c => Follows(t[i], ahead[j].unit)
    BY <1>6, <2>2
  <2>4. /\ \A i, j \in 1 .. Len(new) : i < j => Follows(new[i], new[j])
        /\ \A i \in 1 .. Len(new), j \in 1 .. Len(ahead) :
             ahead[j].dir = f /\ ahead[j].key = c => Follows(new[i], ahead[j].unit)
        /\ \A i \in 1 .. Len(new) : Fresh(f, c, new[i])
    <3>1. CASE <<f, c>> # <<d, k>>
      BY <1>8, <2>1, <2>2, <2>3, <3>1
    <3>2. CASE <<f, c>> = <<d, k>>
      <4>1. f = d /\ c = k /\ t = s /\ new = Append(t, u) /\ t \in Seq(Unit)
        BY <1>1, <1>5, <1>8, <2>1, <3>2, StreamTyped
      <4>2. /\ Len(t) \in Nat /\ Len(new) = Len(t) + 1 /\ new[Len(t) + 1] = u
            /\ \A i \in 1 .. Len(t) : new[i] = t[i]
        BY <1>4, <4>1, SMTT(20)
      <4>3. \A i \in 1 .. Len(new) : (i \in 1 .. Len(t) /\ new[i] = t[i]) \/ (i = Len(t) + 1 /\ new[i] = u)
        BY <4>2, SMTT(20)
      <4>4. \A i \in 1 .. Len(t) : Follows(t[i], u)
        BY <1>2, <1>3, <2>2, <4>1
      <4>5. ASSUME NEW i \in 1 .. Len(new), NEW j \in 1 .. Len(new), i < j PROVE Follows(new[i], new[j])
        <5>1. i \in 1 .. Len(t) /\ new[i] = t[i]
          BY <4>2, <4>3, <4>5, SMTT(20)
        <5> QED
          BY <2>2, <4>3, <4>4, <4>5, <5>1
      <4>6. \A i \in 1 .. Len(new), j \in 1 .. Len(ahead) :
              ahead[j].dir = f /\ ahead[j].key = c => Follows(new[i], ahead[j].unit)
        BY <1>11, <2>3, <4>1, <4>3
      <4>7. \A i \in 1 .. Len(new) : Fresh(f, c, new[i])
        BY <1>11, <2>2, <4>1, <4>3
      <4> QED
        BY <4>5, <4>6, <4>7
    <3> QED
      BY <3>1, <3>2
  <2>5. ASSUME NEW i \in 1 .. Len(new) PROVE Fresh(f, c, new[i])'
    <3>1. PICK v : v = new[i]
      OBVIOUS
    <3>2. Fresh(f, c, v) /\ EndedOf(records'[f][c]) \subseteq EndedOf(records[f][c])
      BY <1>9, <2>4, <3>1
    <3>3. Fresh(f, c, v)'
      BY <1>7, <3>2, FreshKept
    <3> QED
      BY <3>1, <3>3
  <2>6. \A sid \in EndedOf(records'[f][c]), n \in 1 .. Len(out') : ~Sent(out'[n], f, c, sid)
    BY <1>7, <1>9, <2>2
  <2>7. \A i \in 1 .. Len(new), j \in 1 .. Len(todo') :
          todo'[j].dir = f /\ todo'[j].key = c => Follows(new[i], todo'[j].unit)
    BY <1>7, <2>4
  <2> QED
    BY <2>1, <2>4, <2>5, <2>6, <2>7 DEF RecordInv, StreamOf, EndedOf, Fresh, Sent
<1> QED
  BY <1>13, <1>14, <1>15 DEF OrderInv

\* A step that leaves the streams alone.
LEMMA SameOrdered ==
    ASSUME TypeOK, OrderInv, todo' = todo, out' = out, records' = records
    PROVE  OrderInv'
<1>1. \A d \in Dirs, k \in Keys : Reduced(records'[d][k], records[d][k])
  BY StreamTyped, SameMoves DEF Reduced
<1> QED
  BY <1>1, ReducedOrdered

\* A step that only reduces one record.
LEMMA OneReduced ==
    ASSUME TypeOK, OrderInv, todo' = todo, out' = out, NEW d \in Dirs, NEW k \in Keys,
           \A e \in Dirs, c \in Keys : <<e, c>> # <<d, k>> => records'[e][c] = records[e][c],
           Reduced(records'[d][k], records[d][k])
    PROVE  OrderInv'
<1>1. ASSUME NEW e \in Dirs, NEW c \in Keys PROVE Reduced(records'[e][c], records[e][c])
  <2>1. CASE <<e, c>> = <<d, k>>
    BY <2>1
  <2>2. CASE <<e, c>> # <<d, k>>
    <3>1. records'[e][c] = records[e][c]
      BY <2>2
    <3> QED
      BY <3>1, StreamTyped, SameMoves DEF Reduced
  <2> QED
    BY <2>1, <2>2
<1> QED
  BY <1>1, ReducedOrdered

LEMMA DroppedReduced ==
    ASSUME TypeOK, NEW d \in Dirs, NEW k \in Keys
    PROVE  /\ Reduced(NoRecord, records[d][k])
           /\ Reduced(records[d][k], records[d][k])
BY StreamTyped, SameMoves DEF Reduced, StreamOf, EndedOf

LEMMA PassOrdered ==
    ASSUME IInv, OrderInv, NEW d \in Dirs,
           Start(d) \/ Lock(d) \/ Finish(d) \/ \E k \in Keys : GoStale(d, k) \/ Visit(d, k)
    PROVE  OrderInv'
<1>0. TypeOK /\ LoopInv
  BY DEF IInv
<1>1. CASE Lock(d) \/ Finish(d)
  BY <1>0, <1>1, SameOrdered DEF Lock, Finish
<1>2. \A ks : \A e \in Dirs, k \in Keys : Without(d, ks)[e][k] \in {NoRecord, records[e][k]}
  BY <1>0 DEF TypeOK, Without
<1>3. ASSUME NEW ks, todo' = todo, out' = out, records' = Without(d, ks) PROVE OrderInv'
  <2>1. ASSUME NEW e \in Dirs, NEW k \in Keys PROVE Reduced(records'[e][k], records[e][k])
    <3>1. records'[e][k] = NoRecord \/ records'[e][k] = records[e][k]
      BY <1>2, <1>3
    <3>2. Reduced(NoRecord, records[e][k]) /\ Reduced(records[e][k], records[e][k])
      BY <1>0, DroppedReduced
    <3> QED
      BY <3>1, <3>2
  <2> QED
    BY <1>0, <1>3, <2>1, ReducedOrdered
<1>4. CASE Start(d)
  <2>1. todo' = todo /\ out' = out /\ (records' = records \/ records' = Without(d, Stale(d)))
    BY <1>4 DEF Start
  <2> QED
    BY <1>0, <1>3, <2>1, SameOrdered
<1>5. ASSUME NEW k \in Keys, GoStale(d, k) PROVE OrderInv'
  <2>1. PICK r : r = records[d][k]
    OBVIOUS
  <2>2. r \in Record /\ r # NoRecord
    BY <1>0, <1>5, <2>1 DEF GoStale, TypeOK
  <2>3. PICK new : new = [r EXCEPT !.stale = TRUE]
    OBVIOUS
  <2>4. new \in Record /\ new.stream = r.stream /\ new.ended = r.ended /\ new # NoRecord
    BY <2>2, <2>3, StoreAssumption DEF Record
  <2>5. /\ todo' = todo /\ out' = out /\ records'[d][k] = new
        /\ \A e \in Dirs, c \in Keys : <<e, c>> # <<d, k>> => records'[e][c] = records[e][c]
    BY <1>0, <1>5, <2>1, <2>3 DEF GoStale, TypeOK
  <2>6. StreamOf(new) = StreamOf(r) /\ EndedOf(new) = EndedOf(r)
    BY <2>2, <2>4 DEF StreamOf, EndedOf
  <2>7. Reduced(new, r)
    BY <1>0, <2>1, <2>6, DroppedReduced DEF Reduced
  <2> QED
    BY <1>0, <2>1, <2>5, <2>7, OneReduced
<1>6. ASSUME NEW k \in Keys, Visit(d, k) PROVE OrderInv'
  <2>1. todo' = todo /\ out' = out /\ pc = d /\ k \in pending
    BY <1>6 DEF Visit
  <2>2. CASE records' = Without(d, {k})
    BY <1>3, <2>1, <2>2
  <2>3. CASE records' # Without(d, {k})
    <3>1. PICK r : r = records[d][k]
      OBVIOUS
    <3>2. r \in Record /\ r # NoRecord
      BY <1>0, <2>1, <3>1 DEF LoopInv, TypeOK
    <3>3. PICK base : base = IF protocol[k] # "Unknown" THEN r ELSE AfterDetection(r)
      OBVIOUS
    <3>4. /\ records' = [records EXCEPT ![d][k] = NewFramer(base)]
      BY <1>6, <2>3, <3>1, <3>3 DEF Visit
    <3>5. /\ records'[d][k] = NewFramer(base)
          /\ \A e \in Dirs, c \in Keys : <<e, c>> # <<d, k>> => records'[e][c] = records[e][c]
      BY <1>0, <3>4 DEF TypeOK
    <3>6. /\ base \in Record /\ base.ended = r.ended
          /\ base.stream = r.stream \/ (r.stream # << >> /\ base.stream = Tail(r.stream))
      <4>1. CASE base = r
        BY <3>2, <4>1
      <4>2. CASE protocol[k] = "Unknown" /\ base # r
        <5>1. r.stream # << >>
          BY <1>0, <3>1, <3>2, <4>2 DEF LoopInv
        <5>2. Tail(r.stream) \in Seq(Unit)
          BY <3>2, <5>1, HeadUnit
        <5>3. base = [r EXCEPT !.stream = Tail(@)]
          BY <3>3, <4>2 DEF AfterDetection
        <5> QED
          BY <3>2, <5>1, <5>2, <5>3 DEF Record
      <4> QED
        BY <3>3, <4>1, <4>2
    <3>7. PICK new : new = NewFramer(base)
      OBVIOUS
    <3>8. new \in Record /\ new.stream = base.stream /\ new.ended = base.ended /\ new # NoRecord
      BY <3>6, <3>7, StreamAssumption, StoreAssumption DEF NewFramer, Record
    <3>9. r.stream \in Seq(Unit)
      BY <3>2 DEF Record
    <3>10. Moves(new.stream, r.stream, 0)
      BY <3>6, <3>8, <3>9, SameMoves
    <3>11. Reduced(new, r)
      BY <3>2, <3>6, <3>8, <3>10 DEF Reduced, StreamOf, EndedOf
    <3> QED
      BY <1>0, <2>1, <3>1, <3>5, <3>7, <3>11, OneReduced
  <2> QED
    BY <2>2, <2>3
<1> QED
  BY <1>1, <1>4, <1>5, <1>6

LEMMA LoopOrdered ==
    ASSUME IInv, OrderInv, NEW d \in Dirs, Loop(d)
    PROVE  OrderInv'
<1>0. TypeOK /\ LoopInv
  BY DEF IInv
<1>1. PICK k : k = cur
  OBVIOUS
<1>2. k \in Keys /\ cur # NoKey /\ Iterate(d, k) /\ pc = d /\ todo' = todo
  BY <1>0, <1>1 DEF TypeOK, Loop
<1>3. /\ \A e \in Dirs, c \in Keys : <<e, c>> # <<d, k>> => records'[e][c] = records[e][c]
      /\ ~Exhausted(records[d][k]) => protocol[k] # "Unknown"
  BY <1>1, <1>2, IterateTyped
<1>4. CASE Exhausted(records[d][k])
  <2>1. records' = records /\ out' = out
    BY <1>2, <1>4 DEF Iterate
  <2> QED
    BY <1>0, <1>2, <2>1, SameOrdered
<1>5. CASE ~Exhausted(records[d][k])
  <2>1. PICK r, u, res : r = records[d][k] /\ u = Head(r.stream) /\ res = ParseOf(d, k)
    OBVIOUS
  <2>2. r \in Record /\ r # NoRecord /\ r.stream # << >>
    BY <1>0, <1>2, <1>5, <2>1 DEF Exhausted, TypeOK
  <2>3. protocol[k] \in Protocols \ {"Unknown"}
    BY <1>0, <1>2, <1>3, <1>5 DEF TypeOK
  <2>4. Parsed(res, r) /\ res.rec \in Record
    BY <2>1, <2>2, <2>3, ParserMoves, ParserTyped DEF ParseOf
  <2>5. StreamOf(r) = r.stream /\ EndedOf(r) = r.ended /\ u = r.stream[1] /\ u \in Unit
    BY <2>1, <2>2, HeadUnit, SMTT(20) DEF StreamOf, EndedOf
  <2>6. Moves(<< >>, r.stream, 0)
    BY <1>0, <1>2, <2>1, <2>5, StreamTyped, SameMoves
  <2>7. CASE records' = records /\ out' = out
    BY <1>0, <1>2, <2>7, SameOrdered
  <2>8. CASE records'[d][k] = NoRecord /\ out' = out
    BY <1>0, <1>2, <1>3, <2>8, DroppedReduced, OneReduced
  <2>9. CASE records'[d][k] = Consumed(k, res) /\ out' = out
    <3>1. CASE Consumed(k, res) = NoRecord
      BY <2>8, <2>9, <3>1
    <3>2. CASE Consumed(k, res) # NoRecord
      <4>1. records'[d][k] = res.rec /\ res.rec # NoRecord
        BY <2>9, <3>2 DEF Consumed
      <4>2. StreamOf(records'[d][k]) = res.rec.stream /\ EndedOf(records'[d][k]) = res.rec.ended
        BY <4>1 DEF StreamOf, EndedOf
      <4>3. CASE res.rec.ended \subseteq r.ended
        <5>1. Reduced(records'[d][k], r)
          BY <2>4, <2>5, <4>2, <4>3 DEF Parsed, Reduced
        <5> QED
          BY <1>0, <1>2, <1>3, <2>1, <2>9, <5>1, OneReduced
      <4>4. CASE ~(res.rec.ended \subseteq r.ended)
        <5>1. /\ Ends(u) /\ Moves(res.rec.stream, r.stream, 1)
              /\ res.rec.ended \subseteq r.ended \cup {u.sid}
          BY <2>1, <2>4, <4>4 DEF Parsed
        <5>2. HeadEnds(d, k, u)
          BY <2>1, <2>5, <2>9, <4>2, <5>1 DEF HeadEnds
        <5> QED
          BY <1>0, <1>2, <1>3, <2>1, <2>2, <2>5, <4>2, <5>1, <5>2, HeadOrdered
      <4> QED
        BY <4>3, <4>4
    <3> QED
      BY <3>1, <3>2
  <2>10. CASE res.outcome = "message" /\ records'[d][k] = Emitted(k, res) /\ Emit(d, k, u)
    <3>1. /\ Moves(res.rec.stream, r.stream, 1)
          /\ Completes(u) \/ u.sid \in r.ended
          /\ u.sid \in res.rec.ended => Completes(u) /\ u.sid \in r.ended
          /\ res.rec.ended \subseteq r.ended
      BY <2>1, <2>4, <2>10 DEF Parsed
    <3>2. PICK m : out' = Append(out, m) /\ Sent(m, d, k, u.sid) /\ m.x = u.x
      <4>1. \A key : /\ Sent(Message(d, k, u, key), d, k, u.sid)
                     /\ Message(d, k, u, key).x = u.x
        BY DEF Message, Sent
      <4>2. PICK key : out' = Append(out, Message(d, k, u, key))
        BY <2>10 DEF Emit
      <4> QED
        BY <4>1, <4>2, SMTT(20)
    <3>3. /\ StreamOf(records'[d][k]) = res.rec.stream
          /\ EndedOf(records'[d][k]) \subseteq res.rec.ended
      <4>1. CASE Consumed(k, res) = NoRecord
        <5>1. res.rec.stream = << >>
          BY <2>4, <4>1, StoreAssumption DEF Consumed
        <5>2. records'[d][k] = NoRecord
          BY <2>10, <4>1 DEF Emitted
        <5> QED
          BY <5>1, <5>2 DEF StreamOf, EndedOf
      <4>2. CASE Consumed(k, res) # NoRecord
        <5>1. PICK new : new = [res.rec EXCEPT !.chunked = FALSE]
          OBVIOUS
        <5>2. records'[d][k] = new
          BY <2>10, <4>2, <5>1 DEF Emitted
        <5>3. /\ new \in Record /\ new.stream = res.rec.stream
              /\ new.ended = res.rec.ended /\ new # NoRecord
          BY <2>4, <5>1, StoreAssumption DEF Record
        <5> QED
          BY <5>2, <5>3 DEF StreamOf, EndedOf
      <4> QED
        BY <4>1, <4>2
    <3>4. HeadEmitted(d, k, u)
      BY <2>1, <2>5, <3>1, <3>2, <3>3 DEF HeadEmitted
    <3> QED
      BY <1>0, <1>2, <1>3, <2>1, <2>2, <2>5, <3>1, <3>3, <3>4, HeadOrdered
  <2>11. \A rec : [records EXCEPT ![d][k] = rec][d][k] = rec
    BY <1>0, <1>2 DEF TypeOK
  <2> QED
    BY <1>2, <1>5, <2>1, <2>7, <2>8, <2>9, <2>10, <2>11 DEF Iterate
<1> QED
  BY <1>4, <1>5

LEMMA NextOrder == IInv /\ OrderInv /\ [Next]_vars => OrderInv'
<1> SUFFICES ASSUME IInv, OrderInv, [Next]_vars PROVE OrderInv'
  OBVIOUS
<1>0. TypeOK
  BY DEF IInv
<1>1. CASE UNCHANGED vars
  BY <1>0, <1>1, SameOrdered DEF vars
<1>2. CASE Add
  BY <1>2, AddOrdered
<1>3. CASE \/ \E k \in Keys : ExpireProtocol(k)
           \/ \E s \in Scopes : ExpireSession(s)
           \/ CleanupDue
  BY <1>0, <1>3, SameOrdered DEF ExpireProtocol, ExpireSession, CleanupDue
<1>4. ASSUME NEW d \in Dirs,
             Start(d) \/ Lock(d) \/ Finish(d) \/ \E k \in Keys : GoStale(d, k) \/ Visit(d, k)
      PROVE  OrderInv'
  BY <1>4, PassOrdered
<1>5. ASSUME NEW d \in Dirs, Loop(d) PROVE OrderInv'
  BY <1>5, LoopOrdered
<1> QED
  BY <1>1, <1>2, <1>3, <1>4, <1>5 DEF Next, Parse

LEMMA InitOrder ==
    ASSUME Ordered, Init
    PROVE  OrderInv
<1>1. /\ todo \in Scripts /\ out = << >>
      /\ \A d \in Dirs, k \in Keys : records[d][k] = NoRecord
  BY DEF Init
<1>2. todo \in Seq(Event) /\ Len(todo) \in Nat /\ 1 .. Len(out) = {}
  BY <1>1, StoreAssumption, SMTT(20)
<1>3. \A d \in Dirs, k \in Keys :
        StreamOf(records[d][k]) = << >> /\ EndedOf(records[d][k]) = {}
  BY <1>1 DEF StreamOf, EndedOf
<1>4. 1 .. Len(<< >>) = {}
  BY SMTT(20)
<1>5. \A d \in Dirs, k \in Keys : RecordInv(d, k)
  BY <1>2, <1>3, <1>4 DEF RecordInv
<1>6. TodoInv
  <2>1. \A i, j \in 1 .. Len(todo) :
          i < j /\ SameRecord(todo[i], todo[j]) => Follows(todo[i].unit, todo[j].unit)
    BY <1>1 DEF Ordered
  <2>2. \A j \in 1 .. Len(todo) : todo[j].dir \in Dirs /\ todo[j].key \in Keys
    <3>1. \A j \in 1 .. Len(todo) : todo[j] \in Event
      BY <1>2, SMTT(20)
    <3> QED
      BY <3>1 DEF Event
  <2>3. \A d \in Dirs, k \in Keys : \A v : Fresh(d, k, v)
    BY <1>2, <1>3 DEF Fresh
  <2> QED
    BY <2>1, <2>2, <2>3 DEF TodoInv
<1>7. EmittedInOrder
  BY <1>2 DEF EmittedInOrder
<1> QED
  BY <1>5, <1>6, <1>7 DEF OrderInv

(***************************************************************************)
(* The messages of a connection, or of an HTTP/2 stream, come out once     *)
(* each and in the order in which they were written, wherever a tick, an   *)
(* eviction, a reset or a parse error falls between the buffers, provided  *)
(* that the exchanges of a scope are captured in their order, each with    *)
(* one unit that completes it, and an HTTP/2 stream carries one exchange.  *)
(***************************************************************************)
THEOREM MessagesInOrder ==
    ASSUME Ordered
    PROVE  Spec => []EmittedInOrder
<1>1. Init => OrderInv
  BY InitOrder
<1>2. OrderInv => EmittedInOrder
  BY DEF OrderInv
<1> QED
  BY <1>1, <1>2, InitIInv, Inductive, NextOrder, PTL DEF Spec
=============================================================================
