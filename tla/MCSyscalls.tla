----------------------------- MODULE MCSyscalls -----------------------------
(* Two threads; buffers of up to three cells, and two longer ones.          *)
EXTENDS Syscalls, SequencesExt

CONSTANTS t1, t2

MCLimit == [libs |-> {3, 4}, pg |-> {3}]

MCFiles == {<<"/lib", "libssl">>, <<"/libssl", "other">>}

Cell(tag, len) == [tag |-> tag, len |-> len]
Cells == {Cell("Q", 0), Cell("Q", 1), Cell("S", 1), Cell("Q", 3)}

\* The startup packets of the four kinds and a buffer below eight bytes;
\* read as a message a startup packet is one that is too long.
MCStartups == {[startup |-> flag, cells |-> <<Cell("0", 3)>>] : flag \in 0 .. 4}

MCBuffers == {[startup |-> 4, cells |-> cells] :
    cells \in BoundedSeq(Cells, 2) \cup
        {<<Cell("Q", 1), Cell("Q", 0), Cell("S", 1), Cell("Q", 0), Cell("Q", 1), Cell("S", 1)>>,
         <<Cell("Q", 2), Cell("S", 1), Cell("Q", 1), Cell("Q", 1), Cell("Q", 0)>>,
         <<Cell("Q", 3), Cell("Q", 1), Cell("Q", 1), Cell("Q", 1), Cell("Q", 1)>>,
         <<Cell("Q", 1), Cell("Q", 1), Cell("Q", 3), Cell("Q", 1)>>}}

MCJsonTexts == {<<" ", "{", "x", "x">>, <<"{", "x", "x", "x", "x", "x">>}
MCTexts == MCJsonTexts \cup
    {<< >>, <<"{">>, <<" ", " ", " ", " ", "{">>, <<"x", "{", "x", "x">>}

(***************************************************************************)
(* What a buffer of whole messages holds, up to the first message that is  *)
(* empty or too long and the first MAX_LOOP messages: the supported ones.  *)
(***************************************************************************)
Supported(cells) ==
    LET starts == Starts(cells)
        upto(p) == {q \in starts : q <= p}
        readable == {p \in starts \cap DOMAIN cells :
                       /\ \A q \in upto(p) : cells[q].len \in 1 .. MAX_BUF_SIZE
                       /\ p + cells[p].len <= Len(cells)
                       /\ Cardinality(upto(p)) <= MAX_LOOP} IN
    SetToSortSeq({p \in readable : Pg!is_supported_pg_msg_type(cells[p].tag)}, <)

TooLong(cells) == \E p \in Starts(cells) \cap DOMAIN cells : cells[p].len > MAX_BUF_SIZE

(***************************************************************************)
(* On a plaintext connection of one thread, the events of a sendto are the *)
(* supported messages of its buffer, at their true boundaries and in       *)
(* order; only a full ring buffer or unreadable memory cuts them short.    *)
(* The rest of a message that is too long is read as messages: behind one  *)
(* nothing is claimed.                                                     *)
(***************************************************************************)
PgExact ==
    program = "pg" /\ last # NoCall /\ last.exact =>
        LET got == [j \in DOMAIN pg_events |-> pg_events[j].at]
            want == Supported(last.buf) IN
        /\ IsPrefix(got, want) \/ (TooLong(last.buf) /\ IsPrefix(want, got))
        /\ (last.mapped = Len(last.buf) /\ last.room = MAX_LOOP) => IsPrefix(want, got)
        /\ \A e \in Range(pg_events) : e.tag = last.buf[e.at].tag
=============================================================================
