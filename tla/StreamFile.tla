----------------------------- MODULE StreamFile -----------------------------
(***************************************************************************)
(* tui/stream.go: the goroutine that follows the JSONL file and hands      *)
(* batches of records to the terminal UI over a channel.                   *)
(*                                                                         *)
(* The file is a sequence of cells: the line of record n is the cells      *)
(* [rec |-> n, part |-> 1 .. LineCells] and NL.  A read may see any prefix *)
(* of what is being appended.  A line parses only if it is whole.          *)
(***************************************************************************)
EXTENDS Naturals, SequencesExt

CONSTANTS
    LineCells,       \* cells of a line, without its end
    Capacity,        \* of the channel, 32 in Run
    MaxLines,        \* bound on the records written
    MaxTorn,         \* bound on lines left unfinished
    MaxTruncated,    \* bound on truncations
    MaxFailures      \* bound on failures of stat and of read

ASSUME StreamAssumption ==
    /\ LineCells \in Nat \ {0} /\ Capacity \in Nat \ {0}
    /\ {MaxLines, MaxTorn, MaxTruncated, MaxFailures} \subseteq Nat

VARIABLES
    file,
    writer,      \* [rec, part]: the cell written last
    faults,      \* [torn, truncated, failures]: how many there were
    pc,          \* of streamFile: select, read, send, closed
    offset, partial,
    outbox,      \* messages of the last chunk that are not sent yet
    out,         \* the channel
    shown,       \* records the UI has received
    ui,          \* the UI runs
    canceled     \* ctx.Done()

file_vars == <<file, writer, faults>>
tail_vars == <<pc, offset, partial, outbox>>
vars == <<file_vars, tail_vars, out, shown, ui, canceled>>

NL == [rec |-> 0, part |-> 0]

LineOf(n) == [p \in 1 .. LineCells |-> [rec |-> n, part |-> p]]

tailErrMsg == [kind |-> "error", records |-> << >>]

batchMsg(records) == [kind |-> "batch", records |-> records]

-----------------------------------------------------------------------------
(* bytes.Split and the loop over the lines. *)

\* The cells of a buffer after its last line end.
AfterLastNL(buf) ==
    SubSeq(buf, Max({0} \cup {i \in DOMAIN buf : buf[i] = NL}) + 1, Len(buf))

\* The line that ends at position i.
LineBefore(buf, i) == AfterLastNL(SubSeq(buf, 1, i - 1))

\* The lines of a buffer that have an end, without it.
EndedLines(buf) ==
    FoldLeftDomain(LAMBDA lines, i :
        IF buf[i] = NL THEN Append(lines, LineBefore(buf, i)) ELSE lines,
        << >>, buf)

\* parseJSONLRecord
Parses(line) == line = LineOf(line[1].rec)

\* The messages for a buffer: an error for each line that does not parse, as it
\* is met, and then the records that do.
MessagesOf(buf) ==
    LET lines == SelectSeq(EndedLines(buf), LAMBDA line : line # << >>)
        good == SelectSeq(lines, Parses)
        bad == SelectSeq(lines, LAMBDA line : ~Parses(line))
        records == [k \in DOMAIN good |-> good[k][1].rec]
    IN [k \in DOMAIN bad |-> tailErrMsg]
       \o (IF records = << >> THEN << >> ELSE <<batchMsg(records)>>)

-----------------------------------------------------------------------------
Init ==
    /\ file = << >>
    /\ writer = [rec |-> 0, part |-> LineCells + 1]
    /\ faults = [torn |-> 0, truncated |-> 0, failures |-> 0]
    /\ pc = "select"
    /\ offset = 0 /\ partial = << >>
    /\ outbox = << >> /\ out = << >>
    /\ shown = << >>
    /\ ui = TRUE
    /\ canceled = FALSE

\* The sink appends the next cell of its line, or begins the next line.
Write ==
    /\ \/ /\ writer.part < LineCells
          /\ writer' = [writer EXCEPT !.part = @ + 1]
          /\ file' = Append(file, writer')
       \/ /\ writer.part = LineCells
          /\ writer' = [writer EXCEPT !.part = @ + 1]
          /\ file' = Append(file, NL)
       \/ /\ writer.part = LineCells + 1
          /\ writer.rec < MaxLines
          /\ writer' = [rec |-> writer.rec + 1, part |-> 1]
          /\ file' = Append(file, writer')
    /\ UNCHANGED <<faults, tail_vars, out, shown, ui, canceled>>

\* The end of a line never gets into the file; the sink of another run of the
\* program appends to it.
Tear ==
    /\ writer.part <= LineCells
    /\ faults.torn < MaxTorn
    /\ writer' = [writer EXCEPT !.part = LineCells + 1]
    /\ faults' = [faults EXCEPT !.torn = @ + 1]
    /\ UNCHANGED <<file, tail_vars, out, shown, ui, canceled>>

\* Someone empties the file.
Truncate ==
    /\ file # << >>
    /\ faults.truncated < MaxTruncated
    /\ file' = << >>
    /\ faults' = [faults EXCEPT !.truncated = @ + 1]
    /\ UNCHANGED <<writer, tail_vars, out, shown, ui, canceled>>

-----------------------------------------------------------------------------
\* Mutant: sendStreamMsg waits for the channel alone.
DoneAtTick ==
    /\ pc = "select"
    /\ canceled
    /\ pc' = "closed"
    /\ UNCHANGED <<file_vars, offset, partial, outbox, out, shown, ui, canceled>>

\* The branch ctx.Done() of both selects: streamFile returns and closes out.
Done ==
    /\ pc \in {"select", "send"}
    /\ canceled
    /\ pc' = "closed"
    /\ outbox' = << >>
    /\ UNCHANGED <<file_vars, offset, partial, out, shown, ui, canceled>>

\* Mutant: a file that has shrunk is read from where it was.
RestartNot(size) == UNCHANGED <<offset, partial>>

\* A file shorter than the offset is read again from its start.
Restart(size) ==
    /\ offset' = IF size < offset THEN 0 ELSE offset
    /\ partial' = IF size < offset THEN << >> ELSE partial

\* The ticker fires and the file is not empty behind offset.
Tick ==
    /\ pc = "select"
    /\ Restart(Len(file))
    /\ pc' = IF Len(file) = offset' THEN "select" ELSE "read"
    /\ UNCHANGED <<file_vars, outbox, out, shown, ui, canceled>>

Failed ==
    /\ faults.failures < MaxFailures
    /\ faults' = [faults EXCEPT !.failures = @ + 1]
    /\ pc' = "send"
    /\ outbox' = <<tailErrMsg>>
    /\ UNCHANGED <<file, writer, offset, partial, out, shown, ui, canceled>>

\* fileSize fails, for another reason than a file that is not there.
StatFails == pc = "select" /\ Failed

ReadFails == pc = "read" /\ Failed

\* Mutant: the cells of an unfinished line are dropped.
KeptNone(buf) == << >>

\* partial = bytes.Clone(lines[len(lines)-1])
Kept(buf) == AfterLastNL(buf)

\* readChunk and the loop over the lines, up to what has to be sent.
readChunk ==
    LET chunk == SubSeq(file, offset + 1, Len(file))
        buf == partial \o chunk
    IN /\ pc = "read"
       /\ offset' = offset + Len(chunk)
       /\ partial' = Kept(buf)
       /\ outbox' = MessagesOf(buf)
       /\ pc' = IF outbox' = << >> THEN "select" ELSE "send"
       /\ UNCHANGED <<file_vars, out, shown, ui, canceled>>

\* sendStreamMsg: the channel has room.
sendStreamMsg ==
    /\ pc = "send"
    /\ Len(out) < Capacity
    /\ out' = Append(out, Head(outbox))
    /\ outbox' = Tail(outbox)
    /\ pc' = IF outbox' = << >> THEN "select" ELSE "send"
    /\ UNCHANGED <<file_vars, offset, partial, shown, ui, canceled>>

\* waitForStream returns a message, which Update handles before it waits again.
waitForStream ==
    /\ ui /\ out # << >>
    /\ shown' = shown \o Head(out).records
    /\ out' = Tail(out)
    /\ UNCHANGED <<file_vars, tail_vars, ui, canceled>>

\* The UI ends, on a key or because ctx is done; main then cancels ctx.
Quit ==
    /\ ui
    /\ ui' = FALSE
    /\ UNCHANGED <<file_vars, tail_vars, out, shown, canceled>>

Cancel ==
    /\ ~canceled
    /\ canceled' = TRUE
    /\ UNCHANGED <<file_vars, tail_vars, out, shown, ui>>

streamFile == Done \/ Tick \/ StatFails \/ ReadFails \/ readChunk \/ sendStreamMsg

Next == Write \/ Tear \/ Truncate \/ streamFile \/ waitForStream \/ Quit \/ Cancel

Spec == Init /\ [][Next]_vars

\* The goroutines run; a select with two ready branches does not always take
\* the ticker; main cancels ctx once the UI has ended.
FairSpec ==
    /\ Spec
    /\ WF_vars(streamFile) /\ SF_vars(Done)
    /\ WF_vars(waitForStream)
    /\ WF_vars(~ui /\ Cancel)

-----------------------------------------------------------------------------
\* Records on their way to the screen.
RecordsIn(messages) == FlattenSeq([k \in DOMAIN messages |-> messages[k].records])

Delivered == shown \o RecordsIn(out) \o RecordsIn(outbox)

\* The line of record n is in the first size cells, from end to end.
WholeWithin(n, size) ==
    \E i \in 1 .. size - LineCells :
        /\ i = 1 \/ file[i - 1] = NL
        /\ SubSeq(file, i, i + LineCells - 1) = LineOf(n)
        /\ file[i + LineCells] = NL

\* No record is shown twice or out of order, whatever happens to the file.
\* Cutting the file into chunks anywhere loses no line and makes none up: up to
\* a truncation, the records handed on are those whose lines lie within offset.
DeliveredExact ==
    /\ \A i, j \in DOMAIN Delivered : i < j => Delivered[i] < Delivered[j]
    /\ faults.truncated = 0 /\ pc # "closed" =>
         Range(Delivered) = {n \in 1 .. MaxLines : WholeWithin(n, offset)}

\* A line in the file gets onto the screen, past torn lines, failures and a
\* full channel, unless the file is truncated or the program ends; and a file
\* that was truncated does not leave streamFile waiting behind its end.
EventuallyShown ==
    /\ \A n \in 1 .. MaxLines :
        WholeWithin(n, Len(file)) ~>
            (n \in Range(shown) \/ faults.truncated > 0 \/ ~ui \/ canceled)
    /\ (offset > Len(file)) ~> (offset <= Len(file) \/ pc = "closed")

\* streamFile ends when the UI has ended or ctx is done, even with a full
\* channel that nobody reads.
StreamEnds == (~ui \/ canceled) ~> (pc = "closed")
=============================================================================
