---------------------------- MODULE SessionPairs ----------------------------
(***************************************************************************)
(* tui/pairs.go: the links drawn between a request and its response in the *)
(* list of all records.  A record is [ep, key, ...]; indices start at 1.   *)
(***************************************************************************)
EXTENDS Naturals, SequencesExt

CONSTANT NoKey   \* the empty SessionKey

\* delete(requestsBySession, record.SessionKey)
Unanswered(open, mine) == open \ mine

\* The loop over the records: the last unanswered request of each key, and
\* the pairs found so far.
Scan(records) ==
    LET Visit(acc, k) ==
          LET r == records[k] IN
          IF r.key = NoKey THEN acc
          ELSE IF r.ep = "http_request" THEN
            [acc EXCEPT !.open = {o \in @ : o.key # r.key} \cup {[key |-> r.key, start |-> k]}]
          ELSE IF r.ep = "http_response" THEN
            LET mine == {o \in acc.open : o.key = r.key} IN
            [open |-> Unanswered(acc.open, mine),
             pairs |-> acc.pairs \o [x \in 1 .. Cardinality(mine) |->
                         [start |-> (CHOOSE o \in mine : TRUE).start, end |-> k]]]
          ELSE acc
    IN FoldLeftDomain(Visit, [open |-> {}, pairs |-> << >>], records).pairs

\* The first level whose last pair has ended.
LevelFor(ends, start) ==
    Min({l \in 1 .. Len(ends) + 1 : l > Len(ends) \/ ends[l] < start})

\* buildSessionPairs: sorted by start, each with a level.
buildSessionPairs(records) ==
    LET sorted == SortSeq(Scan(records), LAMBDA a, b : a.start < b.start)
        Place(acc, pair) ==
          LET level == LevelFor(acc.ends, pair.start) IN
          [ends |-> IF level > Len(acc.ends) THEN Append(acc.ends, pair.end)
                    ELSE [acc.ends EXCEPT ![level] = pair.end],
           pairs |-> Append(acc.pairs, [start |-> pair.start, end |-> pair.end, level |-> level])]
    IN FoldLeft(Place, [ends |-> << >>, pairs |-> << >>], sorted).pairs

MaxLevel(pairs) == Max({0} \cup {pairs[k].level : k \in DOMAIN pairs})

\* Mutant: the loop ends at the first pair that is over.
DrawnUntilPast(first, last, pairs) ==
    SubSeq(pairs, 1, Min({k \in 1 .. Len(pairs) + 1 :
        k > Len(pairs) \/ pairs[k].start > last \/ pairs[k].end < first}) - 1)

\* The loop breaks at the first pair that starts below the rows first .. last.
Drawn(first, last, pairs) ==
    SubSeq(pairs, 1, Min({k \in 1 .. Len(pairs) + 1 :
        k > Len(pairs) \/ pairs[k].start > last}) - 1)

\* buildVisiblePairAnnotations: the columns of row idx; a later pair
\* overwrites an earlier one.
Column(idx, level, pairs) ==
    LET hits == {k \in DOMAIN pairs : /\ pairs[k].level = level
                                      /\ pairs[k].start <= idx /\ idx <= pairs[k].end} IN
    IF hits = {} THEN "none"
    ELSE IF idx \in {pairs[Max(hits)].start, pairs[Max(hits)].end} THEN "dot" ELSE "pipe"

buildVisiblePairAnnotations(first, last, pairs) ==
    [idx \in first .. last |->
        [level \in 1 .. MaxLevel(pairs) |-> Column(idx, level, Drawn(first, last, pairs))]]

-----------------------------------------------------------------------------
(* What the links should be, without the loops. *)

\* Request i is answered by response j: the same key, and neither a request
\* nor a response of that key in between.
Answers(records, i, j) ==
    /\ i < j
    /\ records[i].key # NoKey /\ records[j].key = records[i].key
    /\ records[i].ep = "http_request" /\ records[j].ep = "http_response"
    /\ \A k \in i + 1 .. j - 1 :
        records[k].key = records[i].key =>
            records[k].ep \notin {"http_request", "http_response"}

Links(records) ==
    {ij \in (DOMAIN records) \X (DOMAIN records) : Answers(records, ij[1], ij[2])}

\* Pairs that cross row idx.
Crossing(records, idx) == {ij \in Links(records) : ij[1] <= idx /\ idx <= ij[2]}
=============================================================================
