------------------------------- MODULE MCTui -------------------------------
(* The terminal UI with the list of all records and two endpoints. *)
EXTENDS Tui

CONSTANT k1, k2, k3, ListLength

MCEndpoints == {"http_request", "http_response"}

MCTabOrder == <<"all", "http_request", "http_response">>

-----------------------------------------------------------------------------
(* The links between requests and responses are longer than the lists above *)
(* can be: they are checked on lists of their own.                          *)

\* Two sessions in any order and number, and three in any order.
Lists ==
    BoundedSeq([ep : MCEndpoints, key : {k1, k2}] \cup {[ep |-> "exec_event", key |-> NoKey]},
               ListLength)
    \cup SetToSeqs([ep : MCEndpoints, key : {k1, k2, k3}])

\* Any window first .. last of rows shows a dot for each pair that starts or
\* ends in a row and a pipe for each other pair that crosses it.
WindowsShowCrossings(records, pairs) ==
    \A first, last \in DOMAIN records : first <= last =>
        LET rows == buildVisiblePairAnnotations(first, last, pairs) IN
        \A idx \in first .. last :
            /\ Cardinality({l \in DOMAIN rows[idx] : rows[idx][l] # "none"})
                 = Cardinality(Crossing(records, idx))
            /\ Cardinality({l \in DOMAIN rows[idx] : rows[idx][l] = "dot"})
                 = Cardinality({ij \in Links(records) : idx \in {ij[1], ij[2]}})

(***************************************************************************)
(* On every list of ListLength records, buildSessionPairs finds exactly    *)
(* the requests and responses that answer each other, repeated keys, lost  *)
(* responses and orphans included; the gutter has no more levels than      *)
(* pairs cross the busiest row; and buildVisiblePairAnnotations shows all  *)
(* of them in any window: levels never hide a pair behind another one, and *)
(* the break of the loop loses none.  This does not depend on the state    *)
(* and is evaluated once, in the initial one.                              *)
(***************************************************************************)
PairsAreLinks ==
    Init => \A records \in Lists :
        LET pairs == buildSessionPairs(records) IN
        /\ {<<pairs[k].start, pairs[k].end>> : k \in DOMAIN pairs} = Links(records)
        /\ Len(pairs) = Cardinality(Links(records))
        /\ MaxLevel(pairs)
             = Max({0} \cup {Cardinality(Crossing(records, idx)) : idx \in DOMAIN records})
        /\ WindowsShowCrossings(records, pairs)
=============================================================================
