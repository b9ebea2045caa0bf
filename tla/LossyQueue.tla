----------------------------- MODULE LossyQueue -----------------------------
(***************************************************************************)
(* What the export path promises for each endpoint: a first-in first-out   *)
(* queue whose items leave in the order they were accepted, each settled   *)
(* exactly once, and each delivered at most limit times, possibly late and *)
(* possibly never.  Nothing is delivered that was not accepted.            *)
(***************************************************************************)
EXTENDS Naturals, Sequences

CONSTANTS Endpoints,
          Items       \* what can be offered

VARIABLES queue,   \* queue[p]: accepted, not settled
          settled, \* settled[p]: given up or delivered, oldest first
          copies,  \* copies[p][x]: times x was delivered
          limit    \* how often an item may be delivered

vars == <<queue, settled, copies, limit>>

Accepted(p) ==
    {queue[p][k] : k \in DOMAIN queue[p]} \cup
    {settled[p][k] : k \in DOMAIN settled[p]}

Init ==
    /\ queue = [p \in Endpoints |-> << >>]
    /\ settled = [p \in Endpoints |-> << >>]
    /\ copies = [p \in Endpoints |-> [x \in Items |-> 0]]
    /\ limit \in Nat

Accept(p, x) ==
    /\ x \notin Accepted(p)
    /\ queue' = [queue EXCEPT ![p] = Append(@, x)]
    /\ UNCHANGED <<settled, copies, limit>>

Settle(p, k) ==
    /\ queue' = [queue EXCEPT ![p] = SubSeq(@, k + 1, Len(@))]
    /\ settled' = [settled EXCEPT ![p] = @ \o SubSeq(queue[p], 1, k)]
    /\ UNCHANGED <<copies, limit>>

Deliver(p, S) ==
    /\ S \subseteq Accepted(p)
    /\ \A x \in S : copies[p][x] < limit
    /\ copies' = [copies EXCEPT ![p] =
                    [x \in Items |-> IF x \in S THEN @[x] + 1 ELSE @[x]]]
    /\ UNCHANGED <<queue, settled, limit>>

Next ==
    \E p \in Endpoints :
        \/ \E x \in Items : Accept(p, x)
        \/ \E k \in 1 .. Len(queue[p]) : Settle(p, k)
        \/ \E S \in SUBSET Items : Deliver(p, S)

Spec == Init /\ [][Next]_vars
=============================================================================
