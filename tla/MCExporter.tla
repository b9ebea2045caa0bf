----------------------------- MODULE MCExporter -----------------------------
(* Exporter with a channel and batches of two events. *)
EXTENDS Exporter, TLC

CONSTANTS p, q

\* One endpoint with a gateway, to which nothing is shared; two endpoints with
\* the file they share.
GatewayAndFile ==
    {[target |-> "gateway", endpoints |-> {p}, events |-> 3],
     [target |-> "jsonl", endpoints |-> {p, q}, events |-> 2]}
=============================================================================
