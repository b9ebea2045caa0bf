-------------------------- MODULE MCProbeLifecycle --------------------------
(* Three paths, two of them to one library, in records of up to two. *)
EXTENDS ProbeLifecycle

MCKeyOf == [host |-> 1, container |-> 1, other |-> 2]

MCFound == {<<"host">>, <<"other", "container">>}
=============================================================================
