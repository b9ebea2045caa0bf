---------------------------- MODULE MCStreamFile ----------------------------
(* The file follower with lines of two cells. *)
EXTENDS StreamFile
=============================================================================
