------------------------ MODULE MCContainerResolver ------------------------
(* The container resolver with two callers and two cgroup ids. *)
EXTENDS ContainerResolver
=============================================================================
