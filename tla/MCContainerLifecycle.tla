------------------------ MODULE MCContainerLifecycle ------------------------
(* Small instances of ContainerLifecycle for TLC. *)
EXTENDS ContainerLifecycle, TLC

\* Requests differ only in name, and so do the restart tasks.
TaskSymmetry == Permutations(Requests) \cup Permutations(Restarts)
=============================================================================
