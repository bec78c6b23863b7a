-------------------------- MODULE LocalLinuxClaims --------------------------
(***************************************************************************)
(* What the repository says of the local environment and the code does not *)
(* keep.                                                                   *)
(***************************************************************************)
EXTENDS LocalLinuxProperties

\* The stop script "SIGTERMs the process group of leader $1, waits up to $2
\* tenths of a second, then SIGKILLs" (container-scripts.ts line 39).  It exits
\* as soon as the leader is dead, so a member of the group that ignores SIGTERM
\* goes on running behind a process reported killed.
KilledLeavesNothing ==
  \A i \in DOMAIN processes :
    StatusOf(i) = "killed" => LeaderOf(i) \notin {"lingering", "orphaned"}
=============================================================================
