---------------------------- MODULE RunLifecycle ----------------------------
(***************************************************************************)
(* What one autonomous run promises its observers: it starts once, stops   *)
(* at most once, in one of four terminal statuses, and announces the end   *)
(* with exactly one terminal event, the one that belongs to the status     *)
(* (docs/architecture.md, "Termination conditions").                       *)
(***************************************************************************)
EXTENDS Sequences

VARIABLES status,    \* RunSession.status
          terminal   \* the terminal events emitted so far, in order

lifecycle == << status, terminal >>

\* The terminal statuses a run reaches by itself ("stopped" is set by no code).
FinalStatus == {"completed", "gave_up", "failed", "limit_reached"}

\* The terminal event that announces each final status.
EventOf(final) ==
  CASE final = "completed"     -> "GOAL_COMPLETED"
    [] final = "gave_up"       -> "GOAL_FAILED:gave_up"
    [] final = "failed"        -> "GOAL_FAILED:unrecoverable"
    [] final = "limit_reached" -> "RUN_LIMIT_REACHED"

LifecycleInit == status = "created" /\ terminal = << >>

Begin ==
  /\ status = "created"
  /\ status' = "running"
  /\ UNCHANGED terminal

End(final) ==
  /\ status = "running"
  /\ status' = final
  /\ terminal' = Append(terminal, EventOf(final))

LifecycleNext == Begin \/ \E final \in FinalStatus : End(final)

LifecycleSpec == LifecycleInit /\ [][LifecycleNext]_lifecycle
=============================================================================
