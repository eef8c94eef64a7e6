-------------------------- MODULE SessionLifecycle --------------------------
(***************************************************************************)
(* What a client may rely on when it polls a session's status: the states  *)
(* a session goes through and that a terminal one is its last.  It has one *)
(* arrow more than the diagram of PLAN_MULTI_USER_IMPL.md: "confirm_done"  *)
(* ends a waiting session as done.  An admin's kill-all voids the promise: *)
(* its "cancelled" and the worker's own statuses overwrite each other.     *)
(***************************************************************************)
VARIABLES state, killed

Terminal == {"done", "failed", "cancelled", "timed_out"}

Init == state = "queued" /\ killed = FALSE

Assign   == state = "queued" /\ state' = "assigned"
\* The worker died before it started: the session is queued again.
Requeue  == state = "assigned" /\ state' = "queued"
Run      == state = "assigned" /\ state' = "running"
Ask      == state = "running" /\ state' = "waiting_for_user"
Answer   == state = "waiting_for_user" /\ state' = "running"
Conclude ==
    \/ state = "running" /\ state' \in Terminal \ {"timed_out"}
    \/ state = "waiting_for_user" /\ state' \in Terminal

KillAll == killed' = TRUE /\ UNCHANGED state

Next ==
    \/ (Assign \/ Requeue \/ Run \/ Ask \/ Answer \/ Conclude) /\ UNCHANGED killed
    \/ KillAll
    \/ killed /\ UNCHANGED killed

Spec == Init /\ [][Next]_<<state, killed>>
=============================================================================
