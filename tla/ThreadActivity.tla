--------------------------- MODULE ThreadActivity ---------------------------
(***************************************************************************)
(* The activity row of one chat thread: thread_activity.py writes it from  *)
(* the agent container, core-api reads it for the browser.                 *)
(*                                                                         *)
(* Every writer swallows its exceptions, so that a write may be lost: the  *)
(* actions below are the writes, the modules that use them lose some.  A   *)
(* row that is "running" and has not been written for ten minutes (~fresh) *)
(* is shown as idle.                                                       *)
(***************************************************************************)
CONSTANTS
    Run,        \* run ids, one per turn
    NoRun       \* run id of a thread that never ran

VARIABLE activity

ActivityRow == [status : {"absent", "running", "idle", "error"},
                run : Run \cup {NoRun}, fresh : BOOLEAN]

ActivityTypeOK == activity \in ActivityRow

ActivityInit == activity = [status |-> "absent", run |-> NoRun, fresh |-> FALSE]

(* put_item: the whole row is replaced. *)
MarkRunning(r) == activity' = [status |-> "running", run |-> r, fresh |-> TRUE]

(* A conditional update: a row that is not running is not resurrected. *)
UpdateStep == activity' = [activity EXCEPT !.fresh = @ \/ activity.status = "running"]

(* Unconditional updates; they keep the run id and create a missing row. *)
MarkIdle == activity' = [activity EXCEPT !.status = "idle", !.fresh = TRUE]
MarkError == activity' = [activity EXCEPT !.status = "error", !.fresh = TRUE]

(* Ten minutes without a write. *)
GoStale ==
    /\ activity.status = "running"
    /\ activity.fresh
    /\ activity' = [activity EXCEPT !.fresh = FALSE]

\* Mistake: a running row is believed forever.
ShownAsStored == IF activity.status = "absent" THEN "idle" ELSE activity.status

(* What GET /threads/{id}/activity answers. *)
Shown ==
    IF activity.status = "absent" \/ (activity.status = "running" /\ ~activity.fresh)
    THEN "idle" ELSE activity.status
=============================================================================
