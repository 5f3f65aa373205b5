------------------------------ MODULE Execution ------------------------------
(***************************************************************************)
(* What the executions of a task promise its workflow                      *)
(* (AgentExecutionWorkflow of src/durable_threads/temporal_workflows.py):  *)
(* one process each, started at most once, verified only when it is gone.  *)
(* DurableTask, which sees each execution as the child of a workflow, and  *)
(* ExecutionAttempt, which sees one of them down to its deadlines and      *)
(* signals, both implement this module: it is where the two models meet.   *)
(***************************************************************************)

CONSTANT Executors

VARIABLE execution   \* of each executor: its stage, whether its process was
                     \* launched, whether it runs, and whether the evidence
                     \* it left supports a completed task

vars == <<execution>>

Executions ==
  [stage : {"idle", "starting", "executing", "verifying", "over", "canceled"},
   launched : BOOLEAN, alive : BOOLEAN, complete : BOOLEAN]

Fresh(stage) == [stage |-> stage, launched |-> FALSE, alive |-> FALSE, complete |-> FALSE]

-----------------------------------------------------------------------------
(* The moves of one execution, from e to n. *)

(* A new one; what an earlier one left behind is not followed any further. *)
Begins(e, n) == e.stage \in {"idle", "over"} /\ n = Fresh("starting")

Launches(e, n) ==
  /\ e.stage = "starting" /\ ~e.launched
  /\ n = [e EXCEPT !.stage = "executing", !.launched = TRUE, !.alive = TRUE]

(* The worker has not heard of the cancellation yet. *)
LaunchesLate(e, n) ==
  /\ e.stage = "canceled" /\ ~e.launched
  /\ n = [e EXCEPT !.launched = TRUE, !.alive = TRUE]

Exits(e, n) == e.alive /\ n = [e EXCEPT !.alive = FALSE]

(* The activity reports what it has waited for. *)
Ends(e, n) ==
  /\ e.stage = "executing"
  /\ \E s \in {"verifying", "over"} : n = [e EXCEPT !.stage = s, !.alive = FALSE]

(* Refused, timed out at the server, or lost with its worker: there is an  *)
(* error for the workflow, and perhaps a process that still runs.          *)
Fails(e, n) == e.stage \in {"starting", "executing"} /\ n = [e EXCEPT !.stage = "over"]

Canceled(e, n) ==
  e.stage \in {"starting", "executing"} /\ n = [e EXCEPT !.stage = "canceled"]

Verified(e, n) ==
  /\ e.stage = "verifying"
  /\ \E c \in BOOLEAN : n = [e EXCEPT !.stage = "over", !.complete = c]

(* The assessment failed: what was verified is not used. *)
Withdrawn(e, n) == e.stage = "over" /\ n = [e EXCEPT !.complete = FALSE]

Forgotten(e, n) == e.stage = "over" /\ n = Fresh("idle")

Moves(e, n) ==
  \/ Begins(e, n) \/ Launches(e, n) \/ LaunchesLate(e, n) \/ Exits(e, n) \/ Ends(e, n)
  \/ Fails(e, n) \/ Canceled(e, n) \/ Verified(e, n) \/ Withdrawn(e, n) \/ Forgotten(e, n)

-----------------------------------------------------------------------------
Init == execution \in [Executors -> {Fresh("idle"), Fresh("starting")}]

(* A workflow starts several at a time. *)
Next ==
  /\ execution' \in [Executors -> Executions]
  /\ \A p \in Executors :
       execution'[p] = execution[p] \/ Moves(execution[p], execution'[p])

Spec == Init /\ [][Next]_vars

(* What is verified, and what is taken for complete, has run, and nothing  *)
(* of it runs any more.                                                    *)
Promise ==
  \A p \in Executors :
    execution[p].stage = "verifying" \/ execution[p].complete =>
      execution[p].launched /\ ~execution[p].alive
=============================================================================
