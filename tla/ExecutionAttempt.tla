--------------------------- MODULE ExecutionAttempt ---------------------------
(***************************************************************************)
(* The attempts of a task in its checkout: AgentExecutionWorkflow          *)
(* (src/durable_threads/temporal_workflows.py) runs the executor, verifies *)
(* what it left behind, and may run another one after that.  The executor  *)
(* (ExecutorProcess) edits, stages and commits as long as its process      *)
(* runs; nothing cleans the checkout up between two attempts (Evidence).   *)
(***************************************************************************)
EXTENDS ExecutorProcess, Evidence

CONSTANTS
  MaxRounds,  \* task.max_attempts
  MaxEdits    \* bound: writes, stagings and commits altogether

ASSUME AttemptAssumption == MaxRounds \in Nat \ {0} /\ MaxEdits \in Nat

VARIABLES
  stage,     \* of the workflow: "executing", "verified"
  round,     \* attempts started
  pinned,    \* the task has a base_ref
  verdict,   \* the answer of verify_execution_activity in this attempt
  checkout,  \* [head, index, tree]
  edits      \* how many edits there were

attempt == <<stage, round, pinned, verdict>>
files == <<checkout, edits>>
vars == <<process, attempt, files>>

-----------------------------------------------------------------------------
(* The executor works.  Its process reaches the checkout until it is gone. *)
(* What an execution that failed or was given up still writes is not       *)
(* followed: such an attempt is never verified, and the next one waits for *)
(* a person, whose answer closes the task (see DurableTask).               *)

Edit(c) ==
  /\ proc = "running" /\ server \in {"open", "completed"} /\ edits < MaxEdits
  /\ edits' = edits + 1
  /\ checkout' = c
  /\ UNCHANGED <<process, attempt>>

Write == \E p \in Paths : Edit([checkout EXCEPT !.tree[p] = 1 - @])

(* git add leaves out what is ignored. *)
Stage ==
  Edit([checkout EXCEPT !.index =
          [p \in Paths |-> IF p \in Ignored THEN checkout.index[p] ELSE checkout.tree[p]]])

Commit == Edit([checkout EXCEPT !.head = checkout.index])

-----------------------------------------------------------------------------
(* The workflow. *)

(* The executor may have printed anything. *)
Verify ==
  /\ stage = "executing" /\ server = "completed"
  /\ stage' = "verified"
  /\ verdict' \in Verdicts(git_changed_paths(checkout, pinned))
  /\ UNCHANGED <<process, round, pinned, files>>

(* A fresh activity and a fresh process in the same checkout, on a worker  *)
(* that lives.                                                             *)
StartAttempt ==
  /\ worker = "up"
  /\ stage' = "executing" /\ round' = round + 1
  /\ activity' = "running" /\ told' = FALSE
  /\ backend' = "none" /\ cause' = "none" /\ proc' = "none" /\ signal' = "none"
  /\ server' = "open" /\ clocks' = FirstClocks /\ skipped' = FALSE
  /\ verdict' = NoEvidence
  /\ UNCHANGED <<worker, lost, pinned, files>>

(* A fault: the range ends one too late. *)
NextAttemptTooMany == stage = "verified" /\ round <= MaxRounds /\ StartAttempt

(* The judgement asks for another attempt, and one is left. *)
NextAttempt == stage = "verified" /\ round < MaxRounds /\ StartAttempt

-----------------------------------------------------------------------------
(* The checkout may be dirty before the task starts. *)
Init ==
  /\ ProcessInit
  /\ stage = "executing" /\ round = 1 /\ pinned \in BOOLEAN
  /\ verdict = NoEvidence
  /\ checkout \in {[head |-> Unchanged, index |-> Unchanged, tree |-> t] :
                     t \in {Unchanged} \cup {[Unchanged EXCEPT ![p] = 1] : p \in Paths}}
  /\ edits = 0

Running == stage = "executing" /\ ProcessNext /\ UNCHANGED <<attempt, files>>

Next == Running \/ Write \/ Stage \/ Commit \/ Verify \/ NextAttempt

(* The worker runs what it can run, time passes, the server keeps its      *)
(* deadlines and SIGKILL works.                                            *)
Fairness ==
  /\ WF_vars(WorkerStep /\ UNCHANGED <<attempt, files>>)
  /\ WF_vars(Tick /\ UNCHANGED <<attempt, files>>)
  /\ WF_vars(ServerGivesUp /\ UNCHANGED <<attempt, files>>)
  /\ WF_vars(signal = "kill" /\ ProcessExits /\ UNCHANGED <<attempt, files>>)

Spec == Init /\ [][Next]_vars /\ Fairness

-----------------------------------------------------------------------------
TypeOK ==
  /\ ProcessTypeOK
  /\ stage \in {"executing", "verified"} /\ round \in 1 .. MaxRounds
  /\ pinned \in BOOLEAN
  /\ verdict.status \in {"complete", "blocked", "failed", "invalid_evidence"}
  /\ verdict.changed \subseteq Paths
  /\ checkout \in [head : [Paths -> 0 .. 1], index : [Paths -> 0 .. 1], tree : [Paths -> 0 .. 1]]
  /\ edits \in 0 .. MaxEdits

(* "Worker output is checked against the actual git diff"                   *)
(* (docs/TEMPORAL_JEV.md, Safety invariant 7): what a completed            *)
(* attempt claims is inside the allowed paths and covers all that differs  *)
(* from the baseline - the work of earlier attempts and of whoever was     *)
(* there before it included - and it still does when the answer is used.   *)
(* Only an ignored file escapes, and, without a base_ref, what the worker  *)
(* itself committed.                                                       *)
VerifiedTree ==
  stage = "verified" /\ verdict.status = "complete"
    /\ (pinned \/ checkout.head = Unchanged) =>
      /\ ChangedIn(checkout.tree, Unchanged) \ Ignored \subseteq verdict.changed
      /\ \A p \in verdict.changed : ~IsUnsafe(p) /\ \E a \in Allowed : PathMatches(p, a)

(* What the workflow has of the attempt, and what runs for it. *)
Seen ==
  [stage    |-> IF stage = "verified" THEN "over"
                ELSE CASE server = "open" -> IF proc = "none" THEN "starting" ELSE "executing"
                       [] server = "completed" -> "verifying"
                       [] server = "canceled" -> "canceled"
                       [] OTHER -> "over",
   launched |-> proc # "none",
   alive    |-> proc = "running",
   complete |-> stage = "verified" /\ verdict.status = "complete"]

Work ==
  INSTANCE Execution WITH
    Executors <- {"executor"},
    execution <- [p \in {"executor"} |-> Seen]

(* An attempt is an execution as module Execution promises it: whatever    *)
(* times out, is lost or cancelled on its way, a process starts once, only *)
(* before the workflow has its answer or the worker hears of a cancel, and *)
(* never runs when it is verified.                                         *)
KeepsExecution == Work!Spec

(* An executor that hangs, and ignores SIGTERM, comes to its end all the   *)
(* same - unless its worker goes first, or a cancellation during the grace *)
(* skips the kill.                                                         *)
HangingEnds == proc = "running" ~> proc # "running" \/ worker # "up" \/ skipped
=============================================================================
