---------------------------- MODULE DurableTask -----------------------------
(***************************************************************************)
(* One durable task: DurableTaskWorkflow and the AgentExecutionWorkflow    *)
(* children it starts (src/durable_threads/temporal_workflows.py), the     *)
(* activities they schedule (temporal_activities.py) and the reviewers who *)
(* send it signals.  Workflow code runs to its next await in one step, as  *)
(* a Temporal activation does; activities end, fail or are lost with their *)
(* worker in any order, and a lost one leaves its executor process behind. *)
(* What the activities compute is in Decisions and ExecutorRegistry.       *)
(***************************************************************************)
EXTENDS Decisions, ExecutorRegistry

CONSTANTS
  Registry,    \* the executors of the workers
  Tasks,       \* what the text of the task may be: a part of Texts
  Preferred,   \* task.preferred_providers, a sequence
  Required,    \* task.required_capabilities
  Selector,    \* task.model_selector
  GateAt,      \* task.human_gate_at
  MaxAttempts, \* task.max_attempts
  Width,       \* task.speculative_parallelism
  Waits,       \* task.wait_for_human_review
  MaxSignals,  \* bound: review signals ever sent
  None

Providers == {Registry[i].provider : i \in DOMAIN Registry}

(* What __post_init__ lets through. *)
TaskRunInput == MaxAttempts \in Nat \ {0} /\ Width \in 1 .. 4 /\ Waits \in BOOLEAN

ASSUME DurableTaskAssumption ==
  /\ TaskRunInput /\ GateAt \in RISK_LEVELS /\ Tasks \subseteq Texts
  /\ Registry \in Seq({Registry[i] : i \in DOMAIN Registry}) /\ IdsUnique(Registry)
  /\ Preferred \in Seq({Preferred[i] : i \in DOMAIN Preferred})
  /\ MaxSignals \in Nat
  /\ None \notin Providers

VARIABLES
  text,       \* the task, as the classifier of risk reads it
  phase,      \* self._phase; "error" when the workflow itself failed
  asking,     \* what _wait_for_review is asked for: "gate", "result",
              \* "intervention"; None when it is not waiting
  need,       \* task_assessment: [risk, review, gate, shape], or None
  round,      \* self._round
  excluded, preferred,   \* the locals that steer routing: a set, a sequence
  child,      \* the child workflow of each active provider
  best,       \* the attempt chosen in the last round; None once another
              \* round starts, which does not look at it any more
  decision,   \* self._review_decision
  sent,       \* review signals on their way
  (* Outside the workflow, or history: *)
  alive,      \* executor processes that run: <<round, provider>>
  launched,   \* executions ever started: <<round, provider>>
  granted,    \* approvals consumed that open the gate or accept the result
  signals     \* how many review signals were sent

workflow == <<text, phase, asking, need, round, excluded, preferred, best>>
outside == <<alive, launched>>
review == <<decision, sent, signals>>
vars == <<workflow, child, review, outside, granted>>

Closed == {"complete", "rejected", "review_required", "failed", "error"}
Idle == [stage |-> "none", executor |-> None, exit0 |-> FALSE, complete |-> FALSE,
         ready |-> FALSE, review |-> FALSE, next |-> None]

Active == {p \in Providers : child[p].stage # "none"}

-----------------------------------------------------------------------------
(* Helpers of the workflow. *)

Close(status) == phase' = status /\ asking' = None

(* A fault: the decision of an earlier wait, or of none, is kept. *)
WaitKeepingDecision(what) ==
  phase' = "waiting_for_human_review" /\ asking' = what /\ UNCHANGED decision

(* A decision that came before this wait began is thrown away. *)
WaitForReview(what) ==
  /\ phase' = "waiting_for_human_review"
  /\ asking' = what
  /\ decision' = None

StartRound(n) ==
  /\ round' = n
  /\ phase' = "routing"
  /\ asking' = None

(* Faults: the rounds are not counted, or not limited. *)
NextRoundUncounted == StartRound(round)
NextRoundUnlimited == StartRound(round + 1)

(* The loop ends when max_attempts rounds are used up. *)
NextRound ==
  IF round < MaxAttempts THEN StartRound(round + 1)
  ELSE Close("failed") /\ UNCHANGED round

(* A fault: verified work needs no review. *)
GateWaived(ready, reviewRequired) == IF ready THEN "complete" ELSE "unverified"

completion_gate(ready, reviewRequired) ==
  IF ~ready THEN "unverified"
  ELSE IF reviewRequired THEN "review_required"
  ELSE "complete"

-----------------------------------------------------------------------------
(* A fault: wait_for_human_review switches the gate off, too. *)
PausesIfWaiting(n) == n.gate /\ Waits

(* The gate is not the caller's to skip. *)
Pauses(n) == n.gate

(* assess_task_activity.  It may fail for good. *)
Assessments == [t \in Tasks |-> {assess_task(t, a, GateAt) : a \in task_answers(t)}]

Assess ==
  /\ phase = "assessing"
  /\ \/ /\ need' \in Assessments[text]
        /\ IF Pauses(need')
           THEN WaitForReview("gate") /\ UNCHANGED round
           ELSE StartRound(1) /\ UNCHANGED decision
     \/ Close("error") /\ UNCHANGED <<need, decision, round>>
  /\ UNCHANGED <<text, excluded, preferred, best, child, sent, signals, outside, granted>>

Mutating == Required \cap {"filesystem", "git"} # {}

RouteCountShared == IF need.shape = "parallel_workers" THEN Width ELSE 1   \* a fault

RouteCount == IF need.shape = "parallel_workers" /\ ~Mutating THEN Width ELSE 1

(* route_executors_activity *)
Requirements ==
  [capabilities |-> Required, headless |-> TRUE, persistent |-> FALSE,
   structured |-> TRUE, effort |-> FALSE,
   preferred |-> IF preferred = << >> THEN Preferred ELSE preferred,
   excluded |-> excluded]

(* The workflow keeps a provider once; its first executor is the one that  *)
(* was selected for it.                                                    *)
Selected(chosen, p) ==
  LET at == {i \in chosen : Registry[i].provider = p} IN
  Registry[CHOOSE i \in at : \A j \in at \ {i} : Precedes(Registry, Requirements, i, j)].id

Start(chosen) ==
  /\ child' = [p \in Providers |->
                 IF \E i \in chosen : Registry[i].provider = p
                 THEN [Idle EXCEPT !.stage = "starting", !.executor = Selected(chosen, p)]
                 ELSE Idle]
  /\ phase' = "executing"

(* Any of the executors is available when their probes run. *)
Route ==
  /\ phase = "routing"
  /\ \/ \E available \in SUBSET DOMAIN Registry :
          LET chosen == select(Registry, Requirements, available, RouteCount) IN
          IF chosen = {}
          THEN Close("failed") /\ UNCHANGED child
          ELSE Start(chosen) /\ UNCHANGED asking
     \/ Close("error") /\ UNCHANGED child
  /\ UNCHANGED <<text, need, round, excluded, preferred, best, review, outside, granted>>

-----------------------------------------------------------------------------
(* A child workflow: one execution, one verification, one assessment.      *)

Becomes(p, c) == child' = [child EXCEPT ![p] = c]

(* _failed_attempt: any activity of the child failed for good. *)
FailedAttempt == [Idle EXCEPT !.stage = "done", !.review = TRUE, !.next = "human_review"]

(* run_execution_activity looks for an executor whose id is the provider.  *)
Executable(p) == \E e \in Registered(Registry, p) : CanExecute(e, p, Selector)

ExecutionRefused(p) ==
  /\ child[p].stage = "starting" /\ ~Executable(p)
  /\ Becomes(p, FailedAttempt)
  /\ UNCHANGED outside

ExecutionStarts(p) ==
  /\ child[p].stage = "starting" /\ Executable(p)
  /\ Becomes(p, [child[p] EXCEPT !.stage = "executing"])
  /\ alive' = alive \cup {<<round, p>>}
  /\ launched' = launched \cup {<<round, p>>}

(* The process ends by itself, or the timeout kills it. *)
ExecutionEnds(p) ==
  /\ child[p].stage = "executing"
  /\ \/ \E rc0 \in BOOLEAN :
          Becomes(p, [child[p] EXCEPT !.stage = "verifying", !.exit0 = rc0])
     \/ Becomes(p, FailedAttempt)
  /\ alive' = alive \ {<<round, p>>}
  /\ UNCHANGED launched

(* A fault: the retry policy of the other activities. *)
ExecutionRetried(p) ==
  /\ child[p].stage = "executing"
  /\ Becomes(p, [child[p] EXCEPT !.stage = "starting"])
  /\ UNCHANGED outside

(* The worker dies; the server notices that heartbeats stop.  The executor *)
(* process is nobody's child then and runs on.                             *)
ExecutionLost(p) ==
  /\ child[p].stage \in {"starting", "executing"}
  /\ Becomes(p, FailedAttempt)
  /\ UNCHANGED outside

(* verify_execution_activity: complete, or not, or failed twice. *)
Verify(p) ==
  /\ child[p].stage = "verifying"
  /\ \/ \E complete \in BOOLEAN :
          Becomes(p, [child[p] EXCEPT !.stage = "judging", !.complete = complete])
     \/ Becomes(p, FailedAttempt)
  /\ UNCHANGED outside

(* assess_result_activity, with the risk of the task.  It may fail. *)
Judgements ==
  [risk \in RISK_LEVELS |-> [exit0 \in BOOLEAN |-> [complete \in BOOLEAN |->
     {assess_result(risk, exit0, complete, a) : a \in result_answers(exit0, complete)}]]]

AssessResult(p) ==
  /\ child[p].stage = "judging"
  /\ \/ \E j \in Judgements[need.risk][child[p].exit0][child[p].complete] :
          Becomes(p, [child[p] EXCEPT !.stage = "done", !.ready = j.ready,
                        !.review = j.review, !.next = j.next])
     \/ Becomes(p, FailedAttempt)
  /\ UNCHANGED outside

ChildStep(p) ==
  /\ phase = "executing"
  /\ ExecutionRefused(p) \/ ExecutionStarts(p) \/ ExecutionEnds(p) \/ ExecutionLost(p) \/ Verify(p) \/ AssessResult(p)
  /\ UNCHANGED <<workflow, review, granted>>

(* An executor that outlived its activity ends at last. *)
OrphanEnds ==
  /\ \E e \in alive :
       /\ ~(e[1] = round /\ child[e[2]].stage = "executing")
       /\ alive' = alive \ {e}
  /\ UNCHANGED <<workflow, child, review, launched, granted>>

-----------------------------------------------------------------------------
(* All children are done: choose the best attempt and act on it.           *)

Rank(c) == IF c.ready /\ ~c.review THEN 2 ELSE IF c.ready THEN 1 ELSE 0

Chosen(p) ==
  [provider |-> p, ready |-> child[p].ready /\ child[p].complete /\ child[p].exit0,
   review |-> child[p].review, next |-> child[p].next]

Review(b) == need.review \/ b.review

(* switch_executor, correct_same and stronger_model try again. *)
TryAgain(b) ==
  /\ b.next \in {"switch_executor", "correct_same", "stronger_model"}
  /\ IF b.next = "switch_executor"
     THEN excluded' = excluded \cup {b.provider} /\ preferred' = << >>
     ELSE preferred' = <<b.provider>> /\ UNCHANGED excluded
  /\ NextRound
  /\ UNCHANGED decision

(* Stop and ask, or wait for an answer. *)
AskFor(what) ==
  /\ IF Waits THEN WaitForReview(what) ELSE Close("review_required") /\ UNCHANGED decision
  /\ UNCHANGED <<round, excluded, preferred>>

Act(b) ==
  LET gate == completion_gate(b.ready, Review(b)) IN
  \/ /\ gate = "complete"
     /\ Close("complete")
     /\ UNCHANGED <<round, excluded, preferred, decision>>
  \/ /\ gate # "complete" /\ b.ready /\ Review(b)
     /\ AskFor("result")
  \/ /\ ~b.ready /\ b.next = "human_review"
     /\ AskFor("intervention")
  \/ /\ ~b.ready /\ TryAgain(b)
  \/ /\ ~b.ready /\ b.next = "accept"
     /\ Close("review_required")
     /\ UNCHANGED <<round, excluded, preferred, decision>>

Decide ==
  /\ phase = "executing"
  /\ \A p \in Active : child[p].stage = "done"
  /\ \E p \in Active :
       /\ \A q \in Active : Rank(child[q]) <= Rank(child[p])
       /\ Act(Chosen(p))
       /\ best' = IF phase' = "routing" THEN None ELSE Chosen(p)
  /\ child' = [p \in Providers |-> Idle]
  /\ UNCHANGED <<text, need, sent, signals, outside, granted>>

-----------------------------------------------------------------------------
(* Reviews.  A signal is sent at any time, on the strength of a status     *)
(* that may have changed since, and may arrive late; the last one to       *)
(* arrive while the workflow waits is the decision.                        *)

SendReview ==
  /\ signals < MaxSignals
  /\ signals' = signals + 1
  /\ \E approved \in BOOLEAN : sent' = sent \cup {[approved |-> approved, id |-> signals]}
  /\ UNCHANGED <<workflow, child, decision, outside, granted>>

(* The review handler; wait is what the workflow asked for when it came. *)
ReviewSignal ==
  /\ phase \notin Closed
  /\ \E m \in sent :
       /\ sent' = sent \ {m}
       /\ decision' = [approved |-> m.approved, wait |-> asking]
  /\ UNCHANGED <<workflow, child, signals, outside, granted>>

(* A fault: only an approval ends the wait. *)
Approved == decision # None /\ decision.approved

Answered == decision # None

ResumeReview ==
  /\ phase = "waiting_for_human_review" /\ Answered
  /\ decision' = None
  /\ IF decision.approved
     THEN /\ granted' = granted \cup ({asking} \cap {"gate", "result"})
          /\ CASE asking = "gate" -> StartRound(1)
               [] asking = "result" -> Close("complete") /\ UNCHANGED round
               [] OTHER -> /\ Close(IF best.ready THEN "complete" ELSE "review_required")
                           /\ UNCHANGED round
     ELSE Close("rejected") /\ UNCHANGED <<granted, round>>
  /\ UNCHANGED <<text, need, excluded, preferred, best, child, sent, signals, outside>>

-----------------------------------------------------------------------------
Init ==
  /\ text \in Tasks
  /\ phase = "assessing" /\ asking = None /\ need = None /\ round = 0
  /\ excluded = {} /\ preferred = Preferred
  /\ child = [p \in Providers |-> Idle]
  /\ best = None /\ decision = None /\ sent = {} /\ signals = 0
  /\ alive = {} /\ launched = {} /\ granted = {}

(* The workflow and its activities: retries and timeouts are bounded, so   *)
(* each of them ends, and a workflow task that can run is run.             *)
Progress ==
  \/ Assess \/ Route \/ Decide \/ ResumeReview
  \/ \E p \in Providers : ChildStep(p)

Next == Progress \/ OrphanEnds \/ SendReview \/ ReviewSignal

Spec == Init /\ [][Next]_vars

FairSpec == Spec /\ WF_vars(Progress) /\ WF_vars(ReviewSignal)

-----------------------------------------------------------------------------
Children == [stage : {"none", "starting", "executing", "verifying", "judging", "done"},
             executor : {Registry[i].id : i \in DOMAIN Registry} \cup {None},
             exit0 : BOOLEAN, complete : BOOLEAN, ready : BOOLEAN, review : BOOLEAN,
             next : Interventions \cup {None}]

Needs == [risk : RISK_LEVELS, review : BOOLEAN, gate : BOOLEAN, shape : Shapes]

Choices == [provider : Providers, ready : BOOLEAN, review : BOOLEAN, next : Interventions]

TypeOK ==
  /\ text \in Tasks
  /\ phase \in Closed \cup {"assessing", "waiting_for_human_review", "routing", "executing"}
  /\ asking \in {"gate", "result", "intervention", None}
  /\ asking # None <=> phase = "waiting_for_human_review"
  /\ need \in {None} \cup Needs
  /\ round \in 0 .. MaxAttempts
  /\ excluded \subseteq Providers
  /\ preferred \in {Preferred, << >>} \cup {<<p>> : p \in Providers}
  /\ child \in [Providers -> Children]
  /\ best \in {None} \cup Choices
  /\ alive \subseteq launched
  /\ launched \subseteq (1 .. MaxAttempts) \X Providers
  /\ granted \subseteq {"gate", "result"}

Contract ==
  INSTANCE TaskContract WITH
    need    <- IF need = None THEN None
               ELSE [gate |-> need.gate, review |-> need.review],
    judged  <- IF best = None THEN None
               ELSE [ready |-> best.ready, review |-> best.review],
    outcome <- IF phase \in Closed THEN phase ELSE None

(* None is none of the values that stand beside it.                        *)
ASSUME NoneAssumption ==
  /\ None \notin Needs \cup Choices \cup Contract!Needs \cup Contract!Judgements
  /\ None \notin Closed \cup {"gate", "result", "intervention"}

(* The workflow keeps the promise of a durable task: the gate opens before *)
(* anything is judged, and it completes only on a result that is ready     *)
(* and, where needed, approved - an approval of the gate is none of the    *)
(* result (docs/TEMPORAL_JEV.md, Safety invariants 4 and 5).               *)
KeepsContract == Contract!Spec

(* What the workflow has of the execution on a provider in this round. *)
Seen(p) ==
  LET c == child[p] IN
  [stage    |-> CASE c.stage = "none" -> "idle"
                  [] c.stage \in {"judging", "done"} -> "over"
                  [] OTHER -> c.stage,
   launched |-> c.stage # "none" /\ <<round, p>> \in launched,
   alive    |-> c.stage # "none" /\ <<round, p>> \in alive,
   complete |-> c.complete]

Work ==
  INSTANCE Execution WITH
    Executors <- Providers,
    execution <- [p \in Providers |-> Seen(p)]

(* The children keep what module Execution promises of them: none starts a *)
(* second process, whatever is lost, and none is verified while its        *)
(* process runs.                                                           *)
KeepsExecution == Work!Spec

(* "Risk can only move upward" and "R4 defaults to a human gate before      *)
(* execution" (docs/TEMPORAL_JEV.md, 3 and 4): no executor is ever started  *)
(* by a task whose words ask for the gate, or whose assessment does, and    *)
(* whose gate was not opened - whatever an engine answered, and whether the *)
(* task waits for other reviews or not.                                     *)
GateBeforeExecution ==
  launched # {} /\ (need.gate \/ classify_risk(text) >= GateAt) => "gate" \in granted

(* "R3/R4 requires independent review", and "Jev confidence is evidence,    *)
(* not authorization" (4 and 5): what speaks of security, data or           *)
(* architecture completes on the approval of its result, and on nothing     *)
(* else.                                                                    *)
HighRiskApproved ==
  phase = "complete" /\ classify_risk(text) >= 3 => "result" \in granted

(* "Executor selection is capability-based" (6): what runs for a selected   *)
(* executor is that executor.                                               *)
SelectedExecutorRuns ==
  \A p \in Providers : child[p].stage = "starting" =>
    \E e \in Registered(Registry, p) : e.id = child[p].executor /\ e.backend # "none"

(* "Shared-checkout writers are serialized" and "duplicate writers are     *)
(* worse than a visible failed attempt" (docs/TEMPORAL_JEV.md, 2 and 8):   *)
(* two executors never run in one checkout, even when the worker that      *)
(* started the first died and its process did not.                         *)
WritersSerialized == Mutating => Cardinality(alive) <= 1

(* "Provider mutation activities do not blindly retry": an execution is    *)
(* started once in its round, and never again on a provider that the task  *)
(* was switched away from.                                                 *)
NoReExecution ==
  [][\A p \in Providers :
       child[p].stage = "starting" /\ child'[p].stage = "executing" =>
         <<round, p>> \notin launched /\ p \notin excluded]_vars

(* A decision that reached the workflow before it asked is never the       *)
(* answer: what the workflow resumes on came while it was waiting.         *)
DecisionIsCurrent ==
  phase = "waiting_for_human_review" /\ decision # None => decision.wait = asking

(* The task always ends or comes to wait for a reviewer, through any loss  *)
(* of workers and failures of activities; and a decision that arrives      *)
(* while it waits moves it on.                                             *)
EndsOrWaits == []<>(phase \in Closed \cup {"waiting_for_human_review"})
DecisionMovesOn ==
  \A w \in {"gate", "result", "intervention"} :
    asking = w /\ decision # None ~> asking # w
=============================================================================
