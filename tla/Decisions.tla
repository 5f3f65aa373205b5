------------------------------ MODULE Decisions ------------------------------
(***************************************************************************)
(* How a judgement becomes policy: the classifier of risk (risk.py), the   *)
(* decision engines and their thresholds (decisions.py) and the two        *)
(* assessments of a durable task (intelligence.py), all in                 *)
(* src/durable_threads.  Risk classes are 0 .. 4; probabilities and        *)
(* certainties are percentages.  Nothing here has a state.                 *)
(***************************************************************************)
EXTENDS Integers

RISK_LEVELS == 0 .. 4

Shapes == {"single_worker", "worker_plus_review", "parallel_workers"}

Interventions == {"accept", "correct_same", "switch_executor", "stronger_model",
                  "human_review"}

-----------------------------------------------------------------------------
(* A task is known by what classify_risk finds in its text and paths: the  *)
(* classes whose words occur in it, whether it speaks of a change, whether *)
(* it may touch code.                                                      *)
Texts == [signals : SUBSET {0, 2, 3, 4}, change : BOOLEAN, code : BOOLEAN]

classify_risk(text) ==
  IF 4 \in text.signals THEN 4
  ELSE IF 3 \in text.signals THEN 3
  ELSE IF 2 \in text.signals THEN 2
  ELSE IF 0 \in text.signals /\ (~text.change \/ ~text.code) THEN 0
  ELSE 1

(* A fault: the engine knows better than the words. *)
EngineRisk(a, b) == b

higher_risk(a, b) == IF a >= b THEN a ELSE b

meets_threshold(risk, threshold) == risk >= threshold

-----------------------------------------------------------------------------
(* DecisionPolicy *)

threshold_for(risk) ==
  CASE risk = 0 -> 70 [] risk = 1 -> 85 [] risk = 2 -> 90 [] risk = 3 -> 97 [] risk = 4 -> 100

-----------------------------------------------------------------------------
(* The answers of an engine.  Jev's are any that have the right type; the  *)
(* heuristic engine computes its own from the task.                        *)

(* One of each kind that the thresholds tell apart, and the heuristic ones. *)
Percents == {10, 15, 75, 85, 90, 95, 97, 100}

TaskAnswers == [risk : RISK_LEVELS, shape : Shapes, independent : Percents]

ResultAnswers == [semantic : Percents, sufficient : Percents, intervention : Interventions]

heuristic_task(text) ==
  LET high == meets_threshold(classify_risk(text), 3) IN
  [risk |-> classify_risk(text),
   shape |-> IF high THEN "worker_plus_review" ELSE "single_worker",
   independent |-> IF high THEN 95 ELSE 15]

(* checks: complete evidence always has some. *)
heuristic_result(exit0, complete) ==
  [semantic |-> IF exit0 /\ complete THEN 90 ELSE 10,
   sufficient |-> IF complete THEN 90 ELSE 10,
   intervention |-> IF ~exit0 THEN "switch_executor"
                    ELSE IF complete THEN "accept" ELSE "correct_same"]

(* decision_engine_from_env: a worker without a key for Jev is heuristic.  *)
task_answers(text) == TaskAnswers \cup {heuristic_task(text)}

result_answers(exit0, complete) == ResultAnswers \cup {heuristic_result(exit0, complete)}

-----------------------------------------------------------------------------
(* assess_task *)

assess_task(text, answers, human_gate_at) ==
  LET final == higher_risk(classify_risk(text), answers.risk)
      review_required ==
        \/ meets_threshold(final, 3)
        \/ answers.independent >= threshold_for(final)
        \/ answers.shape = "worker_plus_review"
  IN [risk |-> final, review |-> review_required, gate |-> meets_threshold(final, human_gate_at),
      shape |-> IF review_required /\ answers.shape = "single_worker"
                THEN "worker_plus_review" ELSE answers.shape]

-----------------------------------------------------------------------------
(* assess_result *)

assess_result(risk, exit0, complete, answers) ==
  [ready |-> /\ exit0 /\ complete
             /\ answers.semantic >= threshold_for(risk)
             /\ answers.sufficient >= threshold_for(risk)
             /\ answers.intervention = "accept",
   review |-> meets_threshold(risk, 3) \/ answers.intervention = "human_review",
   next |-> answers.intervention]
=============================================================================
