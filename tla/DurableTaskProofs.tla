-------------------------- MODULE DurableTaskProofs --------------------------
(***************************************************************************)
(* Proofs about module DurableTask, for every registry, every task, any    *)
(* number of attempts and signals, and every answer of a decision engine.  *)
(***************************************************************************)
EXTENDS DurableTask, ExecutorRegistryProofs

(* What the assessment may raise and never lower (assess_task).            *)
Assessed(n) ==
  /\ n.risk >= classify_risk(text)
  /\ n.risk >= 3 => n.review
  /\ n.gate <=> n.risk >= GateAt

-----------------------------------------------------------------------------
(* Decisions.                                                              *)

LEMMA RiskType == ASSUME NEW t \in Texts PROVE classify_risk(t) \in RISK_LEVELS
BY DEF classify_risk, RISK_LEVELS

LEMMA TaskAnswerType == ASSUME NEW t \in Texts PROVE task_answers(t) \subseteq TaskAnswers
<1>1. \A high \in BOOLEAN :
        [risk |-> classify_risk(t),
         shape |-> IF high THEN "worker_plus_review" ELSE "single_worker",
         independent |-> IF high THEN 95 ELSE 15] \in TaskAnswers
  BY RiskType DEF TaskAnswers, Shapes, Percents
<1>2. meets_threshold(classify_risk(t), 3) \in BOOLEAN
  BY DEF meets_threshold
<1> QED
  BY <1>1, <1>2 DEF heuristic_task, task_answers

LEMMA ResultAnswerType ==
  ASSUME NEW exit0 \in BOOLEAN, NEW complete \in BOOLEAN
  PROVE  result_answers(exit0, complete) \subseteq ResultAnswers
BY DEF result_answers, heuristic_result, ResultAnswers, Percents, Interventions

(* The words of a task are a floor of its risk, R3 and above are reviewed, *)
(* and the gate is asked for from GateAt on, whatever the engine answers.  *)
LEMMA AssessTask ==
  ASSUME NEW t \in Tasks, NEW n \in Assessments[t]
  PROVE  /\ n \in Needs
         /\ n.risk >= classify_risk(t)
         /\ n.risk >= 3 => n.review
         /\ n.gate <=> n.risk >= GateAt
<1>1. t \in Texts /\ GateAt \in RISK_LEVELS
  BY DurableTaskAssumption
<1>2. PICK a \in TaskAnswers : n = assess_task(t, a, GateAt)
  BY <1>1, TaskAnswerType DEF Assessments
<1> DEFINE final == higher_risk(classify_risk(t), a.risk)
           reviewed == \/ meets_threshold(final, 3)
                       \/ a.independent >= threshold_for(final)
                       \/ a.shape = "worker_plus_review"
<1>3. final \in RISK_LEVELS /\ final >= classify_risk(t)
  BY <1>1, RiskType DEF higher_risk, RISK_LEVELS, TaskAnswers
<1>4. a.shape \in Shapes
  BY DEF TaskAnswers
<1>5. n = [risk |-> final, review |-> reviewed, gate |-> meets_threshold(final, GateAt),
           shape |-> IF reviewed /\ a.shape = "single_worker"
                     THEN "worker_plus_review" ELSE a.shape]
  BY <1>2 DEF assess_task
<1>6. reviewed \in BOOLEAN /\ meets_threshold(final, GateAt) \in BOOLEAN
  BY DEF meets_threshold
<1> HIDE DEF final
<1>7. n.review = reviewed /\ n.risk = final /\ n.gate = meets_threshold(final, GateAt)
  BY <1>5
<1>8. n \in Needs
  <2> HIDE DEF reviewed
  <2> QED
    BY <1>3, <1>4, <1>5, <1>6 DEF Needs, Shapes
<1> QED
  BY <1>3, <1>7, <1>8 DEF meets_threshold

LEMMA AssessResultType ==
  ASSUME NEW r \in RISK_LEVELS, NEW exit0 \in BOOLEAN, NEW complete \in BOOLEAN,
         NEW j \in Judgements[r][exit0][complete]
  PROVE  j.ready \in BOOLEAN /\ j.review \in BOOLEAN /\ j.next \in Interventions
<1>1. PICK a \in result_answers(exit0, complete) : j = assess_result(r, exit0, complete, a)
  BY DEF Judgements
<1>2. a \in ResultAnswers
  BY <1>1, ResultAnswerType
<1> QED
  BY <1>1, <1>2 DEF assess_result, ResultAnswers, meets_threshold
-----------------------------------------------------------------------------
(* The invariant.                                                          *)

(* What each phase has done so far.                                        *)
Protocol ==
  /\ phase = "assessing" => need = None
  /\ phase \notin Closed \cup {"assessing"} => need # None
  /\ need = None => launched = {} /\ best = None
  /\ phase \in {"routing", "executing"} => round >= 1 /\ best = None
  /\ asking = "gate" => best = None /\ launched = {}
  /\ asking \in {"result", "intervention"} => best # None /\ (best.ready <=> asking = "result")
  /\ phase # "executing" => Active = {}
  /\ \A p \in Providers : child[p].stage = "done" => child[p].next \in Interventions

(* The assessment is faithful to the task, and its gate was opened before  *)
(* anything was routed.                                                    *)
Gated ==
  need # None =>
    /\ Assessed(need)
    /\ phase \in {"routing", "executing"} \/ best # None \/ launched # {} =>
         (need.gate => "gate" \in granted)

(* An execution is of this round or of an earlier one.                     *)
ThisFar ==
  /\ \A e \in launched : e[1] <= round
  /\ phase = "routing" => \A e \in launched : e[1] < round
  /\ \A p \in Providers :
       child[p].stage = "starting" => <<round, p>> \notin launched /\ p \notin excluded

(* With a checkout to write there is one child, and a process that runs is *)
(* its own or was lost with its worker: then the child asks for a person.  *)
OneWriter ==
  Mutating =>
    /\ \A p, q \in Active : p = q
    /\ \A e, f \in alive : e = f
    /\ alive # {} => phase # "routing"
    /\ phase = "executing" =>
         \A e \in alive :
           /\ e[1] = round
           /\ \/ child[e[2]].stage = "executing"
              \/ child[e[2]].stage = "done" /\ child[e[2]].next = "human_review"
                   /\ ~child[e[2]].ready

Inv == /\ TypeOK /\ Protocol /\ Gated /\ ThisFar /\ OneWriter
       /\ HighRiskApproved /\ DecisionIsCurrent

-----------------------------------------------------------------------------
(* Routing.                                                                *)

LEMMA RequirementsType ==
  ASSUME TypeOK
  PROVE  Requirements.preferred \in Seq(Providers \cup {Preferred[i] : i \in DOMAIN Preferred})
<1>1. Preferred \in Seq(Providers \cup {Preferred[i] : i \in DOMAIN Preferred})
  BY DurableTaskAssumption
<1>2. preferred \in Seq(Providers \cup {Preferred[i] : i \in DOMAIN Preferred})
  <2> DEFINE S == Providers \cup {Preferred[i] : i \in DOMAIN Preferred}
  <2>1. \A p \in S : <<p>> \in Seq(S)
    <3> HIDE DEF S
    <3> QED
      OBVIOUS
  <2>2. << >> \in Seq(S)
    OBVIOUS
  <2>3. Providers \subseteq S
    OBVIOUS
  <2> HIDE DEF S
  <2> QED
    BY <1>1, <2>1, <2>2, <2>3 DEF TypeOK, S
<1> QED
  BY <1>1, <1>2 DEF Requirements

(* What is selected for a provider is one of its chosen executors.         *)
LEMMA SelectedIs ==
  ASSUME TypeOK, NEW chosen \in SUBSET DOMAIN Registry, NEW p \in Providers,
         \E i \in chosen : Registry[i].provider = p
  PROVE  \E i \in chosen : Registry[i].provider = p /\ Selected(chosen, p) = Registry[i].id
<1> DEFINE at == {i \in chosen : Registry[i].provider = p}
           First(i) == \A j \in at \ {i} : Precedes(Registry, Requirements, i, j)
<1>1. at \in SUBSET DOMAIN Registry /\ at # {} /\ at \subseteq chosen
  OBVIOUS
<1>2. \A i \in at : Registry[i].provider = p
  OBVIOUS
<1>3. Registry \in Seq({Registry[i] : i \in DOMAIN Registry})
  BY DurableTaskAssumption
<1>4. \E i \in at : First(i)
  <2> HIDE DEF at
  <2> QED
    BY <1>1, <1>3, FirstOfSome, RequirementsType
<1>5. (CHOOSE i \in at : First(i)) \in at
  <2> HIDE DEF at, First
  <2> QED
    BY <1>4
<1>6. Selected(chosen, p) = Registry[CHOOSE i \in at : First(i)].id
  BY DEF Selected
<1> HIDE DEF at, First
<1> QED
  BY <1>1, <1>2, <1>5, <1>6

(* A route starts children of providers that are not excluded, and one     *)
(* child only if they write.                                               *)
LEMMA StartType ==
  ASSUME TypeOK, NEW available \in SUBSET DOMAIN Registry, NEW chosen,
         chosen = select(Registry, Requirements, available, RouteCount),
         Start(chosen)
  PROVE  /\ child' \in [Providers -> Children]
         /\ \A p \in Providers :
              child'[p].stage \in {"none", "starting"}
              /\ (child'[p].stage = "starting" => p \notin excluded)
         /\ Mutating => \A p, q \in Providers :
              child'[p].stage = "starting" /\ child'[q].stage = "starting" => p = q
<1>1. Registry \in Seq({Registry[i] : i \in DOMAIN Registry})
  BY DurableTaskAssumption
<1>2. chosen \in SUBSET DOMAIN Registry
  BY DEF select, Candidates
<1>3. ASSUME NEW p \in Providers, \E i \in chosen : Registry[i].provider = p
      PROVE  Selected(chosen, p) \in {Registry[i].id : i \in DOMAIN Registry}
  BY <1>2, <1>3, SelectedIs
<1>4. \A p \in Providers :
        child'[p] = IF \E i \in chosen : Registry[i].provider = p
                    THEN [Idle EXCEPT !.stage = "starting", !.executor = Selected(chosen, p)]
                    ELSE Idle
  BY DEF Start
<1>5. \A x \in {Registry[i].id : i \in DOMAIN Registry} :
        /\ [Idle EXCEPT !.stage = "starting", !.executor = x] \in Children
        /\ [Idle EXCEPT !.stage = "starting", !.executor = x].stage = "starting"
  BY DEF Idle, Children
<1>6. \A p \in Providers :
        /\ child'[p] \in Children
        /\ child'[p].stage \in {"none", "starting"}
        /\ child'[p].stage = "starting" => \E i \in chosen : Registry[i].provider = p
  <2>1. TAKE p \in Providers
  <2>2. CASE \E i \in chosen : Registry[i].provider = p
    <3>1. child'[p] = [Idle EXCEPT !.stage = "starting", !.executor = Selected(chosen, p)]
      BY <1>4, <2>2, Zenon
    <3>2. Selected(chosen, p) \in {Registry[i].id : i \in DOMAIN Registry}
      BY <1>3, <2>2, Zenon
    <3> DEFINE x == Selected(chosen, p)
    <3> HIDE DEF x
    <3>3. /\ [Idle EXCEPT !.stage = "starting", !.executor = x] \in Children
          /\ [Idle EXCEPT !.stage = "starting", !.executor = x].stage = "starting"
      BY <1>5, <3>2, Zenon DEF x
    <3> QED
      BY <2>2, <3>1, <3>3, Zenon DEF x
  <2>3. CASE ~ \E i \in chosen : Registry[i].provider = p
    <3>1. child'[p] = Idle
      BY <1>4, <2>3, Zenon
    <3>2. Idle \in Children /\ Idle.stage = "none"
      BY DEF Idle, Children
    <3> QED
      BY <3>1, <3>2
  <2> QED
    BY <2>2, <2>3
<1>7. child' \in [Providers -> Children]
  BY <1>6 DEF Start
<1>9. \A i \in chosen : Registry[i].provider \notin excluded
  <2>1. \A i \in chosen : Satisfies(Registry[i], Requirements)
    BY SelectCandidates
  <2> QED
    BY <2>1 DEF Satisfies, Requirements
<1>10. Mutating => \A i, j \in chosen : i = j
  <2>1. SUFFICES ASSUME Mutating PROVE \A i, j \in chosen : i = j
    OBVIOUS
  <2>2. RouteCount = 1
    BY <2>1 DEF RouteCount
  <2>3. IsFiniteSet(chosen) /\ Cardinality(chosen) <= 1
    BY <1>1, <2>2, SelectAtMost, RequirementsType
  <2>4. Cardinality(chosen) \in {0, 1}
    BY <2>3, FS_CardinalityType
  <2> QED
    BY <2>3, <2>4, FS_EmptySet, FS_Singleton
<1> QED
  BY <1>6, <1>7, <1>9, <1>10
-----------------------------------------------------------------------------
(* The steps.                                                              *)

LEMMA Names ==
  /\ None \notin Needs /\ None \notin Choices /\ None \notin Closed
  /\ None \notin {"gate", "result", "intervention"}
  /\ MaxAttempts \in Nat \ {0} /\ GateAt \in RISK_LEVELS
BY DurableTaskAssumption, NoneAssumption DEF TaskRunInput

LEMMA InitInv == Init => Inv
<1> SUFFICES ASSUME Init PROVE Inv
  OBVIOUS
<1>1. Idle \in Children /\ Idle.stage = "none"
  BY DEF Idle, Children
<1>2. TypeOK
  BY <1>1, Names DEF Init, TypeOK, Closed
<1>3. \A p \in Providers : child[p] = Idle
  BY DEF Init
<1>4. Active = {} /\ \A p \in Providers : child[p].stage = "none"
  BY <1>1, <1>3 DEF Active
<1>5. Protocol /\ Gated /\ HighRiskApproved /\ DecisionIsCurrent
  BY <1>4, Names DEF Init, Protocol, Gated, HighRiskApproved, DecisionIsCurrent, Closed
<1>6. ThisFar /\ OneWriter
  BY <1>4 DEF Init, ThisFar, OneWriter
<1> QED
  BY <1>2, <1>5, <1>6 DEF Inv

LEMMA AssessInv == ASSUME Inv, Assess PROVE Inv'
<1> USE DEF Inv
<1>1. /\ phase = "assessing" /\ need = None /\ launched = {} /\ best = None /\ alive = {}
      /\ Active = {} /\ asking = None
      /\ UNCHANGED <<text, excluded, preferred, best, child, sent, signals, alive, launched, granted>>
  BY DEF Assess, Protocol, TypeOK, outside
<1>2. Active' = {} /\ \A p \in Providers : child'[p].stage = "none"
  BY <1>1 DEF Active
<1>3. CASE need' \in Assessments[text] /\ Pauses(need') /\ WaitForReview("gate") /\ UNCHANGED round
  <2>1. /\ need' \in Needs /\ need' # None
        /\ need'.risk >= classify_risk(text) /\ (need'.risk >= 3 => need'.review)
        /\ need'.gate <=> need'.risk >= GateAt
    BY <1>3, AssessTask, Names DEF TypeOK
  <2>2. phase' = "waiting_for_human_review" /\ asking' = "gate" /\ decision' = None /\ round' = round
    BY <1>3 DEF WaitForReview
  <2>3. TypeOK'
    BY <1>1, <2>1, <2>2, Names DEF TypeOK
  <2>4. Protocol' /\ Gated'
    BY <1>1, <1>2, <2>1, <2>2 DEF Protocol, Gated, Assessed, Closed
  <2>5. ThisFar' /\ OneWriter' /\ HighRiskApproved' /\ DecisionIsCurrent'
    BY <1>1, <1>2, <2>2 DEF ThisFar, OneWriter, HighRiskApproved, DecisionIsCurrent
  <2> QED
    BY <2>3, <2>4, <2>5
<1>4. CASE need' \in Assessments[text] /\ ~Pauses(need') /\ StartRound(1) /\ UNCHANGED decision
  <2>1. /\ need' \in Needs /\ need' # None /\ ~need'.gate
        /\ need'.risk >= classify_risk(text) /\ (need'.risk >= 3 => need'.review)
        /\ need'.gate <=> need'.risk >= GateAt
    BY <1>4, AssessTask, Names DEF TypeOK, Pauses
  <2>2. phase' = "routing" /\ asking' = None /\ round' = 1
    BY <1>4 DEF StartRound
  <2>3. TypeOK'
    BY <1>1, <2>1, <2>2, Names DEF TypeOK
  <2>4. Protocol' /\ Gated'
    BY <1>1, <1>2, <2>1, <2>2, Names DEF Protocol, Gated, Assessed, Closed
  <2>5. ThisFar' /\ OneWriter' /\ HighRiskApproved' /\ DecisionIsCurrent'
    BY <1>1, <1>2, <2>2 DEF ThisFar, OneWriter, HighRiskApproved, DecisionIsCurrent
  <2> QED
    BY <2>3, <2>4, <2>5
<1>5. CASE Close("error") /\ UNCHANGED <<need, decision, round>>
  <2>1. phase' = "error" /\ asking' = None /\ UNCHANGED <<need, round>>
    BY <1>5 DEF Close
  <2>2. TypeOK'
    BY <1>1, <2>1, Names DEF TypeOK, Closed
  <2>3. Protocol' /\ Gated'
    BY <1>1, <1>2, <2>1, Names DEF Protocol, Gated, Closed
  <2>4. ThisFar' /\ OneWriter' /\ HighRiskApproved' /\ DecisionIsCurrent'
    BY <1>1, <1>2, <2>1 DEF ThisFar, OneWriter, HighRiskApproved, DecisionIsCurrent
  <2> QED
    BY <2>2, <2>3, <2>4
<1> QED
  BY <1>3, <1>4, <1>5 DEF Assess

LEMMA RouteInv == ASSUME Inv, Route PROVE Inv'
<1> USE DEF Inv
<1>1. /\ phase = "routing" /\ need # None /\ best = None /\ asking = None /\ Active = {} /\ round >= 1
      /\ UNCHANGED <<text, need, round, excluded, preferred, best, decision, sent, signals,
                     alive, launched, granted>>
  BY DEF Route, Protocol, TypeOK, outside, review, Closed
<1>2. Mutating => alive = {}
  BY <1>1 DEF OneWriter
<1>3. CASE (Close("failed") \/ Close("error")) /\ UNCHANGED child
  <2>1. phase' \in {"failed", "error"} /\ asking' = None /\ UNCHANGED child
    BY <1>3 DEF Close
  <2>2. TypeOK'
    BY <1>1, <2>1 DEF TypeOK, Closed
  <2>3. Protocol' /\ Gated'
    BY <1>1, <2>1, Names DEF Protocol, Gated, Assessed, Closed, Active
  <2>4. ThisFar' /\ OneWriter' /\ HighRiskApproved' /\ DecisionIsCurrent'
    BY <1>1, <2>1 DEF ThisFar, OneWriter, HighRiskApproved, DecisionIsCurrent, Mutating, Active
  <2> QED
    BY <2>2, <2>3, <2>4
<1>4. ASSUME NEW available \in SUBSET DOMAIN Registry, NEW chosen,
             chosen = select(Registry, Requirements, available, RouteCount),
             Start(chosen), UNCHANGED asking
      PROVE  Inv'
  <2>1. /\ phase' = "executing" /\ asking' = None
        /\ child' \in [Providers -> Children]
        /\ \A p \in Providers :
             child'[p].stage \in {"none", "starting"}
             /\ (child'[p].stage = "starting" => p \notin excluded)
        /\ Mutating => \A p, q \in Providers :
             child'[p].stage = "starting" /\ child'[q].stage = "starting" => p = q
    BY <1>1, <1>4, StartType DEF Start
  <2>2. TypeOK'
    BY <1>1, <2>1 DEF TypeOK
  <2>3. Protocol' /\ Gated'
    BY <1>1, <2>1, Names DEF Protocol, Gated, Assessed, Closed
  <2>4. ThisFar'
    <3>1. \A e \in launched : e[1] < round /\ e[1] \in Int /\ round \in Int
      BY <1>1 DEF ThisFar, TypeOK
    <3>2. \A p \in Providers : <<round, p>> \notin launched
      BY <3>1
    <3> QED
      BY <1>1, <2>1, <3>2 DEF ThisFar
  <2>5. OneWriter'
    BY <1>1, <1>2, <2>1 DEF OneWriter, Mutating, Active
  <2>6. HighRiskApproved' /\ DecisionIsCurrent'
    BY <1>1, <2>1 DEF HighRiskApproved, DecisionIsCurrent
  <2> QED
    BY <2>2, <2>3, <2>4, <2>5, <2>6
<1> QED
  BY <1>3, <1>4 DEF Route

(* What a step of a child leaves to be shown: that there is one writer.    *)
LEMMA ChildBecomes ==
  ASSUME Inv, NEW p \in Providers, NEW c \in Children,
         phase = "executing", child[p].stage # "none", Becomes(p, c),
         c.stage \notin {"none", "starting"}, c.stage = "done" => c.next \in Interventions,
         UNCHANGED <<workflow, review, granted>>,
         launched' = launched \/ launched' = launched \cup {<<round, p>>},
         alive' \subseteq launched'
  PROVE  /\ TypeOK' /\ Protocol' /\ Gated' /\ ThisFar' /\ HighRiskApproved' /\ DecisionIsCurrent'
         /\ Active' = Active
<1> USE DEF Inv
<1>1. /\ UNCHANGED <<text, phase, asking, need, round, excluded, preferred, best,
                     decision, sent, signals, granted>>
      /\ need # None /\ round \in 1 .. MaxAttempts /\ best = None /\ asking = None
  BY Names DEF workflow, review, TypeOK, Protocol, Closed
<1>2. /\ child' \in [Providers -> Children] /\ child'[p] = c
      /\ \A q \in Providers \ {p} : child'[q] = child[q]
  BY DEF Becomes, TypeOK
<1>3. launched' \subseteq (1 .. MaxAttempts) \X Providers
  BY <1>1 DEF TypeOK
<1>4. TypeOK'
  BY <1>1, <1>2, <1>3 DEF TypeOK
<1>5. Active' = Active
  BY <1>2 DEF Active
<1>6. Protocol'
  BY <1>1, <1>2, <1>5, Names DEF Protocol
<1>7. Gated' /\ HighRiskApproved' /\ DecisionIsCurrent'
  BY <1>1 DEF Gated, Assessed, HighRiskApproved, DecisionIsCurrent
<1>8. ThisFar'
  <2>1. \A e \in launched' : e[1] <= round
    BY <1>1 DEF ThisFar
  <2>2. \A q \in Providers : child'[q].stage = "starting" => q # p /\ child[q].stage = "starting"
    BY <1>2
  <2>3. \A q \in Providers : q # p /\ <<round, q>> \notin launched => <<round, q>> \notin launched'
    OBVIOUS
  <2> QED
    BY <1>1, <2>1, <2>2, <2>3 DEF ThisFar
<1> QED
  BY <1>4, <1>5, <1>6, <1>7, <1>8

LEMMA FailedType ==
  /\ FailedAttempt \in Children /\ FailedAttempt.stage = "done"
  /\ FailedAttempt.next = "human_review" /\ ~FailedAttempt.ready
BY DEF FailedAttempt, Idle, Children, Interventions

LEMMA ChildInv ==
  ASSUME Inv, NEW p \in Providers, ChildStep(p)
  PROVE  Inv'
<1> USE DEF Inv
<1>1. phase = "executing" /\ UNCHANGED <<workflow, review, granted>> /\ UNCHANGED <<round, phase>>
  BY DEF ChildStep, workflow
<1>2. /\ child \in [Providers -> Children] /\ child[p] \in Children /\ alive \subseteq launched
      /\ \A e \in alive : e = <<e[1], e[2]>> /\ e[2] \in Providers
  BY DEF TypeOK
<1>3. ASSUME NEW c \in Children, Becomes(p, c) PROVE child'[p] = c /\ \A q \in Providers \ {p} : child'[q] = child[q]
  BY <1>2, <1>3 DEF Becomes
<1>4. CASE ExecutionRefused(p)
  <2>1. /\ child[p].stage = "starting" /\ Becomes(p, FailedAttempt)
        /\ alive' = alive /\ launched' = launched
    BY <1>4 DEF ExecutionRefused, outside
  <2>2. /\ TypeOK' /\ Protocol' /\ Gated' /\ ThisFar' /\ HighRiskApproved' /\ DecisionIsCurrent'
        /\ Active' = Active
    BY <1>1, <1>2, <2>1, FailedType, ChildBecomes DEF Interventions
  <2>3. OneWriter'
    BY <1>1, <1>2, <1>3, <2>1, <2>2, FailedType DEF OneWriter, Mutating
  <2> QED
    BY <2>2, <2>3
<1>5. CASE ExecutionStarts(p)
  <2> DEFINE c == [child[p] EXCEPT !.stage = "executing"]
  <2>1. /\ child[p].stage = "starting" /\ Becomes(p, c)
        /\ alive' = alive \cup {<<round, p>>} /\ launched' = launched \cup {<<round, p>>}
    BY <1>5 DEF ExecutionStarts
  <2>2. c \in Children /\ c.stage = "executing"
    BY <1>2 DEF Children
  <2> HIDE DEF c
  <2>3. /\ TypeOK' /\ Protocol' /\ Gated' /\ ThisFar' /\ HighRiskApproved' /\ DecisionIsCurrent'
        /\ Active' = Active
    BY <1>1, <1>2, <2>1, <2>2, ChildBecomes
  <2>4. Mutating => alive = {}
    <3>1. p \in Active
      BY <2>1 DEF Active
    <3>2. SUFFICES ASSUME Mutating, NEW e \in alive PROVE FALSE
      OBVIOUS
    <3>3. e[2] \in Active
      BY <1>1, <1>2, <3>2 DEF OneWriter, Active
    <3> QED
      BY <1>1, <2>1, <3>1, <3>2, <3>3 DEF OneWriter
  <2>5. OneWriter'
    BY <1>1, <1>3, <2>1, <2>2, <2>3, <2>4 DEF OneWriter, Mutating
  <2> QED
    BY <2>3, <2>5
<1>6. CASE ExecutionEnds(p)
  <2>1. /\ child[p].stage = "executing" /\ alive' = alive \ {<<round, p>>} /\ launched' = launched
    BY <1>6 DEF ExecutionEnds
  <2>2. PICK c \in Children : /\ Becomes(p, c) /\ c.stage \in {"verifying", "done"}
                              /\ c.stage = "done" => c = FailedAttempt
    <3>1. \A rc0 \in BOOLEAN :
            /\ [child[p] EXCEPT !.stage = "verifying", !.exit0 = rc0] \in Children
            /\ [child[p] EXCEPT !.stage = "verifying", !.exit0 = rc0].stage = "verifying"
      BY <1>2 DEF Children
    <3> QED
      BY <1>6, <3>1, FailedType DEF ExecutionEnds
  <2>3. /\ TypeOK' /\ Protocol' /\ Gated' /\ ThisFar' /\ HighRiskApproved' /\ DecisionIsCurrent'
        /\ Active' = Active
    BY <1>1, <1>2, <2>1, <2>2, FailedType, ChildBecomes DEF Interventions
  <2>4. Mutating => alive' = {}
    <3>1. p \in Active
      BY <2>1 DEF Active
    <3>2. SUFFICES ASSUME Mutating, NEW e \in alive PROVE e = <<round, p>>
      BY <2>1
    <3>3. e[2] \in Active /\ e[1] = round
      BY <1>1, <1>2, <3>2 DEF OneWriter, Active
    <3> QED
      BY <1>2, <3>1, <3>2, <3>3 DEF OneWriter
  <2>5. OneWriter'
    BY <1>1, <2>3, <2>4 DEF OneWriter, Mutating
  <2> QED
    BY <2>3, <2>5
<1>7. CASE ExecutionLost(p)
  <2>1. /\ child[p].stage \in {"starting", "executing"} /\ Becomes(p, FailedAttempt)
        /\ alive' = alive /\ launched' = launched
    BY <1>7 DEF ExecutionLost, outside
  <2>2. /\ TypeOK' /\ Protocol' /\ Gated' /\ ThisFar' /\ HighRiskApproved' /\ DecisionIsCurrent'
        /\ Active' = Active
    BY <1>1, <1>2, <2>1, FailedType, ChildBecomes DEF Interventions
  <2>3. OneWriter'
    BY <1>1, <1>2, <1>3, <2>1, <2>2, FailedType DEF OneWriter, Mutating
  <2> QED
    BY <2>2, <2>3
<1>8. CASE Verify(p) \/ AssessResult(p)
  <2>1. /\ child[p].stage \in {"verifying", "judging"} /\ alive' = alive /\ launched' = launched
    BY <1>8 DEF Verify, AssessResult, outside
  <2>2. PICK c \in Children : /\ Becomes(p, c) /\ c.stage \in {"judging", "done"}
                              /\ c.stage = "done" => c.next \in Interventions
    <3>1. CASE Verify(p)
      <4>1. \A complete \in BOOLEAN :
              /\ [child[p] EXCEPT !.stage = "judging", !.complete = complete] \in Children
              /\ [child[p] EXCEPT !.stage = "judging", !.complete = complete].stage = "judging"
        BY <1>2 DEF Children
      <4> QED
        BY <3>1, <4>1, FailedType DEF Verify, Interventions
    <3>2. CASE AssessResult(p)
      <4>1. CASE Becomes(p, FailedAttempt)
        BY <4>1, FailedType DEF Interventions
      <4>2. CASE \E j \in Judgements[need.risk][child[p].exit0][child[p].complete] :
                   Becomes(p, [child[p] EXCEPT !.stage = "done", !.ready = j.ready,
                                 !.review = j.review, !.next = j.next])
        <5>1. PICK j \in Judgements[need.risk][child[p].exit0][child[p].complete] :
                Becomes(p, [child[p] EXCEPT !.stage = "done", !.ready = j.ready,
                              !.review = j.review, !.next = j.next])
          BY <4>2
        <5>2. need.risk \in RISK_LEVELS /\ child[p].exit0 \in BOOLEAN /\ child[p].complete \in BOOLEAN
          BY <1>1, <1>2, Names DEF TypeOK, Protocol, Closed, Needs, Children
        <5>3. j.ready \in BOOLEAN /\ j.review \in BOOLEAN /\ j.next \in Interventions
          BY <5>2, AssessResultType
        <5> DEFINE c == [child[p] EXCEPT !.stage = "done", !.ready = j.ready,
                           !.review = j.review, !.next = j.next]
        <5>4. c \in Children /\ c.stage = "done" /\ c.next = j.next
          BY <1>2, <5>3 DEF Children
        <5> HIDE DEF c
        <5> QED
          BY <5>1, <5>3, <5>4 DEF c
      <4> QED
        BY <3>2, <4>1, <4>2 DEF AssessResult
    <3> QED
      BY <1>8, <3>1, <3>2
  <2>3. /\ TypeOK' /\ Protocol' /\ Gated' /\ ThisFar' /\ HighRiskApproved' /\ DecisionIsCurrent'
        /\ Active' = Active
    BY <1>1, <1>2, <2>1, <2>2, ChildBecomes
  <2>4. OneWriter'
    BY <1>1, <1>2, <1>3, <2>1, <2>2, <2>3 DEF OneWriter, Mutating
  <2> QED
    BY <2>3, <2>4
<1> QED
  BY <1>4, <1>5, <1>6, <1>7, <1>8 DEF ChildStep

(* What Decide may do with the best attempt.                               *)
LEMMA ActCases ==
  ASSUME Inv, phase = "executing", NEW p \in Active, child[p].stage = "done",
         Act(Chosen(p)), best' = IF phase' = "routing" THEN None ELSE Chosen(p)
  PROVE  /\ Chosen(p) \in Choices /\ Chosen(p).provider = p
         /\ decision' \in {decision, None}
         /\ \/ /\ phase' = "complete" /\ asking' = None /\ best' = Chosen(p)
               /\ Chosen(p).ready /\ ~Review(Chosen(p))
               /\ UNCHANGED <<round, excluded, preferred>>
            \/ /\ phase' = "waiting_for_human_review" /\ decision' = None /\ best' = Chosen(p)
               /\ asking' = IF Chosen(p).ready THEN "result" ELSE "intervention"
               /\ UNCHANGED <<round, excluded, preferred>>
            \/ /\ phase' \in {"review_required", "failed"} /\ asking' = None /\ best' = Chosen(p)
               /\ round' = round /\ excluded' \subseteq Providers
               /\ preferred' \in {preferred, << >>, <<p>>}
            \/ /\ phase' = "routing" /\ asking' = None /\ best' = None /\ decision' = decision
               /\ round' = round + 1 /\ round < MaxAttempts
               /\ excluded' \subseteq Providers /\ preferred' \in {<< >>, <<p>>}
               /\ ~Chosen(p).ready /\ Chosen(p).next # "human_review"
<1> DEFINE b == Chosen(p)
<1>1. p \in Providers /\ child[p] \in Children /\ child[p].next \in Interventions
      /\ excluded \subseteq Providers
  BY DEF Active, Inv, TypeOK, Protocol
<1>2. /\ b \in Choices /\ b.provider = p
      /\ b.ready <=> child[p].ready /\ child[p].complete /\ child[p].exit0
      /\ b.next = child[p].next
  BY <1>1 DEF Chosen, Choices, Children
<1> HIDE DEF b
<1>3. completion_gate(b.ready, Review(b)) = "complete" <=> b.ready /\ ~Review(b)
  BY DEF completion_gate
<1>4. CASE completion_gate(b.ready, Review(b)) = "complete" /\ Close("complete")
           /\ UNCHANGED <<round, excluded, preferred, decision>>
  BY <1>2, <1>3, <1>4 DEF Close, b
<1>5. ASSUME NEW what \in {"result", "intervention"}, AskFor(what), b.ready <=> what = "result"
      PROVE  /\ decision' \in {decision, None}
             /\ \/ /\ phase' = "waiting_for_human_review" /\ decision' = None /\ best' = b
                   /\ asking' = IF b.ready THEN "result" ELSE "intervention"
                   /\ UNCHANGED <<round, excluded, preferred>>
                \/ /\ phase' = "review_required" /\ asking' = None /\ best' = b
                   /\ UNCHANGED <<round, excluded, preferred>>
  BY <1>5 DEF AskFor, WaitForReview, Close, b
<1>6. CASE ~b.ready /\ TryAgain(b)
  <2>1. excluded' \subseteq Providers /\ preferred' \in {<< >>, <<p>>} /\ decision' = decision
        /\ b.next # "human_review" /\ NextRound
    BY <1>1, <1>2, <1>6 DEF TryAgain
  <2> QED
    BY <1>2, <1>6, <2>1 DEF NextRound, StartRound, Close, b
<1>7. CASE ~b.ready /\ Close("review_required") /\ UNCHANGED <<round, excluded, preferred, decision>>
  BY <1>1, <1>2, <1>7 DEF Close, b
<1>8. CASE b.ready /\ AskFor("result")
  BY <1>1, <1>2, <1>5, <1>8 DEF b
<1>9. CASE ~b.ready /\ AskFor("intervention")
  BY <1>1, <1>2, <1>5, <1>9 DEF b
<1> QED
  BY <1>4, <1>6, <1>7, <1>8, <1>9 DEF Act, b

LEMMA DecideInv == ASSUME Inv, Decide PROVE Inv'
<1> USE DEF Inv
<1>1. /\ phase = "executing" /\ need # None /\ need \in Needs /\ round \in 1 .. MaxAttempts
      /\ asking = None /\ (need.gate => "gate" \in granted) /\ Assessed(need)
      /\ \A q \in Active : child[q].stage = "done"
      /\ child' = [q \in Providers |-> Idle]
      /\ UNCHANGED <<text, need, sent, signals, alive, launched, granted>>
  BY Names DEF Decide, Protocol, Gated, TypeOK, Closed, outside
<1>2. Active' = {} /\ (\A q \in Providers : child'[q].stage = "none") /\ child' \in [Providers -> Children]
  <2>1. Idle \in Children /\ Idle.stage = "none"
    BY DEF Idle, Children
  <2>2. \A q \in Providers : child'[q] = Idle
    BY <1>1
  <2> QED
    BY <1>1, <2>1, <2>2 DEF Active
<1>3. PICK p \in Active : Act(Chosen(p)) /\ best' = IF phase' = "routing" THEN None ELSE Chosen(p)
  BY DEF Decide
<1> DEFINE b == Chosen(p)
<1>4. /\ b \in Choices /\ b # None /\ b.provider = p /\ p \in Providers
      /\ b.ready \in BOOLEAN /\ b.next = child[p].next
      /\ b.ready => child[p].ready
  <2>1. b \in Choices /\ b.provider = p
    BY <1>1, <1>3, ActCases
  <2> QED
    BY <2>1, Names DEF Chosen, Choices, Active
<1>5. /\ decision' \in {decision, None}
      /\ \/ /\ phase' = "complete" /\ asking' = None /\ best' = b
            /\ b.ready /\ ~Review(b)
            /\ UNCHANGED <<round, excluded, preferred>>
         \/ /\ phase' = "waiting_for_human_review" /\ decision' = None /\ best' = b
            /\ asking' = IF b.ready THEN "result" ELSE "intervention"
            /\ UNCHANGED <<round, excluded, preferred>>
         \/ /\ phase' \in {"review_required", "failed"} /\ asking' = None /\ best' = b
            /\ round' = round /\ excluded' \subseteq Providers
            /\ preferred' \in {preferred, << >>, <<p>>}
         \/ /\ phase' = "routing" /\ asking' = None /\ best' = None /\ decision' = decision
            /\ round' = round + 1 /\ round < MaxAttempts
            /\ excluded' \subseteq Providers /\ preferred' \in {<< >>, <<p>>}
            /\ ~b.ready /\ b.next # "human_review"
  BY <1>1, <1>3, ActCases
<1> HIDE DEF b
<1>6. TypeOK'
  <2>1. /\ phase' \in Closed \cup {"waiting_for_human_review", "routing"}
        /\ asking' \in {"result", "intervention", None}
        /\ asking' # None <=> phase' = "waiting_for_human_review"
        /\ best' \in {None, b}
        /\ round' \in 0 .. MaxAttempts
        /\ excluded' \subseteq Providers
        /\ preferred' \in {preferred, << >>, <<p>>}
    BY <1>1, <1>5, Names DEF Closed, TypeOK
  <2> QED
    BY <1>1, <1>2, <1>4, <2>1 DEF TypeOK
<1>7. Protocol'
  BY <1>1, <1>2, <1>4, <1>5, Names DEF Protocol, Closed
<1>8. Gated'
  BY <1>1 DEF Gated, Assessed
<1>9. ThisFar'
  <2>1. /\ round' >= round /\ round' \in Nat /\ round \in Nat
        /\ phase' = "routing" => round' > round
    BY <1>1, <1>5
  <2>2. \A e \in launched : e[1] \in Nat /\ e[1] <= round
    BY DEF ThisFar, TypeOK
  <2> QED
    BY <1>1, <1>2, <2>1, <2>2 DEF ThisFar
<1>10. OneWriter'
  <2>1. SUFFICES ASSUME Mutating, phase' = "routing", NEW e \in alive PROVE FALSE
    BY <1>1, <1>2, <1>5 DEF OneWriter, Mutating
  <2>2. e[2] \in Active /\ e[2] = p
    <3>1. e[2] \in Providers
      BY DEF TypeOK
    <3> QED
      BY <1>1, <1>3, <2>1, <3>1 DEF OneWriter, Active
  <2> QED
    BY <1>1, <1>4, <1>5, <2>1, <2>2 DEF OneWriter
<1>11. HighRiskApproved'
  <2>1. SUFFICES ASSUME phase' = "complete", classify_risk(text) >= 3 PROVE FALSE
    BY <1>1 DEF HighRiskApproved
  <2>2. ~need.review
    BY <1>5, <2>1 DEF Review
  <2>3. classify_risk(text) \in RISK_LEVELS /\ need.risk \in RISK_LEVELS
    BY <1>1, RiskType, DurableTaskAssumption DEF TypeOK, Needs
  <2> QED
    BY <1>1, <2>1, <2>2, <2>3 DEF Assessed, RISK_LEVELS
<1>12. DecisionIsCurrent'
  BY <1>5 DEF DecisionIsCurrent
<1> QED
  BY <1>6, <1>7, <1>8, <1>9, <1>10, <1>11, <1>12

LEMMA OrphanInv == ASSUME Inv, OrphanEnds PROVE Inv'
<1> USE DEF Inv
<1>1. /\ alive' \subseteq alive
      /\ UNCHANGED <<text, phase, asking, need, round, excluded, preferred, best, child,
                     decision, sent, signals, launched, granted>>
  BY DEF OrphanEnds, workflow, review
<1>2. Active' = Active
  BY <1>1 DEF Active
<1>3. TypeOK' /\ HighRiskApproved' /\ DecisionIsCurrent'
  BY <1>1 DEF TypeOK, HighRiskApproved, DecisionIsCurrent
<1>4. Protocol' /\ Gated' /\ ThisFar'
  BY <1>1, <1>2 DEF Protocol, Gated, Assessed, ThisFar
<1>5. OneWriter'
  BY <1>1, <1>2 DEF OneWriter, Mutating
<1> QED
  BY <1>3, <1>4, <1>5

LEMMA SignalInv == ASSUME Inv, SendReview \/ ReviewSignal PROVE Inv'
<1> USE DEF Inv
<1>1. /\ UNCHANGED <<text, phase, asking, need, round, excluded, preferred, best, child,
                     alive, launched, granted>>
      /\ decision' = decision \/ \E a : decision' = [approved |-> a, wait |-> asking]
  BY DEF SendReview, ReviewSignal, workflow, outside
<1>2. Active' = Active
  BY <1>1 DEF Active
<1>3. TypeOK' /\ HighRiskApproved'
  BY <1>1 DEF TypeOK, HighRiskApproved
<1>4. Protocol' /\ Gated' /\ ThisFar'
  BY <1>1, <1>2 DEF Protocol, Gated, Assessed, ThisFar
<1>5. OneWriter'
  BY <1>1, <1>2 DEF OneWriter, Mutating
<1>6. DecisionIsCurrent'
  BY <1>1 DEF DecisionIsCurrent
<1> QED
  BY <1>3, <1>4, <1>5, <1>6

LEMMA ResumeInv == ASSUME Inv, ResumeReview PROVE Inv'
<1> USE DEF Inv
<1>1. /\ phase = "waiting_for_human_review" /\ decision' = None /\ Active = {}
      /\ asking \in {"gate", "result", "intervention"} /\ need # None /\ need \in Needs
      /\ UNCHANGED <<text, need, excluded, preferred, best, child, sent, signals, alive, launched>>
  BY Names DEF ResumeReview, Protocol, TypeOK, Closed, outside
<1>2. Active' = Active /\ \A p \in Providers : child[p].stage = "none"
  BY <1>1 DEF Active
<1>3. granted \subseteq granted' /\ granted' \subseteq {"gate", "result"}
  BY DEF ResumeReview, TypeOK
<1>4. CASE asking = "gate" /\ granted' = granted \cup {"gate"} /\ StartRound(1)
  <2>1. phase' = "routing" /\ asking' = None /\ round' = 1 /\ best = None /\ launched = {} /\ alive = {}
    BY <1>4 DEF StartRound, Protocol, TypeOK
  <2>2. TypeOK'
    BY <1>1, <1>3, <2>1, Names DEF TypeOK
  <2>3. Protocol' /\ Gated'
    BY <1>1, <1>2, <1>4, <2>1, Names DEF Protocol, Gated, Assessed, Closed
  <2>4. ThisFar' /\ OneWriter' /\ HighRiskApproved' /\ DecisionIsCurrent'
    BY <1>1, <1>2, <2>1 DEF ThisFar, OneWriter, HighRiskApproved, DecisionIsCurrent
  <2> QED
    BY <2>2, <2>3, <2>4
<1>5. ASSUME phase' \in {"complete", "review_required", "rejected"}, asking' = None, round' = round,
             phase' = "complete" => "result" \in granted'
      PROVE  Inv'
  <2>1. TypeOK'
    BY <1>1, <1>3, <1>5, Names DEF TypeOK, Closed
  <2>2. Protocol'
    BY <1>1, <1>2, <1>5, Names DEF Protocol, Closed
  <2>3. Gated'
    BY <1>1, <1>3, <1>5 DEF Gated, Assessed
  <2>4. ThisFar' /\ HighRiskApproved' /\ DecisionIsCurrent'
    BY <1>1, <1>2, <1>5 DEF ThisFar, HighRiskApproved, DecisionIsCurrent
  <2>5. OneWriter'
    BY <1>1, <1>2, <1>5 DEF OneWriter, Mutating
  <2> QED
    BY <2>1, <2>2, <2>3, <2>4, <2>5
<1>6. CASE decision.approved
  <2>1. granted' = granted \cup ({asking} \cap {"gate", "result"})
    BY <1>6 DEF ResumeReview
  <2>2. CASE asking = "gate"
    BY <1>4, <1>6, <2>1, <2>2 DEF ResumeReview
  <2>3. CASE asking = "result"
    <3>1. phase' = "complete" /\ asking' = None /\ round' = round
      BY <1>6, <2>3 DEF ResumeReview, Close
    <3> QED
      BY <1>5, <2>1, <2>3, <3>1
  <2>4. CASE asking = "intervention"
    <3>1. ~best.ready
      BY <2>4 DEF Protocol
    <3>2. phase' = "review_required" /\ asking' = None /\ round' = round
      BY <1>6, <2>4, <3>1 DEF ResumeReview, Close
    <3> QED
      BY <1>5, <3>2
  <2> QED
    BY <1>1, <2>2, <2>3, <2>4
<1>7. CASE ~decision.approved
  <2>1. phase' = "rejected" /\ asking' = None /\ round' = round
    BY <1>7 DEF ResumeReview, Close
  <2> QED
    BY <1>5, <2>1
<1> QED
  BY <1>6, <1>7

LEMMA StutterInv == ASSUME Inv, UNCHANGED vars PROVE Inv'
<1>1. UNCHANGED <<text, phase, asking, need, round, excluded, preferred, best, child, decision, sent,
                  signals, alive, launched, granted>>
  BY DEF vars, workflow, review, outside
<1>2. Active' = Active
  BY <1>1 DEF Active
<1> QED
  BY <1>1, <1>2 DEF Inv, TypeOK, Protocol, Gated, Assessed, ThisFar, OneWriter, Mutating,
                    HighRiskApproved, DecisionIsCurrent

LEMMA NextInv == ASSUME Inv, [Next]_vars PROVE Inv'
BY AssessInv, RouteInv, ChildInv, DecideInv, OrphanInv, SignalInv, ResumeInv, StutterInv
   DEF Next, Progress

LEMMA SpecInv == Spec => []Inv
<1>1. Init => Inv
  BY InitInv
<1>2. Inv /\ [Next]_vars => Inv'
  BY NextInv
<1> QED
  BY <1>1, <1>2, PTL DEF Spec

-----------------------------------------------------------------------------
(* The theorems.                                                           *)

(* The variables of a durable task have their types: no more rounds than   *)
(* max_attempts, what runs was launched, and a task that waits says for    *)
(* what (DurableTaskWorkflow.run).                                         *)
THEOREM TypeCorrect == Spec => []TypeOK
<1>1. Inv => TypeOK
  BY DEF Inv
<1> QED
  BY <1>1, SpecInv, PTL

(* What speaks of security, data or architecture completes on an approval  *)
(* of its result, whatever the engine that assessed it answered            *)
(* (JevEngine.assess_task, completion_gate).                               *)
THEOREM HighRiskNeedsApproval == Spec => []HighRiskApproved
<1>1. Inv => HighRiskApproved
  BY DEF Inv
<1> QED
  BY <1>1, SpecInv, PTL

(* "Risk can only move upward": whatever an engine answers, the assessment *)
(* a task goes by has at least the risk of its words, reviews what is R3   *)
(* and above, and asks for the gate exactly from the caller's threshold on *)
(* (intelligence.py, assess_task).                                         *)
THEOREM RiskOnlyUpward == Spec => [](need # None => Assessed(need))
<1>1. Inv => (need # None => Assessed(need))
  BY DEF Inv, Gated
<1> QED
  BY <1>1, SpecInv, PTL

(* No executor starts before the gate is open, when the words of the task  *)
(* or its assessment ask for it (DurableTaskWorkflow.run, the human gate). *)
THEOREM GateFirst == Spec => []GateBeforeExecution
<1>1. Inv => GateBeforeExecution
  <2>1. SUFFICES ASSUME Inv, launched # {}, need.gate \/ classify_risk(text) >= GateAt
                 PROVE  "gate" \in granted
    BY DEF GateBeforeExecution
  <2>2. need # None /\ need \in Needs /\ text \in Texts
    BY <2>1, DurableTaskAssumption DEF Inv, Protocol, TypeOK
  <2>3. /\ classify_risk(text) \in RISK_LEVELS /\ need.risk \in RISK_LEVELS
        /\ GateAt \in RISK_LEVELS
    BY <2>2, RiskType, Names DEF Needs
  <2>4. need.gate
    BY <2>1, <2>2, <2>3 DEF Inv, Gated, Assessed, RISK_LEVELS
  <2> QED
    BY <2>1, <2>2, <2>4 DEF Inv, Gated
<1> QED
  BY <1>1, SpecInv, PTL

(* Two executors never write in one checkout, even when the worker of the  *)
(* first died and its process did not (AgentExecutionWorkflow: a lost      *)
(* execution asks for a person).                                           *)
THEOREM OneWriterOnly == Spec => []WritersSerialized
<1>1. Inv => WritersSerialized
  <2>1. SUFFICES ASSUME Inv, Mutating PROVE Cardinality(alive) <= 1
    BY DEF WritersSerialized
  <2>2. \A e, f \in alive : e = f
    BY <2>1 DEF Inv, OneWriter
  <2>3. CASE alive = {}
    BY <2>3, FS_EmptySet
  <2>4. ASSUME NEW e \in alive PROVE Cardinality(alive) <= 1
    <3>1. alive = {e}
      BY <2>2, <2>4
    <3>2. Cardinality({e}) = 1
      BY FS_Singleton, Zenon
    <3> QED
      BY <3>1, <3>2
  <2> QED
    BY <2>3, <2>4
<1> QED
  BY <1>1, SpecInv, PTL

(* What the workflow resumes on came while it was waiting for it           *)
(* (_wait_for_review).                                                     *)
THEOREM CurrentDecision == Spec => []DecisionIsCurrent
<1>1. Inv => DecisionIsCurrent
  BY DEF Inv
<1> QED
  BY <1>1, SpecInv, PTL

(* An execution is started once in its round, and never on a provider the  *)
(* task was switched away from (temporal_activities.py, maximum_attempts   *)
(* 1).                                                                     *)
THEOREM NoSecondStart == Spec => NoReExecution
<1>1. Inv /\ [Next]_vars =>
        [\A p \in Providers :
           child[p].stage = "starting" /\ child'[p].stage = "executing" =>
             <<round, p>> \notin launched /\ p \notin excluded]_vars
  BY DEF Inv, ThisFar
<1> QED
  BY <1>1, SpecInv, PTL DEF Spec, NoReExecution

-----------------------------------------------------------------------------
(* The refinement: the state of TaskContract, seen in a durable task.      *)

AbsNeed(n) == IF n = None THEN None ELSE [gate |-> n.gate, review |-> n.review]
AbsJudged(b) == IF b = None THEN None ELSE [ready |-> b.ready, review |-> b.review]
AbsOutcome(f) == IF f \in Closed THEN f ELSE None

LEMMA AbsNeedIs ==
  ASSUME NEW n \in Needs
  PROVE  /\ AbsNeed(n) \in Contract!Needs /\ AbsNeed(n) # None
         /\ AbsNeed(n).gate = n.gate /\ AbsNeed(n).review = n.review
<1>1. n # None
  BY Names
<1>2. AbsNeed(n) = [gate |-> n.gate, review |-> n.review]
  BY <1>1 DEF AbsNeed
<1>3. AbsNeed(n) \in Contract!Needs
  BY <1>2 DEF Needs, Contract!Needs
<1> QED
  BY <1>2, <1>3, NoneAssumption

LEMMA AbsJudgedIs ==
  ASSUME NEW b \in Choices
  PROVE  /\ AbsJudged(b) \in Contract!Judgements /\ AbsJudged(b) # None
         /\ AbsJudged(b).ready = b.ready /\ AbsJudged(b).review = b.review
<1>1. b # None
  BY Names
<1>2. AbsJudged(b) = [ready |-> b.ready, review |-> b.review]
  BY <1>1 DEF AbsJudged
<1>3. AbsJudged(b) \in Contract!Judgements
  BY <1>2 DEF Choices, Contract!Judgements
<1> QED
  BY <1>2, <1>3, NoneAssumption

(* The task, seen by the contract: it is open until its workflow closes,   *)
(* and its gate is open when it must be.                                   *)
LEMMA Mapped ==
  ASSUME Inv, phase \notin Closed
  PROVE  /\ AbsOutcome(phase) = None
         /\ need = None => AbsNeed(need) = None
         /\ best = None => AbsJudged(best) = None
BY DEF AbsOutcome, AbsNeed, AbsJudged

LEMMA AbsStutter ==
  ASSUME UNCHANGED <<need, best, granted>>,
         phase' = phase \/ {phase, phase'} \cap Closed = {}
  PROVE  UNCHANGED Contract!vars
BY DEF Contract!vars

LEMMA AbsStop ==
  ASSUME Inv, phase \notin Closed, phase' \in Closed \ {"complete"},
         UNCHANGED <<need, granted>>,
         \/ best' = best
         \/ need \in Needs /\ (need.gate => "gate" \in granted) /\ best' \in Choices
  PROVE  Contract!Stop
<1>1. AbsOutcome(phase) = None
  BY DEF AbsOutcome
<1>2. AbsOutcome(phase') = phase' /\ phase' \in {"rejected", "review_required", "failed", "error"}
  BY DEF AbsOutcome, Closed
<1>3. \/ AbsJudged(best') = AbsJudged(best)
      \/ /\ AbsNeed(need) # None
         /\ AbsNeed(need).gate => "gate" \in granted
         /\ AbsJudged(best') \in Contract!Judgements
  BY AbsNeedIs, AbsJudgedIs
<1> QED
  BY <1>1, <1>2, <1>3
     DEF Contract!Stop, Contract!Open, Contract!GateOpen, AbsNeed, AbsJudged, AbsOutcome

LEMMA AbsComplete ==
  ASSUME Inv, phase \notin Closed, phase' = "complete", need' = need,
         need \in Needs, need.gate => "gate" \in granted,
         best' \in Choices, best'.ready, NEW approved \in BOOLEAN,
         approved => best' = best,
         approved \/ ~(need.review \/ best'.review),
         granted' = IF approved THEN granted \cup {"result"} ELSE granted
  PROVE  Contract!Complete
<1>1. AbsOutcome(phase) = None /\ AbsOutcome(phase') = "complete"
  BY DEF AbsOutcome, Closed
<1>2. /\ AbsNeed(need) # None /\ AbsNeed(need).gate = need.gate
      /\ AbsNeed(need).review = need.review
  BY AbsNeedIs
<1>3. /\ AbsJudged(best') \in Contract!Judgements
      /\ AbsJudged(best').ready = best'.ready /\ AbsJudged(best').review = best'.review
  BY AbsJudgedIs
<1>4. approved => AbsJudged(best') = AbsJudged(best)
  OBVIOUS
<1> DEFINE j == AbsJudged(best')
<1>5. Contract!completion_gate(j, approved) = "complete"
  BY <1>2, <1>3 DEF Contract!completion_gate, AbsNeed
<1> QED
  BY <1>1, <1>2, <1>3, <1>4, <1>5
     DEF Contract!Complete, Contract!Open, Contract!GateOpen, AbsNeed, AbsJudged, AbsOutcome

LEMMA AbsInit == Init => Contract!Init
BY Names DEF Init, Contract!Init, Closed

LEMMA AbsAssess == ASSUME Inv, Assess PROVE [Contract!Next]_Contract!vars
<1>1. phase = "assessing" /\ phase \notin Closed /\ need = None /\ best' = best /\ granted' = granted
  BY DEF Assess, Inv, Protocol, Closed
<1>2. CASE need' \in Assessments[text] /\ phase' \in {"waiting_for_human_review", "routing"}
  <2>1. need' \in Needs
    BY <1>2, AssessTask DEF Inv, TypeOK
  <2>2. AbsNeed(need') \in Contract!Needs
    BY <2>1, AbsNeedIs
  <2>3. phase' \notin Closed
    BY <1>2 DEF Closed
  <2> QED
    BY <1>1, <2>2, <2>3 DEF Contract!Next, Contract!Assess, AbsNeed
<1>3. CASE phase' = "error" /\ need' = need
  BY <1>1, <1>3, AbsStop DEF Contract!Next, Closed
<1> QED
  BY <1>2, <1>3 DEF Assess, WaitForReview, StartRound, Close

LEMMA AbsRoute == ASSUME Inv, Route PROVE [Contract!Next]_Contract!vars
<1>1. phase = "routing" /\ phase \notin Closed /\ UNCHANGED <<need, best, granted>>
  BY DEF Route, Closed
<1>2. CASE phase' = "executing"
  BY <1>1, <1>2, AbsStutter DEF Closed
<1>3. CASE phase' \in {"failed", "error"}
  BY <1>1, <1>3, AbsStop DEF Contract!Next, Closed
<1> QED
  BY <1>2, <1>3 DEF Route, Start, Close

LEMMA AbsDecide == ASSUME Inv, Decide PROVE [Contract!Next]_Contract!vars
<1>1. /\ phase = "executing" /\ phase \notin Closed /\ need \in Needs /\ best = None
      /\ need.gate => "gate" \in granted
      /\ UNCHANGED <<need, granted>>
  BY Names DEF Inv, Decide, Protocol, Gated, TypeOK, Closed
<1>2. PICK p \in Active : /\ child[p].stage = "done" /\ Act(Chosen(p))
                          /\ best' = IF phase' = "routing" THEN None ELSE Chosen(p)
  BY DEF Decide
<1>3. /\ Chosen(p) \in Choices
      /\ \/ phase' = "complete" /\ best' = Chosen(p) /\ Chosen(p).ready /\ ~Review(Chosen(p))
         \/ phase' = "waiting_for_human_review" /\ best' = Chosen(p)
         \/ phase' \in {"review_required", "failed"} /\ best' = Chosen(p)
         \/ phase' = "routing" /\ best' = None
  BY <1>1, <1>2, ActCases
<1>4. CASE phase' = "complete" /\ best' = Chosen(p) /\ Chosen(p).ready /\ ~Review(Chosen(p))
  <2>1. ~(need.review \/ best'.review) /\ best' \in Choices /\ best'.ready
    BY <1>3, <1>4 DEF Review
  <2> QED
    BY <1>1, <1>4, <2>1, AbsComplete DEF Contract!Next
<1>5. CASE phase' = "waiting_for_human_review" /\ best' = Chosen(p)
  <2>1. AbsOutcome(phase) = None /\ AbsOutcome(phase') = None
    BY <1>1, <1>5 DEF AbsOutcome, Closed
  <2>2. AbsNeed(need) # None /\ AbsNeed(need).gate = need.gate
    BY <1>1, AbsNeedIs
  <2>3. AbsJudged(best') \in Contract!Judgements
    BY <1>3, <1>5, AbsJudgedIs
  <2>4. Contract!Judge
    BY <1>1, <2>1, <2>2, <2>3
       DEF Contract!Judge, Contract!Open, Contract!GateOpen, AbsNeed, AbsJudged, AbsOutcome
  <2> QED
    BY <2>4 DEF Contract!Next
<1>6. CASE phase' \in {"review_required", "failed"} /\ best' = Chosen(p)
  BY <1>1, <1>3, <1>6, AbsStop DEF Contract!Next, Closed
<1>7. CASE phase' = "routing" /\ best' = None
  BY <1>1, <1>7, AbsStutter DEF Closed
<1> QED
  BY <1>3, <1>4, <1>5, <1>6, <1>7

LEMMA AbsResume == ASSUME Inv, ResumeReview PROVE [Contract!Next]_Contract!vars
<1>1. /\ phase = "waiting_for_human_review" /\ phase \notin Closed /\ need \in Needs
      /\ asking \in {"gate", "result", "intervention"}
      /\ UNCHANGED <<need, best>>
  BY Names DEF Inv, ResumeReview, Protocol, TypeOK, Closed
<1>2. asking \in {"result", "intervention"} =>
        best \in Choices /\ (need.gate => "gate" \in granted) /\ (best.ready <=> asking = "result")
  BY <1>1, Names DEF Inv, Protocol, Gated, TypeOK
<1>3. CASE decision.approved /\ asking = "gate"
  <2>1. phase' = "routing" /\ granted' = granted \cup {"gate"} /\ best = None
    BY <1>3 DEF Inv, ResumeReview, StartRound, Protocol
  <2>2. AbsOutcome(phase) = None /\ AbsOutcome(phase') = None /\ AbsNeed(need) # None
        /\ AbsJudged(best) = None
    BY <1>1, <2>1, AbsNeedIs DEF AbsOutcome, AbsJudged, Closed
  <2>3. Contract!OpenGate
    BY <1>1, <2>1, <2>2 DEF Contract!OpenGate, Contract!Open, AbsNeed, AbsJudged, AbsOutcome
  <2> QED
    BY <2>3 DEF Contract!Next
<1>4. CASE decision.approved /\ asking = "result"
  <2>1. phase' = "complete" /\ granted' = granted \cup {"result"}
    BY <1>4 DEF ResumeReview, Close
  <2> QED
    BY <1>1, <1>2, <1>4, <2>1, AbsComplete DEF Contract!Next
<1>5. CASE decision.approved /\ asking = "intervention"
  <2>1. phase' = "review_required" /\ granted' = granted
    BY <1>2, <1>5 DEF ResumeReview, Close
  <2> QED
    BY <1>1, <2>1, AbsStop DEF Contract!Next, Closed
<1>6. CASE ~decision.approved
  <2>1. phase' = "rejected" /\ granted' = granted
    BY <1>6 DEF ResumeReview, Close
  <2> QED
    BY <1>1, <2>1, AbsStop DEF Contract!Next, Closed
<1> QED
  BY <1>1, <1>3, <1>4, <1>5, <1>6

(* A durable task is an implementation of its contract: every step of the  *)
(* workflow, its children, its activities, its lost workers and its        *)
(* reviewers is a step the contract allows, or none of its business        *)
(* (DurableTaskWorkflow; completion_gate of intelligence.py).              *)
THEOREM Implements == Spec => KeepsContract
<1>1. Init => Contract!Init
  BY AbsInit
<1>2. Inv /\ [Next]_vars => [Contract!Next]_Contract!vars
  <2>1. SUFFICES ASSUME Inv, [Next]_vars PROVE [Contract!Next]_Contract!vars
    OBVIOUS
  <2>2. CASE UNCHANGED <<phase, need, best, granted>>
    BY <2>2, AbsStutter
  <2>3. CASE \E p \in Providers : ChildStep(p)
    BY <2>2, <2>3 DEF ChildStep, workflow
  <2>4. CASE OrphanEnds \/ SendReview \/ ReviewSignal
    BY <2>2, <2>4 DEF OrphanEnds, SendReview, ReviewSignal, workflow
  <2>5. CASE UNCHANGED vars
    BY <2>2, <2>5 DEF vars, workflow
  <2> QED
    BY <2>1, <2>3, <2>4, <2>5, AbsAssess, AbsRoute, AbsDecide, AbsResume DEF Next, Progress
<1> QED
  BY <1>1, <1>2, SpecInv, PTL DEF Spec, KeepsContract, Contract!Spec

(* The theorem of TaskContractProofs, about what this module maps to it. *)
Promises ==
  INSTANCE TaskContractProofs WITH
    need    <- IF need = None THEN None
               ELSE [gate |-> need.gate, review |-> need.review],
    judged  <- IF best = None THEN None
               ELSE [ready |-> best.ready, review |-> best.review],
    outcome <- IF phase \in Closed THEN phase ELSE None

(* What the caller of a durable task gets: a completed one has a result    *)
(* that is ready, its gate was opened if its assessment demanded one, and  *)
(* its result was approved if the assessment or the result called for it.  *)
CompletedRightly ==
  phase = "complete" =>
    /\ best.ready
    /\ need.gate => "gate" \in granted
    /\ need.review \/ best.review => "result" \in granted

(* It follows from the contract alone: the refinement carries the promise  *)
(* of TaskContract over to the workflow.                                   *)
THEOREM Promised == Spec => []CompletedRightly
<1>1. Promises!Spec => []Promises!Promise
  <2>1. None # "complete"
    BY NoneAssumption DEF Closed
  <2> QED
    BY <2>1, Promises!KeepsPromise
<1>2. Contract!Init => Promises!Init
  BY DEF Contract!Init, Promises!Init
<1>3. [Contract!Next]_Contract!vars => [Promises!Next]_Promises!vars
  BY DEF Contract!Next, Promises!Next, Contract!vars, Promises!vars,
    Contract!Assess, Promises!Assess, Contract!OpenGate, Promises!OpenGate,
    Contract!Judge, Promises!Judge, Contract!Complete, Promises!Complete,
    Contract!Stop, Promises!Stop, Contract!Open, Promises!Open,
    Contract!GateOpen, Promises!GateOpen, Contract!Needs, Promises!Needs,
    Contract!Judgements, Promises!Judgements,
    Contract!completion_gate, Promises!completion_gate
<1>4. Inv /\ Promises!Promise => CompletedRightly
  <2>1. SUFFICES ASSUME Inv, Promises!Promise, phase = "complete" PROVE CompletedRightly
    BY DEF CompletedRightly
  <2>2. /\ AbsJudged(best) \in Contract!Judgements /\ AbsJudged(best).ready
        /\ AbsNeed(need).gate => "gate" \in granted
        /\ AbsNeed(need).review \/ AbsJudged(best).review => "result" \in granted
    BY <2>1
    DEF Promises!Promise, AbsNeed, AbsJudged, Closed, Promises!Judgements, Contract!Judgements
  <2>3. best \in Choices
    BY <2>1, <2>2, NoneAssumption DEF AbsJudged, Inv, TypeOK
  <2>4. need \in Needs
    BY <2>1, <2>3, Names DEF Inv, Protocol, TypeOK
  <2>5. /\ AbsNeed(need).gate = need.gate /\ AbsNeed(need).review = need.review
        /\ AbsJudged(best).ready = best.ready /\ AbsJudged(best).review = best.review
    BY <2>3, <2>4, AbsNeedIs, AbsJudgedIs
  <2> QED
    BY <2>2, <2>5, Zenon DEF CompletedRightly
<1> QED
  BY <1>1, <1>2, <1>3, <1>4, SpecInv, Implements, PTL
  DEF KeepsContract, Contract!Spec, Promises!Spec

-----------------------------------------------------------------------------
(* What a task still has to do: the phases of this round and of the rounds *)
(* that are left, and the stages its children have not come to.            *)
Position ==
  CASE phase \in {"assessing", "routing"}   -> 0
    [] phase = "executing"                  -> 1
    [] phase = "waiting_for_human_review"   -> 2
    [] OTHER                                -> 3

ThisRound == IF phase \in Closed THEN MaxAttempts + 1 ELSE round

StageRank == [starting |-> 0, executing |-> 1, verifying |-> 2, judging |-> 3,
              done |-> 4, none |-> 4]

PhasesLeft ==
  {w \in (0 .. MaxAttempts) \X (0 .. 2) :
     w[1] > ThisRound \/ (w[1] = ThisRound /\ w[2] >= Position)}

Executions == (0 .. MaxAttempts) \X Providers

StagesLeft ==
  {w \in Executions \X (1 .. 4) :
     LET r == w[1][1]  p == w[1][2] IN
     \/ r > ThisRound
     \/ r = ThisRound /\ Position = 0
     \/ r = ThisRound /\ Position = 1 /\ w[2] > StageRank[child[p].stage]}

StepsLeft == Cardinality(PhasesLeft) + Cardinality(StagesLeft)

(* The rounds begin when the gate is open. *)
Started == phase = "assessing" \/ asking = "gate" => round = 0

LEMMA ProvidersFinite == IsFiniteSet(Providers)
<1>1. Registry \in Seq({Registry[i] : i \in DOMAIN Registry})
  BY DurableTaskAssumption
<1>2. DOMAIN Registry = 1 .. Len(Registry) /\ Len(Registry) \in Nat
  BY <1>1
<1>3. IsFiniteSet(DOMAIN Registry)
  BY <1>2, FS_Interval
<1> DEFINE f == [i \in DOMAIN Registry |-> Registry[i].provider]
<1>4. f \in Surjection(DOMAIN Registry, Providers)
  BY DEF Surjection, Providers
<1> QED
  BY <1>3, <1>4, FS_Surjection

LEMMA LeftFinite ==
  /\ IsFiniteSet(PhasesLeft) /\ IsFiniteSet(StagesLeft)
  /\ Cardinality(PhasesLeft) \in Nat /\ Cardinality(StagesLeft) \in Nat
<1>1. IsFiniteSet(0 .. MaxAttempts) /\ IsFiniteSet(0 .. 2) /\ IsFiniteSet(1 .. 4)
  <2>1. MaxAttempts \in Int /\ {0, 1, 2, 4} \subseteq Int
    BY Names
  <2>2. \A a, b \in Int : IsFiniteSet(a .. b)
    BY FS_Interval, Zenon
  <2> QED
    BY <2>1, <2>2, Zenon
<1>2. IsFiniteSet((0 .. MaxAttempts) \X (0 .. 2)) /\ IsFiniteSet(Executions)
  BY <1>1, ProvidersFinite, FS_Product DEF Executions
<1>3. IsFiniteSet(Executions \X (1 .. 4))
  BY <1>1, <1>2, FS_Product
<1>4. IsFiniteSet(PhasesLeft)
  BY <1>2, FS_Subset DEF PhasesLeft
<1>5. IsFiniteSet(StagesLeft)
  BY <1>3, FS_Subset DEF StagesLeft
<1> QED
  BY <1>4, <1>5, FS_CardinalityType

LEMMA LeftType == StepsLeft \in Nat
BY LeftFinite DEF StepsLeft

LEMMA Nearer ==
  ASSUME PhasesLeft' \subseteq PhasesLeft, StagesLeft' \subseteq StagesLeft,
         PhasesLeft' # PhasesLeft \/ StagesLeft' # StagesLeft,
         IsFiniteSet(PhasesLeft), IsFiniteSet(StagesLeft)
  PROVE  StepsLeft' < StepsLeft
<1>1. /\ Cardinality(PhasesLeft') <= Cardinality(PhasesLeft)
      /\ Cardinality(PhasesLeft') = Cardinality(PhasesLeft) => PhasesLeft' = PhasesLeft
      /\ IsFiniteSet(PhasesLeft')
  BY FS_Subset
<1>2. /\ Cardinality(StagesLeft') <= Cardinality(StagesLeft)
      /\ Cardinality(StagesLeft') = Cardinality(StagesLeft) => StagesLeft' = StagesLeft
      /\ IsFiniteSet(StagesLeft')
  BY FS_Subset
<1>3. /\ Cardinality(PhasesLeft) \in Nat /\ Cardinality(PhasesLeft') \in Nat
      /\ Cardinality(StagesLeft) \in Nat /\ Cardinality(StagesLeft') \in Nat
  BY <1>1, <1>2, FS_CardinalityType
<1>4. StepsLeft = Cardinality(PhasesLeft) + Cardinality(StagesLeft)
  BY DEF StepsLeft
<1>5. StepsLeft' = Cardinality(PhasesLeft') + Cardinality(StagesLeft')
  BY DEF StepsLeft
<1> QED
  BY <1>1, <1>2, <1>3, <1>4, <1>5

(* The workflow comes to a later phase of its round, or to a later round.  *)
LEMMA PhaseAdvances ==
  ASSUME Inv, Inv', phase \notin Closed,
         \/ ThisRound' > ThisRound
         \/ ThisRound' = ThisRound /\ Position' > Position
  PROVE  StepsLeft' < StepsLeft
<1>1. /\ ThisRound \in 0 .. MaxAttempts /\ Position \in 0 .. 2
      /\ ThisRound' \in Nat /\ Position' \in 0 .. 3 /\ MaxAttempts \in Nat
  BY Names DEF Inv, TypeOK, ThisRound, Position, Closed
<1> DEFINE r == ThisRound  s == ThisRound'  a == Position  b == Position'
<1>2. PhasesLeft' \subseteq PhasesLeft
  <2>1. SUFFICES ASSUME NEW v \in (0 .. MaxAttempts) \X (0 .. 2), v \in PhasesLeft'
                 PROVE  v \in PhasesLeft
    BY DEF PhasesLeft
  <2>2. v[1] > s \/ (v[1] = s /\ v[2] >= b)
    BY <2>1 DEF PhasesLeft
  <2>3. v[1] > r \/ (v[1] = r /\ v[2] >= a)
    <3>1. /\ r \in Int /\ s \in Int /\ a \in Int /\ b \in Int
          /\ s > r \/ (s = r /\ b > a)
          /\ v[1] \in Int /\ v[2] \in Int
      BY <1>1
    <3> HIDE DEF r, s, a, b
    <3> QED
      BY <2>2, <3>1
  <2> QED
    BY <2>3 DEF PhasesLeft
<1>3. <<ThisRound, Position>> \in PhasesLeft
  BY <1>1 DEF PhasesLeft
<1>4. <<ThisRound, Position>> \notin PhasesLeft'
  BY <1>1 DEF PhasesLeft
<1>5. StagesLeft' \subseteq StagesLeft
  <2>1. SUFFICES ASSUME NEW w \in Executions \X (1 .. 4), w \in StagesLeft'
                 PROVE  w \in StagesLeft
    BY DEF StagesLeft
  <2>2. w[1][1] \in Nat
    BY DEF Executions
  <2>3. \/ w[1][1] > ThisRound'
        \/ w[1][1] = ThisRound' /\ Position' \in {0, 1}
    BY <2>1 DEF StagesLeft
  <2>4. w[1][1] > ThisRound \/ (w[1][1] = ThisRound /\ Position = 0)
    <3> DEFINE k == w[1][1]
    <3>1. /\ k \in Int /\ r \in Int /\ s \in Int /\ a \in 0 .. 2 /\ b \in Int
          /\ s > r \/ (s = r /\ b > a)
          /\ k > s \/ (k = s /\ b \in {0, 1})
      BY <1>1, <2>2, <2>3
    <3> HIDE DEF k, r, s, a, b
    <3>2. k > r \/ (k = r /\ a = 0)
      BY <3>1
    <3> QED
      BY <3>2 DEF k, r, a
  <2> QED
    BY <2>4 DEF StagesLeft
<1> QED
  BY <1>2, <1>3, <1>4, <1>5, LeftFinite, Nearer, Zenon

(* A child comes to a later stage.                                         *)
LEMMA StageAdvances ==
  ASSUME Inv, NEW p \in Providers, phase = "executing", UNCHANGED <<phase, round>>,
         \A q \in Providers \ {p} : child'[q] = child[q],
         child[p].stage \in DOMAIN StageRank, child'[p].stage \in DOMAIN StageRank,
         StageRank[child'[p].stage] > StageRank[child[p].stage]
  PROVE  StepsLeft' < StepsLeft
<1> DEFINE old == StageRank[child[p].stage]
           new == StageRank[child'[p].stage]
<1>1. old \in 0 .. 4 /\ new \in 1 .. 4 /\ new > old
  BY DEF StageRank
<1>2. /\ ThisRound = round /\ Position = 1 /\ round \in 0 .. MaxAttempts
      /\ ThisRound' = round /\ Position' = 1
  BY DEF Inv, TypeOK, ThisRound, Position, Closed
<1>3. PhasesLeft' = PhasesLeft
  BY <1>2, Zenon DEF PhasesLeft
<1>4. <<<<round, p>>, new>> \in StagesLeft
  BY <1>1, <1>2 DEF StagesLeft, Executions
<1>5. <<<<round, p>>, new>> \notin StagesLeft'
  BY <1>1, <1>2 DEF StagesLeft, Executions
<1>6. StagesLeft' \subseteq StagesLeft
  <2>1. SUFFICES ASSUME NEW w \in Executions \X (1 .. 4), w \in StagesLeft'
                 PROVE  w \in StagesLeft
    BY DEF StagesLeft
  <2>2. w[1][2] \in Providers
    BY DEF Executions
  <2>3. \/ w[1][1] > round
        \/ w[1][1] = round /\ w[2] > StageRank[child'[w[1][2]].stage]
    BY <1>2, <2>1 DEF StagesLeft
  <2>4. w[2] > StageRank[child'[w[1][2]].stage] => w[2] > StageRank[child[w[1][2]].stage]
    BY <1>1, <2>1, <2>2
  <2> QED
    BY <1>2, <2>3, <2>4 DEF StagesLeft
<1> HIDE DEF old, new
<1> QED
  BY <1>3, <1>4, <1>5, <1>6, LeftFinite, Nearer, Zenon

LEMMA StartedNext == ASSUME Inv, Started, [Next]_vars PROVE Started'
<1>1. /\ phase' = "assessing" => phase = "assessing"
      /\ asking' = "gate" => asking = "gate" \/ phase = "assessing"
      /\ phase' = "assessing" \/ asking' = "gate" => round' = round
  <2>1. CASE Assess
    BY <2>1, Names DEF Assess, WaitForReview, StartRound, Close
  <2>2. CASE Route
    BY <2>2, Names DEF Route, Close, Start, Inv, TypeOK
  <2>3. CASE Decide
    <3>1. PICK p \in Active : /\ child[p].stage = "done" /\ Act(Chosen(p))
                              /\ best' = IF phase' = "routing" THEN None ELSE Chosen(p)
      BY <2>3 DEF Decide
    <3> QED
      BY <2>3, <3>1, ActCases, Names DEF Decide
  <2>4. CASE ResumeReview
    BY <2>4, Names DEF ResumeReview, StartRound, Close
  <2>5. CASE (\E p \in Providers : ChildStep(p)) \/ OrphanEnds \/ SendReview \/ ReviewSignal \/ UNCHANGED vars
    BY <2>5 DEF ChildStep, OrphanEnds, SendReview, ReviewSignal, workflow, vars
  <2> QED
    BY <2>1, <2>2, <2>3, <2>4, <2>5 DEF Next, Progress
<1> QED
  BY <1>1 DEF Started

(* What every step of a child does.                                        *)
MovesOn(p) ==
  /\ \A q \in Providers \ {p} : child'[q] = child[q]
  /\ child'[p].stage \in DOMAIN StageRank \ {"none"}
  /\ StageRank[child'[p].stage] > StageRank[child[p].stage]

LEMMA ChildMoves ==
  ASSUME Inv, NEW p \in Providers, ChildStep(p)
  PROVE  MovesOn(p)
<1>1. /\ phase = "executing" /\ UNCHANGED <<phase, round>>
      /\ child \in [Providers -> Children]
      /\ child[p].stage \in DOMAIN StageRank
  BY DEF ChildStep, workflow, Inv, TypeOK, Children, StageRank
<1>2. ASSUME NEW c, Becomes(p, c), c.stage \in DOMAIN StageRank \ {"none"},
             StageRank[c.stage] > StageRank[child[p].stage]
      PROVE  MovesOn(p)
  BY <1>1, <1>2 DEF Becomes, MovesOn
<1>3. FailedAttempt.stage = "done"
  BY FailedType
<1>4. CASE /\ child[p].stage \in {"starting", "executing", "verifying", "judging"}
           /\ Becomes(p, FailedAttempt)
  <2> DEFINE c == FailedAttempt
  <2>1. c.stage \in DOMAIN StageRank \ {"none"} /\ StageRank[c.stage] > StageRank[child[p].stage]
    BY <1>3, <1>4 DEF StageRank
  <2> QED
    BY <1>2, <1>4, <2>1
<1>5. CASE ExecutionStarts(p)
  <2> DEFINE c == [child[p] EXCEPT !.stage = "executing"]
  <2>1. c.stage = "executing" /\ child[p].stage = "starting" /\ Becomes(p, c)
    BY <1>1, <1>5 DEF ExecutionStarts, Children
  <2>2. c.stage \in DOMAIN StageRank \ {"none"} /\ StageRank[c.stage] > StageRank[child[p].stage]
    BY <2>1 DEF StageRank
  <2> HIDE DEF c
  <2> QED
    BY <1>2, <2>1, <2>2
<1>6. CASE ExecutionEnds(p) /\ ~Becomes(p, FailedAttempt)
  <2>1. PICK rc0 \in BOOLEAN : Becomes(p, [child[p] EXCEPT !.stage = "verifying", !.exit0 = rc0])
    BY <1>6 DEF ExecutionEnds
  <2> DEFINE c == [child[p] EXCEPT !.stage = "verifying", !.exit0 = rc0]
  <2>2. c.stage = "verifying" /\ child[p].stage = "executing" /\ Becomes(p, c)
    BY <1>1, <1>6, <2>1 DEF ExecutionEnds, Children
  <2>3. c.stage \in DOMAIN StageRank \ {"none"} /\ StageRank[c.stage] > StageRank[child[p].stage]
    BY <2>2 DEF StageRank
  <2> HIDE DEF c
  <2> QED
    BY <1>2, <2>2, <2>3
<1>7. CASE Verify(p) /\ ~Becomes(p, FailedAttempt)
  <2>1. PICK ok \in BOOLEAN : Becomes(p, [child[p] EXCEPT !.stage = "judging", !.complete = ok])
    BY <1>7 DEF Verify
  <2> DEFINE c == [child[p] EXCEPT !.stage = "judging", !.complete = ok]
  <2>2. c.stage = "judging" /\ child[p].stage = "verifying" /\ Becomes(p, c)
    BY <1>1, <1>7, <2>1 DEF Verify, Children
  <2>3. c.stage \in DOMAIN StageRank \ {"none"} /\ StageRank[c.stage] > StageRank[child[p].stage]
    BY <2>2 DEF StageRank
  <2> HIDE DEF c
  <2> QED
    BY <1>2, <2>2, <2>3
<1>8. CASE AssessResult(p) /\ ~Becomes(p, FailedAttempt)
  <2>1. PICK j \in Judgements[need.risk][child[p].exit0][child[p].complete] :
          Becomes(p, [child[p] EXCEPT !.stage = "done", !.ready = j.ready,
                        !.review = j.review, !.next = j.next])
    BY <1>8 DEF AssessResult
  <2> DEFINE c == [child[p] EXCEPT !.stage = "done", !.ready = j.ready,
                     !.review = j.review, !.next = j.next]
  <2>2. c.stage = "done" /\ child[p].stage = "judging" /\ Becomes(p, c)
    BY <1>1, <1>8, <2>1 DEF AssessResult, Children
  <2>3. c.stage \in DOMAIN StageRank \ {"none"} /\ StageRank[c.stage] > StageRank[child[p].stage]
    BY <2>2 DEF StageRank
  <2> HIDE DEF c
  <2> QED
    BY <1>2, <2>2, <2>3
<1>9. CASE ExecutionRefused(p) \/ ExecutionLost(p)
  BY <1>4, <1>9 DEF ExecutionRefused, ExecutionLost
<1>10. CASE ExecutionEnds(p) \/ Verify(p) \/ AssessResult(p)
  <2>1. child[p].stage \in {"starting", "executing", "verifying", "judging"}
    BY <1>10 DEF ExecutionEnds, Verify, AssessResult
  <2> QED
    BY <1>4, <1>6, <1>7, <1>8, <1>10, <2>1
<1> QED
  BY <1>5, <1>9, <1>10 DEF ChildStep

LEMMA ChildAdvances ==
  ASSUME Inv, NEW p \in Providers, ChildStep(p)
  PROVE  StepsLeft' < StepsLeft
<1>1. /\ phase = "executing" /\ UNCHANGED <<phase, round>>
      /\ child[p].stage \in DOMAIN StageRank
  BY DEF ChildStep, workflow, Inv, TypeOK, Children, StageRank
<1> QED
  BY <1>1, ChildMoves, StageAdvances DEF MovesOn

LEMMA WorkflowAdvances ==
  ASSUME Inv, Inv', Started, Assess \/ Route \/ Decide \/ ResumeReview
  PROVE  StepsLeft' < StepsLeft
<1>1. /\ phase \in {"assessing", "routing", "executing", "waiting_for_human_review"}
      /\ round \in 0 .. MaxAttempts /\ round' \in 0 .. MaxAttempts /\ MaxAttempts \in Nat
  BY Names DEF Assess, Route, Decide, ResumeReview, Inv, TypeOK
<1>2. \/ phase' \in Closed
      \/ round' > round
      \/ /\ round' = round
         /\ \/ phase = "assessing" /\ phase' = "waiting_for_human_review"
            \/ phase = "routing" /\ phase' = "executing"
            \/ phase = "executing" /\ phase' = "waiting_for_human_review"
  <2>1. CASE Assess
    BY <2>1 DEF Assess, WaitForReview, StartRound, Close, Closed, Started
  <2>2. CASE Route
    <3>1. phase = "routing" /\ round' = round /\ phase' \in {"failed", "error", "executing"}
      BY <2>2 DEF Route, Close, Start
    <3> QED
      BY <3>1 DEF Closed
  <2>3. CASE Decide
    <3>1. PICK p \in Active : /\ child[p].stage = "done" /\ Act(Chosen(p))
                              /\ best' = IF phase' = "routing" THEN None ELSE Chosen(p)
      BY <2>3 DEF Decide
    <3>2. phase = "executing"
      BY <2>3 DEF Decide
    <3> QED
      BY <1>1, <3>1, <3>2, ActCases DEF Closed
  <2>4. CASE ResumeReview
    BY <2>4 DEF ResumeReview, StartRound, Close, Closed, Started
  <2> QED
    BY <2>1, <2>2, <2>3, <2>4
<1>3. /\ phase \notin Closed
      /\ phase' \in Closed => ThisRound' > ThisRound
      /\ phase' \notin Closed => ThisRound' = round'
      /\ ThisRound = round
  BY <1>1 DEF ThisRound, Closed
<1>4. phase = "assessing" /\ phase' = "waiting_for_human_review" => Position' > Position
  BY DEF Position
<1>5. phase = "routing" /\ phase' = "executing" => Position' > Position
  BY DEF Position
<1>6. phase = "executing" /\ phase' = "waiting_for_human_review" => Position' > Position
  BY DEF Position
<1>7. \/ ThisRound' > ThisRound
      \/ ThisRound' = ThisRound /\ Position' > Position
  BY <1>2, <1>3, <1>4, <1>5, <1>6
<1> QED
  BY <1>3, <1>7, PhaseAdvances

(* Every step of the workflow and its activities brings the task nearer to *)
(* its end, however its workers are lost, its activities fail and its      *)
(* engine answers; and no signal and no process that was left behind sets  *)
(* it back.  No loop of DurableTaskWorkflow runs for ever.                 *)
StepsRunOut == [][/\ Progress => StepsLeft' < StepsLeft
                  /\ StepsLeft' <= StepsLeft]_vars

(* Whatever the engines answer and the workers lose, the workflow has only *)
(* finitely many steps left, and each one that it takes leaves it fewer    *)
(* (DurableTaskWorkflow.run, AgentExecutionWorkflow.run).                  *)
THEOREM BoundedProgress == Spec => [](StepsLeft \in Nat) /\ StepsRunOut
<1> DEFINE Less == /\ Progress => StepsLeft' < StepsLeft
                   /\ StepsLeft' <= StepsLeft
<1>1. Init => Started
  BY Names DEF Init, Started
<1>2. Inv /\ Started /\ [Next]_vars => Started'
  BY StartedNext
<1>3. StepsLeft \in Nat /\ (StepsLeft \in Nat)'
  BY LeftType, PTL
<1>4. Inv /\ Inv' /\ Started /\ [Next]_vars => [Less]_vars
  <2>1. SUFFICES ASSUME Inv, Inv', Started, Next PROVE Less
    OBVIOUS
  <2>2. Progress => StepsLeft' < StepsLeft
    BY <2>1, WorkflowAdvances, ChildAdvances DEF Progress
  <2>3. CASE OrphanEnds \/ SendReview \/ ReviewSignal
    <3>1. UNCHANGED <<phase, round, child>>
      BY <2>3 DEF OrphanEnds, SendReview, ReviewSignal, workflow
    <3>2. ThisRound' = ThisRound /\ Position' = Position
      BY <3>1 DEF ThisRound, Position
    <3>3. PhasesLeft' = PhasesLeft /\ StagesLeft' = StagesLeft
      BY <3>1, <3>2, Zenon DEF PhasesLeft, StagesLeft
    <3>4. StepsLeft' = StepsLeft
      BY <3>3, Zenon DEF StepsLeft
    <3> QED
      BY <1>3, <2>2, <3>4
  <2> QED
    BY <1>3, <2>1, <2>2, <2>3 DEF Next
<1> QED
  BY <1>1, <1>2, <1>4, LeftType, SpecInv, PTL DEF Spec, StepsRunOut

-----------------------------------------------------------------------------
(* The executions of a round, and how many there may be. *)
Ran(r) == {p \in Providers : <<r, p>> \in launched}

Spread ==
  /\ need # None => \A r \in 1 .. MaxAttempts : Cardinality(Ran(r)) <= RouteCount
  /\ phase = "executing" => Cardinality(Active) <= RouteCount /\ Ran(round) \subseteq Active

LEMMA RouteCountType == RouteCount \in 1 .. 4 /\ RouteCount' \in 1 .. 4
BY DurableTaskAssumption DEF RouteCount, TaskRunInput

LEMMA RanFinite ==
  /\ IsFiniteSet(Active) /\ Cardinality(Active) \in Nat
  /\ \A r : IsFiniteSet(Ran(r)) /\ Cardinality(Ran(r)) \in Nat
<1>1. IsFiniteSet(Active)
  BY ProvidersFinite, FS_Subset DEF Active
<1>2. \A r : IsFiniteSet(Ran(r))
  <2>1. TAKE r
  <2>2. Ran(r) \in SUBSET Providers
    BY DEF Ran
  <2> HIDE DEF Ran
  <2> QED
    BY <2>2, ProvidersFinite, FS_Subset
<1> QED
  BY <1>1, <1>2, FS_CardinalityType

(* A route starts at most the executors it asked for. *)
LEMMA StartAtMost ==
  ASSUME TypeOK, NEW available \in SUBSET DOMAIN Registry, NEW chosen,
         chosen = select(Registry, Requirements, available, RouteCount),
         Start(chosen)
  PROVE  Cardinality(Active') <= RouteCount
<1>1. Registry \in Seq({Registry[i] : i \in DOMAIN Registry})
  BY DurableTaskAssumption
<1>2. IsFiniteSet(chosen) /\ Cardinality(chosen) <= RouteCount /\ RouteCount \in Nat
  BY <1>1, RouteCountType, SelectAtMost, RequirementsType
<1>3. chosen \in SUBSET DOMAIN Registry
  BY DEF select, Candidates
<1> DEFINE T == {Registry[i].provider : i \in chosen}
           f == [i \in chosen |-> Registry[i].provider]
<1>4. f \in Surjection(chosen, T)
  BY DEF Surjection
<1> HIDE DEF f
<1>5. IsFiniteSet(T) /\ Cardinality(T) <= Cardinality(chosen)
  BY <1>2, <1>4, FS_Surjection
<1>6. Active' \subseteq T
  <2>1. SUFFICES ASSUME NEW p \in Providers, child'[p].stage # "none"
                 PROVE  \E i \in chosen : Registry[i].provider = p
    BY DEF Active
  <2>2. child'[p] = IF \E i \in chosen : Registry[i].provider = p
                    THEN [Idle EXCEPT !.stage = "starting", !.executor = Selected(chosen, p)]
                    ELSE Idle
    BY DEF Start
  <2>3. Idle.stage = "none"
    BY DEF Idle
  <2> QED
    BY <2>1, <2>2, <2>3, Zenon
<1>7. Cardinality(Active') <= Cardinality(T) /\ Cardinality(Active') \in Nat
  BY <1>5, <1>6, FS_Subset, FS_CardinalityType
<1>8. Cardinality(T) \in Nat /\ Cardinality(chosen) \in Nat
  BY <1>2, <1>5, FS_CardinalityType
<1> QED
  BY <1>2, <1>5, <1>7, <1>8

LEMMA SpreadNext == ASSUME Inv, Inv', Spread, [Next]_vars PROVE Spread'
<1>1. /\ MaxAttempts \in Nat /\ RouteCount \in Nat /\ RouteCount' \in Nat
      /\ launched \subseteq (1 .. MaxAttempts) \X Providers
  BY RouteCountType, Names DEF Inv, TypeOK
<1>2. CASE Assess
  <2>1. phase' # "executing" /\ launched = {} /\ launched' = {}
    BY <1>2, Names DEF Assess, WaitForReview, StartRound, Close, Inv, Protocol, outside
  <2>2. \A r \in 1 .. MaxAttempts : Ran(r)' = {}
    BY <2>1 DEF Ran
  <2> QED
    BY <1>1, <2>1, <2>2, FS_EmptySet DEF Spread
<1>3. ASSUME UNCHANGED <<need, launched>>, need # None,
             phase' = "executing" =>
               Cardinality(Active') <= RouteCount /\ Ran(round)' \subseteq Active'
                 /\ round' = round
      PROVE  Spread'
  <2>1. RouteCount' = RouteCount /\ \A r : Ran(r)' = Ran(r)
    BY <1>3, Zenon DEF RouteCount, Ran, Mutating
  <2> QED
    BY <1>3, <2>1 DEF Spread
<1>4. CASE Route
  <2>1. need # None /\ UNCHANGED <<need, launched, round>> /\ phase = "routing"
    BY <1>4, Names DEF Route, Inv, Protocol, outside, Closed
  <2>2. CASE phase' = "executing"
    <3>1. PICK available \in SUBSET DOMAIN Registry :
            Start(select(Registry, Requirements, available, RouteCount))
      BY <1>4, <2>2 DEF Route, Close
    <3>2. Cardinality(Active') <= RouteCount
      BY <3>1, StartAtMost DEF Inv
    <3>3. Ran(round)' = {}
      BY <2>1 DEF Ran, Inv, ThisFar, TypeOK
    <3> QED
      BY <1>3, <2>1, <3>2, <3>3
  <2> QED
    BY <1>3, <2>1, <2>2
<1>5. ASSUME NEW p \in Providers, ChildStep(p) PROVE Spread'
  <2>1. /\ phase = "executing" /\ UNCHANGED <<phase, round, need>> /\ need # None
        /\ round \in 1 .. MaxAttempts
    BY <1>5, Names DEF ChildStep, workflow, Inv, Protocol, TypeOK, Closed
  <2>2. child[p].stage # "none" /\ MovesOn(p)
    BY <1>5, ChildMoves
    DEF ChildStep, ExecutionRefused, ExecutionStarts, ExecutionEnds, ExecutionLost, Verify, AssessResult
  <2>3. Active' = Active /\ p \in Active
    BY <2>2 DEF MovesOn, Active
  <2>4. launched' \in {launched, launched \cup {<<round, p>>}}
    BY <1>5
    DEF ChildStep, ExecutionRefused, ExecutionStarts, ExecutionEnds, ExecutionLost, Verify,
        AssessResult, outside
  <2>5. RouteCount' = RouteCount
    BY <2>1, Zenon DEF RouteCount, Mutating
  <2>6. \A r \in 1 .. MaxAttempts : r # round => Ran(r)' = Ran(r)
    BY <2>4 DEF Ran
  <2>7. Ran(round)' \subseteq Ran(round) \cup {p}
    BY <2>1, <2>4 DEF Ran
  <2>8. Ran(round)' \subseteq Active
    BY <2>1, <2>3, <2>7 DEF Spread
  <2>9. Cardinality(Ran(round)') <= RouteCount
    <3>1. IsFiniteSet(Ran(round)') /\ Cardinality(Ran(round)') <= Cardinality(Active)
      BY <2>8, RanFinite, FS_Subset
    <3>2. Cardinality(Ran(round)') \in Nat /\ Cardinality(Active) <= RouteCount
      BY <2>1, <3>1, FS_CardinalityType DEF Spread
    <3> QED
      BY <1>1, <3>1, <3>2, RanFinite
  <2>10. \A r \in 1 .. MaxAttempts : Cardinality(Ran(r)') <= RouteCount
    BY <2>1, <2>6, <2>9 DEF Spread
  <2> QED
    BY <2>1, <2>3, <2>5, <2>8, <2>10 DEF Spread
<1>6. CASE Decide
  <2>1. need # None /\ UNCHANGED <<need, launched>>
    BY <1>6, Names DEF Decide, Inv, Protocol, outside, Closed
  <2>2. phase' # "executing"
    <3>1. PICK p \in Active : /\ child[p].stage = "done" /\ Act(Chosen(p))
                              /\ best' = IF phase' = "routing" THEN None ELSE Chosen(p)
      BY <1>6 DEF Decide
    <3>2. phase = "executing"
      BY <1>6 DEF Decide
    <3> QED
      BY <3>1, <3>2, ActCases
  <2> QED
    BY <1>3, <2>1, <2>2
<1>7. CASE ResumeReview
  <2>1. need # None /\ UNCHANGED <<need, launched>> /\ phase' # "executing"
    BY <1>7, Names DEF ResumeReview, StartRound, Close, Inv, Protocol, TypeOK, outside, Closed
  <2> QED
    BY <1>3, <2>1
<1>8. CASE OrphanEnds \/ SendReview \/ ReviewSignal \/ UNCHANGED vars
  <2>1. UNCHANGED <<phase, need, round, child, launched>>
    BY <1>8 DEF OrphanEnds, SendReview, ReviewSignal, workflow, outside, vars
  <2>2. RouteCount' = RouteCount /\ (\A r : Ran(r)' = Ran(r)) /\ Active' = Active
    BY <2>1, Zenon DEF RouteCount, Ran, Active, Mutating
  <2> QED
    BY <2>1, <2>2 DEF Spread
<1> QED
  BY <1>2, <1>4, <1>5, <1>6, <1>7, <1>8 DEF Next, Progress

(* A set of pairs with at most k of each first element. *)
LEMMA FewOfEach ==
  ASSUME NEW m \in Nat, NEW k \in Nat, NEW B, NEW S, S \subseteq (1 .. m) \X B,
         \A r \in 1 .. m : /\ IsFiniteSet({p \in B : <<r, p>> \in S})
                           /\ Cardinality({p \in B : <<r, p>> \in S}) <= k
  PROVE  Cardinality(S) <= m * k
<1> DEFINE Of(r) == {p \in B : <<r, p>> \in S}
           f == [r \in 1 .. m |-> CHOOSE g \in Bijection(1 .. Cardinality(Of(r)), Of(r)) : TRUE]
           D == {d \in (1 .. m) \X (1 .. k) : d[2] <= Cardinality(Of(d[1]))}
           h == [d \in D |-> <<d[1], f[d[1]][d[2]]>>]
<1>1. \A r \in 1 .. m : IsFiniteSet(Of(r)) /\ Cardinality(Of(r)) \in 0 .. k
  <2>1. TAKE r \in 1 .. m
  <2>2. IsFiniteSet(Of(r)) /\ Cardinality(Of(r)) <= k
    OBVIOUS
  <2>3. Cardinality(Of(r)) \in Nat
    BY <2>2, FS_CardinalityType
  <2> QED
    BY <2>2, <2>3
<1>2. ASSUME NEW r \in 1 .. m
      PROVE  /\ f[r] \in [1 .. Cardinality(Of(r)) -> Of(r)]
             /\ \A p \in Of(r) : \E j \in 1 .. Cardinality(Of(r)) : f[r][j] = p
  <2> DEFINE Bij == Bijection(1 .. Cardinality(Of(r)), Of(r))
  <2>1. Bij # {}
    BY <1>1, FS_CardinalityType DEF ExistsBijection
  <2>2. f[r] \in Bij
    BY <2>1
  <2> QED
    BY <2>2 DEF Bijection, Surjection
<1>3. \A r \in 1 .. m : \A p \in Of(r) : p \in B /\ <<r, p>> \in S
  OBVIOUS
<1>4. \A e \in S : e = <<e[1], e[2]>> /\ e[1] \in 1 .. m /\ e[2] \in Of(e[1])
  OBVIOUS
<1> HIDE DEF Of, f
<1>5. h \in [D -> S]
  <2>1. SUFFICES ASSUME NEW d \in D PROVE <<d[1], f[d[1]][d[2]]>> \in S
    OBVIOUS
  <2>2. d[1] \in 1 .. m /\ d[2] \in 1 .. Cardinality(Of(d[1]))
    BY <1>1
  <2> QED
    BY <1>2, <1>3, <2>2
<1>6. \A e \in S : \E d \in D : h[d] = e
  <2>1. TAKE e \in S
  <2>2. PICK j \in 1 .. Cardinality(Of(e[1])) : f[e[1]][j] = e[2]
    BY <1>2, <1>4
  <2>3. <<e[1], j>> \in D
    BY <1>1, <1>4, <2>2
  <2> QED
    BY <1>4, <2>2, <2>3
<1>7. h \in Surjection(D, S)
  BY <1>5, <1>6 DEF Surjection
<1>8. IsFiniteSet(1 .. m) /\ Cardinality(1 .. m) = m /\ IsFiniteSet(1 .. k) /\ Cardinality(1 .. k) = k
  BY FS_Interval
<1>9. IsFiniteSet((1 .. m) \X (1 .. k)) /\ Cardinality((1 .. m) \X (1 .. k)) = m * k
  BY <1>8, FS_Product
<1>10. D \in SUBSET ((1 .. m) \X (1 .. k))
  OBVIOUS
<1> HIDE DEF D, h
<1>11. IsFiniteSet(D) /\ Cardinality(D) <= m * k
  BY <1>9, <1>10, FS_Subset
<1>12. IsFiniteSet(S) /\ Cardinality(S) <= Cardinality(D)
  BY <1>7, <1>11, FS_Surjection
<1>13. Cardinality(D) \in Nat /\ Cardinality(S) \in Nat /\ m * k \in Nat
  BY <1>11, <1>12, FS_CardinalityType
<1> QED
  BY <1>11, <1>12, <1>13

(* However often a task tries again, switches its executor and loses its   *)
(* workers, a round starts at most speculative_parallelism executors, one  *)
(* if they write, and all the rounds together at most max_attempts times   *)
(* as many (temporal_workflows.py, DurableTaskWorkflow.run: route_count    *)
(* and the loop over the rounds).                                          *)
ExecutionsBounded ==
  LET atOnce == IF Mutating THEN 1 ELSE Width IN
  /\ \A r \in 1 .. MaxAttempts : Cardinality(Ran(r)) <= atOnce
  /\ Cardinality(launched) <= MaxAttempts * atOnce

(* The number of executions of a task is bounded by its own limits, for    *)
(* every registry and every engine (max_attempts, speculative_parallelism, *)
(* may_mutate).                                                            *)
THEOREM ExecutionBudget == Spec => []ExecutionsBounded
<1>1. Init => Spread
  BY DEF Init, Spread
<1>2. Inv /\ Inv' /\ Spread /\ [Next]_vars => Spread'
  BY SpreadNext
<1>3. Inv /\ Spread => ExecutionsBounded
  <2> DEFINE atOnce == IF Mutating THEN 1 ELSE Width
  <2>1. SUFFICES ASSUME Inv, Spread PROVE ExecutionsBounded
    OBVIOUS
  <2>2. atOnce \in Nat /\ RouteCount \in Nat /\ RouteCount <= atOnce /\ MaxAttempts \in Nat
    BY DurableTaskAssumption DEF RouteCount, TaskRunInput
  <2>3. \A r \in 1 .. MaxAttempts : Cardinality(Ran(r)) <= atOnce
    <3>1. TAKE r \in 1 .. MaxAttempts
    <3>2. CASE need = None
      <4>1. Ran(r) = {}
        BY <2>1, <3>2 DEF Inv, Protocol, Ran
      <4> QED
        BY <2>2, <4>1, FS_EmptySet
    <3>3. CASE need # None
      <4>1. Cardinality(Ran(r)) <= RouteCount
        BY <2>1, <3>3 DEF Spread
      <4> HIDE DEF atOnce
      <4> QED
        BY <2>2, <4>1, RanFinite
    <3> QED
      BY <3>2, <3>3
  <2> HIDE DEF atOnce
  <2>4. Cardinality(launched) <= MaxAttempts * atOnce
    <3>1. launched \subseteq (1 .. MaxAttempts) \X Providers
      BY <2>1 DEF Inv, TypeOK
    <3>2. \A r \in 1 .. MaxAttempts :
            /\ IsFiniteSet({p \in Providers : <<r, p>> \in launched})
            /\ Cardinality({p \in Providers : <<r, p>> \in launched}) <= atOnce
      BY <2>3, RanFinite DEF Ran
    <3> QED
      BY <2>2, <3>1, <3>2, FewOfEach
  <2> QED
    BY <2>3, <2>4 DEF ExecutionsBounded, atOnce
<1> QED
  BY <1>1, <1>2, <1>3, SpecInv, PTL DEF Spec

-----------------------------------------------------------------------------
(* A child starts for an executor of its provider that meets the           *)
(* requirements of the task.                                               *)
ForSelected ==
  \A p \in Providers : child[p].stage = "starting" =>
    \E i \in DOMAIN Registry :
      /\ Registry[i].provider = p /\ Registry[i].id = child[p].executor
      /\ Satisfies(Registry[i], Requirements)

LEMMA StartSelected ==
  ASSUME Inv, Route, phase' = "executing" PROVE ForSelected'
<1>1. PICK available \in SUBSET DOMAIN Registry :
        Start(select(Registry, Requirements, available, RouteCount))
  BY DEF Route, Close
<1> DEFINE chosen == select(Registry, Requirements, available, RouteCount)
<1>2. chosen \in SUBSET DOMAIN Registry /\ \A i \in chosen : Satisfies(Registry[i], Requirements)
  BY SelectCandidates DEF select, Candidates
<1> HIDE DEF chosen
<1>3. ASSUME NEW p \in Providers, child'[p].stage = "starting"
      PROVE  \E i \in chosen : Registry[i].provider = p /\ Registry[i].id = child'[p].executor
  <2>1. child'[p] = IF \E i \in chosen : Registry[i].provider = p
                    THEN [Idle EXCEPT !.stage = "starting", !.executor = Selected(chosen, p)]
                    ELSE Idle
    BY <1>1 DEF Start, chosen
  <2>2. \E i \in chosen : Registry[i].provider = p
    <3>1. Idle.stage = "none"
      BY DEF Idle
    <3> QED
      BY <1>3, <2>1, <3>1, Zenon
  <2> DEFINE x == Selected(chosen, p)
  <2>3. child'[p] = [Idle EXCEPT !.stage = "starting", !.executor = x]
    BY <2>1, <2>2, Zenon
  <2>4. PICK i \in chosen : Registry[i].provider = p /\ x = Registry[i].id
    BY <1>2, <2>2, SelectedIs DEF Inv
  <2> HIDE DEF x
  <2>5. child'[p].executor = x
    BY <2>3 DEF Idle
  <2> QED
    BY <2>4, <2>5
<1>4. Requirements' = Requirements
  BY Zenon DEF Route, Requirements
<1> QED
  BY <1>2, <1>3, <1>4 DEF ForSelected

LEMMA SelectedNext == ASSUME Inv, Inv', ForSelected, [Next]_vars PROVE ForSelected'
<1>1. CASE phase' # "executing"
  <2>1. \A p \in Providers : child'[p].stage = "none"
    BY <1>1 DEF Inv, Protocol, Active
  <2> QED
    BY <2>1 DEF ForSelected
<1>2. CASE Route /\ phase' = "executing"
  BY <1>2, StartSelected
<1>3. ASSUME NEW p \in Providers, ChildStep(p) PROVE ForSelected'
  <2>1. MovesOn(p) /\ UNCHANGED <<excluded, preferred>> /\ child[p].stage \in DOMAIN StageRank
    BY <1>3, ChildMoves DEF ChildStep, workflow, Inv, TypeOK, Children, StageRank
  <2>2. child'[p].stage # "starting"
    BY <2>1 DEF MovesOn, StageRank
  <2>3. Requirements' = Requirements
    BY <2>1, Zenon DEF Requirements
  <2> QED
    BY <2>1, <2>2, <2>3 DEF MovesOn, ForSelected
<1>4. CASE OrphanEnds \/ SendReview \/ ReviewSignal \/ UNCHANGED vars
  <2>1. UNCHANGED <<child, excluded, preferred>>
    BY <1>4 DEF OrphanEnds, SendReview, ReviewSignal, workflow, vars
  <2>2. Requirements' = Requirements
    BY <2>1, Zenon DEF Requirements
  <2> QED
    BY <2>1, <2>2 DEF ForSelected
<1>5. CASE Assess \/ ResumeReview
  BY <1>1, <1>5 DEF Assess, ResumeReview, WaitForReview, StartRound, Close
<1>6. CASE Decide
  <2>1. PICK p \in Active : /\ child[p].stage = "done" /\ Act(Chosen(p))
                            /\ best' = IF phase' = "routing" THEN None ELSE Chosen(p)
    BY <1>6 DEF Decide
  <2>2. phase = "executing"
    BY <1>6 DEF Decide
  <2> QED
    BY <1>1, <2>1, <2>2, ActCases
<1> QED
  BY <1>1, <1>2, <1>3, <1>4, <1>5, <1>6 DEF Next, Progress

LEMMA SelectedInv == Spec => []ForSelected
<1>1. Init => ForSelected
  BY DEF Init, ForSelected, Idle
<1> QED
  BY <1>1, SelectedNext, SpecInv, PTL DEF Spec

(* "Executor selection is capability-based" (docs/TEMPORAL_JEV.md, 6) as   *)
(* far as the workflow goes: what it starts was selected for what the task *)
(* requires, and is not a provider the task was switched away from.        *)
THEOREM SelectionMeetsRequirements == Spec => []ForSelected
BY SelectedInv

(* What runs for it is that executor when the id of every headless         *)
(* executor is its provider and it has a backend of its own: then looking  *)
(* the executor up by the provider (temporal_activities.py,                *)
(* run_execution_activity) finds the one that was selected.  The registry  *)
(* of the finding has an executor of which this is not so.                 *)
FoundByProvider ==
  \A i \in DOMAIN Registry : Registry[i].headless =>
    Registry[i].id = Registry[i].provider /\ Registry[i].backend # "none"

(* Under that condition on the registry, and for any task, the executor    *)
(* that runs is the one that was selected.                                 *)
THEOREM SelectedRuns == ASSUME FoundByProvider PROVE Spec => []SelectedExecutorRuns
<1>1. ForSelected => SelectedExecutorRuns
  BY DEF ForSelected, SelectedExecutorRuns, FoundByProvider, Registered, Satisfies, Requirements
<1> QED
  BY <1>1, SelectedInv, PTL

(* It is so of the executors that the workers come with.                   *)
THEOREM DefaultsRun ==
  ASSUME Registry = default_execution_registry PROVE Spec => []SelectedExecutorRuns
<1>1. FoundByProvider
  BY DEF FoundByProvider, default_execution_registry, builtin, scripted, claude, codex, cursor, grok
<1> QED
  BY <1>1, SelectedRuns
-----------------------------------------------------------------------------
(* The refinement: the executions of module Execution, seen in the         *)
(* children of a durable task.                                             *)

(* Nothing is complete that was not verified. *)
Unverified ==
  \A p \in Providers : child[p].stage \notin {"judging", "done"} => ~child[p].complete

LEMMA SeenType == ASSUME TypeOK, NEW p \in Providers PROVE Seen(p) \in Work!Executions
<1>1. child[p] \in Children
  BY DEF TypeOK
<1> QED
  BY <1>1 DEF Children, Seen, Work!Executions

LEMMA SeenFresh ==
  ASSUME Unverified, NEW p \in Providers, child[p].stage = "none"
  PROVE  /\ Seen(p).stage = "idle" /\ ~Seen(p).launched /\ ~Seen(p).alive
         /\ ~Seen(p).complete
BY DEF Unverified, Seen

(* A child that does not move. *)
LEMMA SeenSame ==
  ASSUME NEW p \in Providers, child'[p] = child[p],
         child[p].stage # "none" =>
           /\ round' = round
           /\ <<round, p>> \in launched' <=> <<round, p>> \in launched
           /\ <<round, p>> \in alive' <=> <<round, p>> \in alive,
         Seen(p) \in Work!Executions, Seen(p)' \in Work!Executions
  PROVE  Seen(p)' = Seen(p)
<1>1. /\ Seen(p)'.stage = Seen(p).stage
      /\ Seen(p)'.launched <=> Seen(p).launched
      /\ Seen(p)'.alive <=> Seen(p).alive
      /\ Seen(p)'.complete = Seen(p).complete
  BY DEF Seen
<1> HIDE DEF Seen
<1> QED
  BY <1>1 DEF Work!Executions

LEMMA UnverifiedNext ==
  ASSUME Inv, Unverified, [Next]_vars PROVE Unverified'
<1>1. CASE UNCHANGED child
  BY <1>1 DEF Unverified
<1>2. ASSUME NEW p \in Providers, ChildStep(p) PROVE Unverified'
  <2>1. ASSUME NEW c, Becomes(p, c), c.stage \notin {"judging", "done"} => ~c.complete
        PROVE  Unverified'
    BY <2>1 DEF Becomes, Unverified, Inv, TypeOK
  <2>2. child[p] \in Children
    BY <1>2 DEF Inv, TypeOK
  <2>3. FailedAttempt.complete = FALSE
    BY DEF FailedAttempt, Idle
  <2>4. CASE Becomes(p, FailedAttempt)
    BY <2>1, <2>3, <2>4
  <2>5. CASE ExecutionStarts(p)
    <3>1. [child[p] EXCEPT !.stage = "executing"].complete = child[p].complete
      BY <2>2 DEF Children
    <3> QED
      BY <1>2, <2>1, <2>5, <3>1 DEF ExecutionStarts, Unverified
  <2>6. CASE child[p].stage = "executing" /\ \E rc0 \in BOOLEAN :
               Becomes(p, [child[p] EXCEPT !.stage = "verifying", !.exit0 = rc0])
    <3>1. PICK rc0 \in BOOLEAN :
            Becomes(p, [child[p] EXCEPT !.stage = "verifying", !.exit0 = rc0])
      BY <2>6
    <3>2. [child[p] EXCEPT !.stage = "verifying", !.exit0 = rc0].complete = child[p].complete
      BY <2>2 DEF Children
    <3> QED
      BY <1>2, <2>1, <2>6, <3>1, <3>2 DEF Unverified
  <2>7. CASE \E complete \in BOOLEAN :
               Becomes(p, [child[p] EXCEPT !.stage = "judging", !.complete = complete])
    <3>1. PICK complete \in BOOLEAN :
            Becomes(p, [child[p] EXCEPT !.stage = "judging", !.complete = complete])
      BY <2>7
    <3>2. [child[p] EXCEPT !.stage = "judging", !.complete = complete].stage = "judging"
      BY <2>2 DEF Children
    <3> QED
      BY <2>1, <3>1, <3>2
  <2>8. CASE \E j \in Judgements[need.risk][child[p].exit0][child[p].complete] :
               Becomes(p, [child[p] EXCEPT !.stage = "done", !.ready = j.ready,
                             !.review = j.review, !.next = j.next])
    <3>1. PICK j : Becomes(p, [child[p] EXCEPT !.stage = "done", !.ready = j.ready,
                                 !.review = j.review, !.next = j.next])
      BY <2>8
    <3>2. [child[p] EXCEPT !.stage = "done", !.ready = j.ready,
             !.review = j.review, !.next = j.next].stage = "done"
      BY <2>2 DEF Children
    <3> QED
      BY <2>1, <3>1, <3>2
  <2> QED
    BY <1>2, <2>4, <2>5, <2>6, <2>7, <2>8
    DEF ChildStep, ExecutionRefused, ExecutionEnds, ExecutionLost, Verify, AssessResult
<1>3. CASE Route
  <2>1. SUFFICES ASSUME NEW p \in Providers, NEW chosen, Start(chosen)
                 PROVE  ~child'[p].complete
    BY <1>1, <1>3 DEF Route, Unverified
  <2>2. \/ child'[p] = Idle
        \/ child'[p] = [Idle EXCEPT !.stage = "starting", !.executor = Selected(chosen, p)]
    BY <2>1 DEF Start
  <2>3. /\ Idle.complete = FALSE
        /\ \A x : [Idle EXCEPT !.stage = "starting", !.executor = x].complete = FALSE
    BY DEF Idle
  <2> QED
    BY <2>2, <2>3
<1>4. CASE Decide
  BY <1>4 DEF Decide, Idle, Unverified
<1> QED
  BY <1>1, <1>2, <1>3, <1>4
  DEF Next, Progress, Assess, ResumeReview, OrphanEnds, SendReview, ReviewSignal, vars

(* A child's own step, to its own execution. *)
LEMMA OwnMove ==
  ASSUME Inv, Unverified, NEW p \in Providers, ChildStep(p),
         Seen(p) \in Work!Executions, Seen(p)' \in Work!Executions
  PROVE  Seen(p)' = Seen(p) \/ Work!Moves(Seen(p), Seen(p)')
<1> DEFINE e == Seen(p)  n == Seen(p)'
<1>1. /\ child[p] \in Children /\ round' = round /\ alive \subseteq launched
      /\ \A c : Becomes(p, c) => child'[p] = c
      /\ FailedAttempt.stage = "done" /\ FailedAttempt.complete = FALSE
  BY DEF Inv, TypeOK, Becomes, FailedAttempt, Idle, ChildStep, workflow
<1>2. CASE ExecutionStarts(p)
  <2>1. /\ child[p].stage = "starting" /\ <<round, p>> \notin launched
        /\ child'[p] = [child[p] EXCEPT !.stage = "executing"]
        /\ <<round, p>> \in alive' /\ <<round, p>> \in launched'
    BY <1>1, <1>2 DEF ExecutionStarts, Inv, ThisFar
  <2>2. child'[p].stage = "executing" /\ child'[p].complete = child[p].complete
    BY <1>1, <2>1 DEF Children
  <2>3. /\ e.stage = "starting" /\ ~e.launched
        /\ n.stage = "executing" /\ n.launched /\ n.alive /\ n.complete = e.complete
    BY <1>1, <2>1, <2>2 DEF Seen
  <2> HIDE DEF Seen
  <2>4. n = [e EXCEPT !.stage = "executing", !.launched = TRUE, !.alive = TRUE]
    BY <2>3 DEF Work!Executions
  <2> QED
    BY <2>3, <2>4, Zenon DEF Work!Moves, Work!Launches
<1>3. CASE (ExecutionRefused(p) \/ ExecutionLost(p)) /\ Becomes(p, FailedAttempt)
  <2>1. /\ child[p].stage \in {"starting", "executing"} /\ ~child[p].complete
        /\ child'[p] = FailedAttempt /\ UNCHANGED <<alive, launched>>
    BY <1>1, <1>3 DEF ExecutionRefused, ExecutionLost, outside, Unverified
  <2>2. /\ e.stage \in {"starting", "executing"} /\ n.stage = "over"
        /\ (n.launched <=> e.launched) /\ (n.alive <=> e.alive) /\ (n.complete <=> e.complete)
    BY <1>1, <2>1 DEF Seen
  <2> HIDE DEF Seen
  <2>3. n = [e EXCEPT !.stage = "over"]
    BY <2>2 DEF Work!Executions
  <2> QED
    BY <2>2, <2>3, Zenon DEF Work!Moves, Work!Fails
<1>4. CASE ExecutionEnds(p)
  <2>1. /\ child[p].stage = "executing" /\ ~child[p].complete
        /\ <<round, p>> \notin alive' /\ launched' = launched
    BY <1>4 DEF ExecutionEnds, Unverified
  <2>2. child'[p].stage \in {"verifying", "done"} /\ ~child'[p].complete
    <3>1. CASE Becomes(p, FailedAttempt)
      BY <1>1, <3>1
    <3>2. CASE \E rc0 \in BOOLEAN : Becomes(p, [child[p] EXCEPT !.stage = "verifying", !.exit0 = rc0])
      <4>1. PICK rc0 \in BOOLEAN : child'[p] = [child[p] EXCEPT !.stage = "verifying", !.exit0 = rc0]
        BY <1>1, <3>2
      <4> QED
        BY <1>1, <2>1, <4>1 DEF Children
    <3> QED
      BY <1>4, <3>1, <3>2 DEF ExecutionEnds
  <2>3. /\ e.stage = "executing" /\ n.stage \in {"verifying", "over"}
        /\ (n.launched <=> e.launched) /\ ~n.alive /\ (n.complete <=> e.complete)
    BY <1>1, <2>1, <2>2 DEF Seen
  <2> HIDE DEF Seen
  <2>4. n = [e EXCEPT !.stage = n.stage, !.alive = FALSE]
    BY <2>3 DEF Work!Executions
  <2>5. Work!Ends(e, n)
    <3> HIDE DEF e, n
    <3> QED
      BY <2>3, <2>4 DEF Work!Ends
  <2> QED
    BY <2>5, Zenon DEF Work!Moves
<1>5. CASE Verify(p)
  <2>1. child[p].stage = "verifying" /\ UNCHANGED <<alive, launched>>
    BY <1>5 DEF Verify, outside
  <2>2. child'[p].stage \in {"judging", "done"}
    <3>1. CASE Becomes(p, FailedAttempt)
      BY <1>1, <3>1
    <3>2. CASE \E complete \in BOOLEAN :
                 Becomes(p, [child[p] EXCEPT !.stage = "judging", !.complete = complete])
      <4>1. PICK complete \in BOOLEAN :
              child'[p] = [child[p] EXCEPT !.stage = "judging", !.complete = complete]
        BY <1>1, <3>2
      <4> QED
        BY <1>1, <4>1 DEF Children
    <3> QED
      BY <1>5, <3>1, <3>2 DEF Verify
  <2>3. /\ e.stage = "verifying" /\ n.stage = "over"
        /\ (n.launched <=> e.launched) /\ (n.alive <=> e.alive)
    BY <1>1, <2>1, <2>2 DEF Seen
  <2> HIDE DEF Seen
  <2>4. n = [e EXCEPT !.stage = "over", !.complete = n.complete] /\ n.complete \in BOOLEAN
    BY <2>3 DEF Work!Executions
  <2>5. Work!Verified(e, n)
    <3> HIDE DEF e, n
    <3> QED
      BY <2>3, <2>4 DEF Work!Verified
  <2> QED
    BY <2>5, Zenon DEF Work!Moves
<1>6. CASE AssessResult(p)
  <2>1. child[p].stage = "judging" /\ UNCHANGED <<alive, launched>>
    BY <1>6 DEF AssessResult, outside
  <2>2. child'[p].stage = "done" /\ (child'[p].complete = child[p].complete \/ ~child'[p].complete)
    <3>1. CASE Becomes(p, FailedAttempt)
      BY <1>1, <3>1
    <3>2. CASE \E j \in Judgements[need.risk][child[p].exit0][child[p].complete] :
                 Becomes(p, [child[p] EXCEPT !.stage = "done", !.ready = j.ready,
                               !.review = j.review, !.next = j.next])
      <4>1. PICK j : child'[p] = [child[p] EXCEPT !.stage = "done", !.ready = j.ready,
                                    !.review = j.review, !.next = j.next]
        BY <1>1, <3>2
      <4> QED
        BY <1>1, <4>1 DEF Children
    <3> QED
      BY <1>6, <3>1, <3>2 DEF AssessResult
  <2>3. /\ e.stage = "over" /\ n.stage = "over"
        /\ (n.launched <=> e.launched) /\ (n.alive <=> e.alive)
        /\ n.complete = e.complete \/ ~n.complete
    BY <1>1, <2>1, <2>2 DEF Seen
  <2> HIDE DEF Seen
  <2>4. n = e \/ n = [e EXCEPT !.complete = FALSE]
    BY <2>3 DEF Work!Executions
  <2> QED
    BY <2>3, <2>4, Zenon DEF Work!Moves, Work!Withdrawn
<1> QED
  BY <1>2, <1>3, <1>4, <1>5, <1>6 DEF ChildStep, ExecutionRefused, ExecutionLost

(* A child that was not there, and is not there. *)
LEMMA IdleSame ==
  ASSUME Unverified, Unverified', NEW p \in Providers,
         child[p].stage = "none", child'[p].stage = "none",
         Seen(p) \in Work!Executions, Seen(p)' \in Work!Executions
  PROVE  Seen(p)' = Seen(p)
<1>1. /\ Seen(p)'.stage = Seen(p).stage
      /\ Seen(p)'.launched <=> Seen(p).launched
      /\ Seen(p)'.alive <=> Seen(p).alive
      /\ Seen(p)'.complete <=> Seen(p).complete
  BY DEF Seen, Unverified
<1> HIDE DEF Seen
<1> QED
  BY <1>1 DEF Work!Executions

(* A round begins: what was launched was launched in earlier ones. *)
LEMMA RouteMove ==
  ASSUME Inv, Unverified, Unverified', NEW p \in Providers, Route,
         Seen(p) \in Work!Executions, Seen(p)' \in Work!Executions
  PROVE  Seen(p)' = Seen(p) \/ Work!Moves(Seen(p), Seen(p)')
<1> DEFINE e == Seen(p)  n == Seen(p)'
<1>1. /\ phase = "routing" /\ child[p].stage = "none" /\ round' = round /\ round \in Int
      /\ alive' = alive /\ launched' = launched /\ alive \subseteq launched
      /\ \A x \in launched : x[1] < round
  BY DurableTaskAssumption
  DEF Route, outside, Inv, TypeOK, Protocol, Active, ThisFar, TaskRunInput
<1>2. <<round, p>> \notin launched /\ <<round, p>> \notin alive
  BY <1>1
<1>3. CASE child'[p].stage = "none"
  BY <1>1, <1>3, IdleSame
<1>4. CASE child'[p].stage # "none"
  <2>1. child'[p].stage = "starting"
    <3>1. PICK chosen : Start(chosen)
      BY <1>1, <1>4 DEF Route
    <3>2. \/ child'[p] = Idle
          \/ child'[p] = [Idle EXCEPT !.stage = "starting", !.executor = Selected(chosen, p)]
      BY <3>1 DEF Start
    <3>3. Idle.stage = "none" /\ \A x : [Idle EXCEPT !.stage = "starting", !.executor = x].stage = "starting"
      BY DEF Idle
    <3> QED
      BY <1>4, <3>2, <3>3
  <2>2. ~child'[p].complete
    BY <2>1 DEF Unverified
  <2>3. /\ e.stage = "idle" /\ n.stage = "starting"
        /\ ~n.launched /\ ~n.alive /\ ~n.complete
    BY <1>1, <1>2, <2>1, <2>2 DEF Seen
  <2> HIDE DEF Seen
  <2>4. n = Work!Fresh("starting")
    BY <2>3 DEF Work!Executions, Work!Fresh
  <2> QED
    BY <2>3, <2>4, Zenon DEF Work!Moves, Work!Begins
<1> QED
  BY <1>3, <1>4

(* The round is over, and nothing of it is kept but the attempt that was   *)
(* chosen.                                                                 *)
LEMMA DecideMove ==
  ASSUME Inv, Unverified, Unverified', NEW p \in Providers, Decide,
         Seen(p) \in Work!Executions, Seen(p)' \in Work!Executions
  PROVE  Seen(p)' = Seen(p) \/ Work!Moves(Seen(p), Seen(p)')
<1> DEFINE e == Seen(p)  n == Seen(p)'
<1>1. child'[p].stage = "none" /\ (child[p].stage = "none" \/ child[p].stage = "done")
  BY DEF Decide, Active, Idle
<1>2. CASE child[p].stage = "none"
  BY <1>1, <1>2, IdleSame
<1>3. CASE child[p].stage = "done"
  <2>1. e.stage = "over" /\ n.stage = "idle" /\ ~n.launched /\ ~n.alive /\ ~n.complete
    BY <1>1, <1>3 DEF Seen, Unverified
  <2> HIDE DEF Seen
  <2>2. n = Work!Fresh("idle")
    BY <2>1 DEF Work!Executions, Work!Fresh
  <2> QED
    BY <2>1, <2>2, Zenon DEF Work!Moves, Work!Forgotten
<1> QED
  BY <1>1, <1>2, <1>3

(* A process that was lost with its worker ends.  It is no child's that    *)
(* executes.                                                               *)
LEMMA OrphanMove ==
  ASSUME NEW p \in Providers, OrphanEnds,
         Seen(p) \in Work!Executions, Seen(p)' \in Work!Executions
  PROVE  Seen(p)' = Seen(p) \/ Work!Moves(Seen(p), Seen(p)')
<1> DEFINE e == Seen(p)  n == Seen(p)'
<1>1. child' = child /\ round' = round /\ launched' = launched
  BY DEF OrphanEnds, workflow
<1>2. PICK x \in alive : alive' = alive \ {x}
  BY DEF OrphanEnds
<1>3. CASE x = <<round, p>> /\ child[p].stage # "none"
  <2>1. /\ n.stage = e.stage /\ (n.launched <=> e.launched) /\ n.complete = e.complete
        /\ e.alive /\ ~n.alive
    BY <1>1, <1>2, <1>3 DEF Seen
  <2> HIDE DEF Seen
  <2>2. n = [e EXCEPT !.alive = FALSE]
    BY <2>1 DEF Work!Executions
  <2> QED
    BY <2>1, <2>2, Zenon DEF Work!Moves, Work!Exits
<1>4. CASE ~(x = <<round, p>> /\ child[p].stage # "none")
  BY <1>1, <1>2, <1>4, SeenSame
<1> QED
  BY <1>3, <1>4

(* A step moves every execution at most once.                              *)
LEMMA SeenMoves ==
  ASSUME Inv, Unverified, Unverified', NEW p \in Providers, [Next]_vars,
         Seen(p) \in Work!Executions, Seen(p)' \in Work!Executions
  PROVE  Seen(p)' = Seen(p) \/ Work!Moves(Seen(p), Seen(p)')
<1>1. ASSUME NEW q \in Providers, ChildStep(q)
      PROVE  Seen(p)' = Seen(p) \/ Work!Moves(Seen(p), Seen(p)')
  <2>1. CASE q = p
    BY <1>1, <2>1, OwnMove
  <2>2. CASE q # p
    <3>1. child'[p] = child[p] /\ round' = round
      BY <1>1, <2>2
      DEF Inv, TypeOK, ChildStep, workflow, Becomes, ExecutionRefused, ExecutionStarts,
          ExecutionEnds, ExecutionLost, Verify, AssessResult
    <3>2. /\ <<round, p>> \in launched' <=> <<round, p>> \in launched
          /\ <<round, p>> \in alive' <=> <<round, p>> \in alive
      <4>1. /\ \/ launched' = launched
               \/ launched' = launched \cup {<<round, q>>}
            /\ \/ alive' = alive
               \/ alive' = alive \cup {<<round, q>>}
               \/ alive' = alive \ {<<round, q>>}
        BY <1>1 DEF ChildStep, outside, ExecutionRefused, ExecutionStarts,
                    ExecutionEnds, ExecutionLost, Verify, AssessResult
      <4>2. <<round, p>> # <<round, q>>
        BY <2>2
      <4> QED
        BY <4>1, <4>2
    <3> QED
      BY <3>1, <3>2, SeenSame
  <2> QED
    BY <2>1, <2>2
<1>2. ASSUME UNCHANGED <<child, alive, launched>>, phase # "executing" \/ round' = round
      PROVE  Seen(p)' = Seen(p)
  <2>1. child[p].stage # "none" => round' = round
    BY <1>2 DEF Inv, Protocol, Active
  <2> QED
    BY <1>2, <2>1, SeenSame
<1>3. CASE Assess
  BY <1>2, <1>3 DEF Assess, outside
<1>4. CASE ResumeReview
  BY <1>2, <1>4 DEF ResumeReview, outside
<1>5. CASE SendReview \/ ReviewSignal \/ UNCHANGED vars
  BY <1>2, <1>5 DEF SendReview, ReviewSignal, vars, outside, workflow
<1> QED
  BY <1>1, <1>3, <1>4, <1>5, RouteMove, DecideMove, OrphanMove DEF Next, Progress

(* The children keep what module Execution promises of them.  The step of  *)
(* a child, a route, a decision and an orphan's end each map to moves of   *)
(* the executions they are about; all else leaves every execution as it    *)
(* was.                                                                    *)
THEOREM ImplementsExecution == Spec => KeepsExecution
<1> DEFINE Typed == \A p \in Providers : Seen(p) \in Work!Executions
<1>1. Init => Work!Init /\ Unverified
  <2>1. SUFFICES ASSUME Init PROVE Work!Init /\ Unverified
    OBVIOUS
  <2>2. \A p \in Providers : child[p].stage = "none" /\ child[p].complete = FALSE
    BY <2>1 DEF Init, Idle
  <2>3. \A p \in Providers : Seen(p) = Work!Fresh("idle")
    BY <2>2 DEF Seen, Work!Fresh
  <2> HIDE DEF Seen
  <2> QED
    BY <2>2, <2>3 DEF Work!Init, Unverified
<1>2. Inv => Typed
  BY SeenType DEF Inv
<1>3. Inv /\ Unverified /\ [Next]_vars => Unverified'
  BY UnverifiedNext
<1>4. Inv /\ Unverified /\ Unverified' /\ [Next]_vars /\ Typed /\ Typed' => [Work!Next]_Work!vars
  <2>1. SUFFICES ASSUME Inv, Unverified, Unverified', [Next]_vars, Typed, Typed' PROVE Work!Next
    OBVIOUS
  <2>2. \A p \in Providers : Seen(p)' \in Work!Executions
    BY <2>1
  <2>3. \A p \in Providers : Seen(p)' = Seen(p) \/ Work!Moves(Seen(p), Seen(p)')
    BY <2>1, <2>2, SeenMoves
  <2> HIDE DEF Seen, Typed
  <2> QED
    BY <2>2, <2>3 DEF Work!Next
<1> HIDE DEF Typed
<1> QED
  BY <1>1, <1>2, <1>3, <1>4, SpecInv, PTL DEF Spec, KeepsExecution, Work!Spec

(* What a move keeps of one execution. *)
LEMMA MoveKeeps ==
  ASSUME NEW e \in Work!Executions, NEW n \in Work!Executions, n = e \/ Work!Moves(e, n),
         e.stage = "executing" => e.launched,
         e.stage = "verifying" \/ e.complete => e.launched /\ ~e.alive
  PROVE  /\ n.stage = "executing" => n.launched
         /\ n.stage = "verifying" \/ n.complete => n.launched /\ ~n.alive
<1>1. CASE n = e
  BY <1>1
<1>2. CASE Work!Begins(e, n) \/ Work!Forgotten(e, n)
  BY <1>2 DEF Work!Fresh, Work!Begins, Work!Forgotten
<1>3. CASE Work!Launches(e, n)
  BY <1>3 DEF Work!Executions, Work!Launches
<1>4. CASE Work!LaunchesLate(e, n)
  BY <1>4 DEF Work!Executions, Work!LaunchesLate
<1>5. CASE Work!Exits(e, n)
  BY <1>5 DEF Work!Executions, Work!Exits
<1>6. CASE Work!Ends(e, n)
  <2>1. PICK s \in {"verifying", "over"} : n = [e EXCEPT !.stage = s, !.alive = FALSE]
    BY <1>6 DEF Work!Ends
  <2> QED
    BY <1>6, <2>1 DEF Work!Executions, Work!Ends
<1>7. CASE Work!Fails(e, n)
  BY <1>7 DEF Work!Executions, Work!Fails
<1>8. CASE Work!Canceled(e, n)
  BY <1>8 DEF Work!Executions, Work!Canceled
<1>9. CASE Work!Verified(e, n)
  <2>1. PICK c \in BOOLEAN : n = [e EXCEPT !.stage = "over", !.complete = c]
    BY <1>9 DEF Work!Verified
  <2> QED
    BY <1>9, <2>1 DEF Work!Executions, Work!Verified
<1>10. CASE Work!Withdrawn(e, n)
  BY <1>10 DEF Work!Executions, Work!Withdrawn
<1> QED
  BY <1>1, <1>2, <1>3, <1>4, <1>5, <1>6, <1>7, <1>8, <1>9, <1>10, Zenon DEF Work!Moves

(* No child verifies an execution, and none has a complete one to be       *)
(* judged, unless it was launched in this round and its process is gone:   *)
(* evidence is never taken of a tree that is still being written.          *)
THEOREM VerifiedAreGone == Spec => []Work!Promise
<1> DEFINE Kept(e) == /\ e.stage = "executing" => e.launched
                      /\ e.stage = "verifying" \/ e.complete => e.launched /\ ~e.alive
           AllKept == \A p \in Providers : Kept(Seen(p))
           Typed == \A p \in Providers : Seen(p) \in Work!Executions
<1>1. Init => AllKept
  <2>1. SUFFICES ASSUME Init, NEW p \in Providers PROVE Kept(Seen(p))
    BY DEF AllKept
  <2>2. child[p].stage = "none" /\ child[p].complete = FALSE
    BY <2>1 DEF Init, Idle
  <2> QED
    BY <2>2 DEF Seen
<1>2. Inv => Typed
  BY SeenType DEF Inv
<1>3. Typed /\ Typed' /\ AllKept /\ [Work!Next]_Work!vars => AllKept'
  <2>1. SUFFICES ASSUME Typed, Typed', AllKept, [Work!Next]_Work!vars, NEW p \in Providers
                 PROVE  Kept(Seen(p)')
    BY DEF AllKept
  <2>2. Seen(p)' = Seen(p) \/ Work!Moves(Seen(p), Seen(p)')
    <3>1. CASE Work!Next
      <4> HIDE DEF Seen
      <4> QED
        BY <3>1, Zenon DEF Work!Next
    <3>2. CASE UNCHANGED Work!vars
      <4>1. [q \in Providers |-> Seen(q)]' = [q \in Providers |-> Seen(q)]
        BY <3>2 DEF Work!vars
      <4> HIDE DEF Seen
      <4> QED
        BY <4>1
    <3> QED
      BY <2>1, <3>1, <3>2
  <2>3. Seen(p) \in Work!Executions /\ Seen(p)' \in Work!Executions /\ Kept(Seen(p))
    BY <2>1
  <2> HIDE DEF Seen
  <2> QED
    BY <2>2, <2>3, MoveKeeps
<1>4. AllKept => Work!Promise
  <2> HIDE DEF Seen
  <2> QED
    BY DEF Work!Promise
<1> HIDE DEF Typed, AllKept
<1> QED
  BY <1>1, <1>2, <1>3, <1>4, SpecInv, ImplementsExecution, PTL
  DEF Spec, KeepsExecution, Work!Spec
=============================================================================
