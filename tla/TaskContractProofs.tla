------------------------- MODULE TaskContractProofs -------------------------
(* What the steps of TaskContract add up to. *)
EXTENDS TaskContract, TLAPS

(* A completed task has a result that is ready, an open gate if the        *)
(* assessment asked for one, and an approved result if the assessment or   *)
(* the result did: completion_gate of intelligence.py, whatever happens    *)
(* after the task has closed.                                              *)
THEOREM KeepsPromise ==
  ASSUME None # "complete"
  PROVE  Spec => []Promise
<1>1. Init => Promise
  BY DEF Init, Promise
<1>2. ASSUME Promise, [Next]_vars
      PROVE  Promise'
  <2> USE DEF Promise
  <2>1. CASE Assess
    BY <1>2, <2>1 DEF Assess
  <2>2. CASE OpenGate
    BY <1>2, <2>2 DEF OpenGate, Open
  <2>3. CASE Judge
    BY <1>2, <2>3 DEF Judge, Open
  <2>4. CASE Complete
    <3>1. PICK j \in Judgements, approved \in BOOLEAN :
            /\ completion_gate(j, approved) = "complete"
            /\ judged' = j
            /\ granted' = IF approved THEN granted \cup {"result"} ELSE granted
      BY <2>4 DEF Complete
    <3>2. j.ready
      BY <3>1 DEF completion_gate
    <3>3. need.review \/ j.review => approved
      BY <3>1, <3>2 DEF completion_gate
    <3>4. need' = need /\ (need.gate => "gate" \in granted)
      BY <2>4 DEF Complete, GateOpen
    <3> QED
      BY <3>1, <3>2, <3>3, <3>4
  <2>5. CASE Stop
    BY <1>2, <2>5 DEF Stop
  <2>6. CASE UNCHANGED vars
    BY <1>2, <2>6 DEF vars
  <2> QED
    BY <1>2, <2>1, <2>2, <2>3, <2>4, <2>5, <2>6 DEF Next
<1> QED
  BY <1>1, <1>2, PTL DEF Spec
=============================================================================
