---------------------------- MODULE TaskContract ----------------------------
(***************************************************************************)
(* What a durable task promises whoever submits it, however it is          *)
(* executed: nothing runs before a gate the assessment demands is opened,  *)
(* and a task completes only on a result that passed its checks and, where *)
(* the task or the result calls for it, a review of that result.  It is    *)
(* the completion_gate of src/durable_threads/intelligence.py, whose       *)
(* docstring reads "An approval cannot replace verification or waive a     *)
(* task-level review", over the life of a task.  DurableTask implements    *)
(* this module.                                                            *)
(***************************************************************************)

CONSTANT None   \* not known yet

VARIABLES
  need,      \* what the assessment demands: [gate, review], or None
  granted,   \* the approvals consumed: "gate", "result"
  judged,    \* the result chosen last: [ready, review], or None
  outcome    \* the status the task closed with, or None

vars == <<need, granted, judged, outcome>>

Needs == [gate : BOOLEAN, review : BOOLEAN]
Judgements == [ready : BOOLEAN, review : BOOLEAN]

(* An approval is given to a task that is open. *)
Open == outcome = None /\ need # None

completion_gate(j, approved) ==
  IF ~j.ready THEN "unverified"
  ELSE IF (need.review \/ j.review) /\ ~approved THEN "review_required"
  ELSE "complete"

Init == need = None /\ granted = {} /\ judged = None /\ outcome = None

Assess ==
  /\ outcome = None /\ need = None
  /\ need' \in Needs
  /\ UNCHANGED <<granted, judged, outcome>>

OpenGate ==
  /\ Open /\ judged = None
  /\ granted' = granted \cup {"gate"}
  /\ UNCHANGED <<need, judged, outcome>>

GateOpen == need.gate => "gate" \in granted

(* A result is chosen and kept, to be reviewed or to be improved on. *)
Judge ==
  /\ Open /\ GateOpen
  /\ judged' \in Judgements
  /\ UNCHANGED <<need, granted, outcome>>

(* The task completes on a result j; only one that was already chosen can  *)
(* have been approved.                                                     *)
Complete ==
  /\ Open /\ GateOpen
  /\ \E j \in Judgements, approved \in BOOLEAN :
       /\ approved => j = judged
       /\ completion_gate(j, approved) = "complete"
       /\ judged' = j
       /\ granted' = IF approved THEN granted \cup {"result"} ELSE granted
  /\ outcome' = "complete"
  /\ UNCHANGED need

Stop ==
  /\ outcome = None
  /\ outcome' \in {"rejected", "review_required", "failed", "error"}
  /\ judged' # judged => Open /\ GateOpen /\ judged' \in Judgements
  /\ UNCHANGED <<need, granted>>

Next == Assess \/ OpenGate \/ Judge \/ Complete \/ Stop

Spec == Init /\ [][Next]_vars

(* The promise as one invariant: completion_gate looked at when the task   *)
(* has completed, with every approval it took.                             *)
Promise ==
  outcome = "complete" =>
    /\ judged \in Judgements /\ judged.ready
    /\ need.gate => "gate" \in granted
    /\ need.review \/ judged.review => "result" \in granted
=============================================================================
