----------------------- MODULE LiveStepControlProofs -----------------------
(***************************************************************************)
(* Proofs about module LiveStepControl, for any number of decisions and    *)
(* efforts and any budget of receipts.                                     *)
(***************************************************************************)
EXTENDS LiveStepControl, FiniteSetTheorems, TLAPS

SentOnce == {d \in Decisions : sent[d] > 0}

(* busy stands for the one call in flight: the request sent last, whose    *)
(* decision has no receipt yet, sent while nothing was uncertain.          *)
OneFlight ==
  /\ busy <=> flights # {}
  /\ busy => ~closed /\ ~quarantined
  /\ \A r \in flights : r = last /\ receipts[r.decision] = None

(* A decision was sent once or never; once when it has a receipt or is in  *)
(* flight, and only then can the runtime have published it.                *)
SentOrNever ==
  \A d \in Decisions :
    /\ sent[d] \in {0, 1}
    /\ sent[d] = 1 <=> receipts[d] # None \/ \E r \in flights : r.decision = d
    /\ d \in published => sent[d] = 1

(* The runtime has at most the request sent last still to receive.         *)
OnlyLastOnWire ==
  \A r \in wire : r = last /\ sent[r.decision] = 1 /\ r.decision \notin published

(* Quarantine and closure are remembered for as long as a receipt calls    *)
(* for them.                                                               *)
Remembered ==
  ~closed /\ ~quarantined => \A d \in Receipted : receipts[d].status = "applied"

(* Receipts are true, and one of a target that was gone stays true: its    *)
(* request is not on its way.                                              *)
Truthful ==
  \A d \in Receipted :
    /\ receipts[d].status = "applied" => d \in published
    /\ receipts[d].status = "targetUnavailable" =>
         d \notin published /\ \A r \in wire : r.decision # d

Inv == /\ TypeOK
       /\ OneFlight /\ SentOrNever /\ OnlyLastOnWire /\ Remembered /\ Truthful
       /\ WithinBudget

-----------------------------------------------------------------------------
LEMMA InitInv == Init => Inv
<1>1. SUFFICES ASSUME Init PROVE Inv
  OBVIOUS
<1>2. SentOnce = {}
  BY <1>1 DEF Init, SentOnce
<1>3. WithinBudget
  BY <1>2, FS_EmptySet, LiveStepAssumption DEF SentOnce, WithinBudget
<1>4. TypeOK
  BY <1>1 DEF Init, TypeOK
<1>5. OneFlight
  BY <1>1 DEF Init, OneFlight
<1> QED
  BY <1>1, <1>3, <1>4, <1>5
  DEF Init, Inv, SentOrNever, OnlyLastOnWire, Remembered, Truthful, Receipted

(* When control is free to send, no request is on its way any more.        *)
LEMMA WireIsEmpty == ASSUME Inv, Reconciled, Serialized PROVE wire = {}
<1>1. SUFFICES ASSUME NEW r \in wire PROVE FALSE
  OBVIOUS
<1>2. r.decision \in Decisions /\ sent[r.decision] = 1 /\ r.decision \notin published
  BY DEF Inv, TypeOK, Requests, OnlyLastOnWire
<1>3. flights = {}
  BY DEF Inv, OneFlight, Serialized
<1>4. r.decision \in Receipted
  BY <1>2, <1>3 DEF Inv, SentOrNever, Receipted
<1> QED
  BY <1>2, <1>4 DEF Inv, Remembered, Truthful, Reconciled

LEMMA UpdateInv ==
  ASSUME Inv, NEW d \in Decisions, NEW e \in Supported, UpdateEffort(d, e)
  PROVE  Inv'
<1> DEFINE r == [decision |-> d, effort |-> e]
<1>1. wire = {} /\ flights = {} /\ receipts[d] = None
  BY WireIsEmpty DEF UpdateEffort, Inv, OneFlight, Serialized
<1>2. sent[d] = 0 /\ d \notin published
  BY <1>1 DEF Inv, SentOrNever
<1>3. /\ flights' = {r} /\ wire' = {r} /\ last' = r
      /\ sent' = [sent EXCEPT ![d] = 1]
      /\ busy' = TRUE
      /\ UNCHANGED <<receipts, quarantined, closed, published>>
  BY <1>1, <1>2 DEF UpdateEffort
<1>4. r \in Requests
  BY DEF Requests
<1>5. TypeOK'
  BY <1>3, <1>4 DEF Inv, TypeOK
<1>6. OneFlight'
  BY <1>1, <1>3, <1>4 DEF Inv, OneFlight, UpdateEffort, Reconciled
<1>7. SentOrNever'
  <2>1. \A c \in Decisions : sent'[c] = IF c = d THEN 1 ELSE sent[c]
    BY <1>3 DEF Inv, TypeOK
  <2>2. \A c \in Decisions : (\E q \in flights' : q.decision = c) <=> c = d
    BY <1>3
  <2> QED
    BY <1>1, <1>2, <1>3, <2>1, <2>2 DEF Inv, SentOrNever
<1>8. OnlyLastOnWire'
  BY <1>2, <1>3 DEF Inv, TypeOK, OnlyLastOnWire
<1>9. Remembered'
  BY <1>3 DEF Inv, Remembered, Receipted
<1>10. Truthful'
  BY <1>1, <1>3 DEF Inv, Truthful, Receipted
<1>11. WithinBudget'
  <2>1. SentOnce' = Receipted \cup {d}
    BY <1>1, <1>3 DEF Inv, TypeOK, SentOrNever, SentOnce, Receipted
  <2>2. IsFiniteSet(Receipted)
    BY LiveStepAssumption, FS_Subset DEF Receipted
  <2>3. d \notin Receipted
    BY <1>1 DEF Receipted
  <2>4. Cardinality(SentOnce') = Cardinality(Receipted) + 1
    BY <2>1, <2>2, <2>3, FS_AddElement
  <2>5. Cardinality(Receipted) \in Nat
    BY <2>2, FS_CardinalityType
  <2> QED
    BY <2>4, <2>5, LiveStepAssumption
    DEF UpdateEffort, WithinReceipts, WithinBudget, SentOnce
<1> QED
  BY <1>5, <1>6, <1>7, <1>8, <1>9, <1>10, <1>11 DEF Inv

LEMMA ArriveInv == ASSUME Inv, Arrive PROVE Inv'
<1>1. PICK r \in wire : /\ wire' = wire \ {r}
                        /\ published' \in {published, published \cup {r.decision}}
  BY DEF Arrive
<1>2. UNCHANGED <<receipts, busy, quarantined, closed, flights, sent, last>>
  BY DEF Arrive, control
<1>3. r.decision \in Decisions /\ sent[r.decision] = 1 /\ r = last /\ wire' = {}
  BY <1>1 DEF Inv, TypeOK, Requests, OnlyLastOnWire
<1>4. TypeOK'
  BY <1>1, <1>2, <1>3 DEF Inv, TypeOK
<1>5. Truthful'
  BY <1>1, <1>2, <1>3 DEF Inv, Truthful, Receipted
<1> QED
  BY <1>1, <1>2, <1>3, <1>4, <1>5
  DEF Inv, OneFlight, SentOrNever, OnlyLastOnWire, Remembered, Receipted,
      WithinBudget

LEMMA SettleInv ==
  ASSUME Inv, NEW r \in flights,
         NEW reply \in {"applied", "targetUnavailable", "other", "error"},
         Settle(r, reply)
  PROVE  Inv'
<1>1. PICK d \in Decisions : d = r.decision
  BY DEF Inv, TypeOK, Requests
<1>2. PICK st \in Statuses : st = StatusOf(reply)
  BY DEF StatusOf, Statuses
<1> DEFINE receipt == [effort |-> r.effort, status |-> st]
<1>3. receipt \in Receipts /\ receipt # None
  <2>1. r.effort \in Supported
    BY DEF Inv, TypeOK, Requests
  <2> QED
    BY <1>2, <2>1, LiveStepAssumption DEF Receipts
<1>4. /\ receipts' = [receipts EXCEPT ![d] = receipt]
      /\ quarantined' = (st = "unknown") /\ closed' = (st = "targetUnavailable")
      /\ busy' = FALSE /\ flights' = flights \ {r}
      /\ UNCHANGED <<wire, sent, published, last>>
  BY <1>1, <1>2 DEF Settle
<1>5. /\ st = "applied" => d \in published
      /\ st = "targetUnavailable" => r \notin wire /\ d \notin published
  BY <1>1, <1>2 DEF Settle, CanReply, StatusOf
<1>6. /\ flights = {r} /\ flights' = {} /\ r = last
      /\ receipts[d] = None /\ ~closed /\ ~quarantined
  BY <1>1, <1>4 DEF Inv, OneFlight
<1>7. receipt.status = st
  OBVIOUS
<1> HIDE DEF receipt
<1>8. \A c \in Decisions : receipts'[c] = IF c = d THEN receipt ELSE receipts[c]
  BY <1>4 DEF Inv, TypeOK
<1>9. TypeOK'
  BY <1>3, <1>4, <1>6 DEF Inv, TypeOK
<1>10. OneFlight'
  BY <1>4, <1>6 DEF OneFlight
<1>11. SentOrNever'
  BY <1>1, <1>3, <1>4, <1>6, <1>8 DEF Inv, SentOrNever
<1>12. OnlyLastOnWire'
  BY <1>4 DEF Inv, OnlyLastOnWire
<1>13. Remembered'
  <2>1. ASSUME ~closed', ~quarantined' PROVE st = "applied"
    BY <1>2, <1>4, <2>1 DEF Statuses
  <2> QED
    BY <1>6, <1>7, <1>8, <2>1 DEF Inv, Remembered, Receipted
<1>14. Truthful'
  <2>1. ASSUME st = "targetUnavailable", NEW q \in wire PROVE q.decision # d
    BY <1>5, <1>6, <2>1 DEF Inv, OnlyLastOnWire
  <2> QED
    BY <1>4, <1>5, <1>7, <1>8, <2>1 DEF Inv, Truthful, Receipted
<1>15. WithinBudget'
  BY <1>4 DEF Inv, WithinBudget
<1> QED
  BY <1>9, <1>10, <1>11, <1>12, <1>13, <1>14, <1>15 DEF Inv

LEMMA NextInv == Inv /\ [Next]_vars => Inv'
<1>1. SUFFICES ASSUME Inv, [Next]_vars PROVE Inv'
  OBVIOUS
<1>2. CASE UNCHANGED vars
  BY <1>1, <1>2
  DEF vars, control, Inv, TypeOK, OneFlight, SentOrNever, OnlyLastOnWire,
      Remembered, Truthful, Receipted, WithinBudget
<1> QED
  BY <1>1, <1>2, UpdateInv, ArriveInv, SettleInv DEF Next

LEMMA Invariance == Spec => []Inv
BY InitInv, NextInv, PTL DEF Spec

-----------------------------------------------------------------------------
(* Receipts, states and requests are well formed, for any number of        *)
(* decisions: updateEffort records no status but the three of its type.    *)
THEOREM TypeCorrect == Spec => []TypeOK
BY Invariance, PTL DEF Inv

(* Every receipt updateEffort keeps says what became of its update, and no *)
(* decision is sent twice.                                                 *)
THEOREM ReceiptsTrue == Spec => []ReceiptsMatchUse
<1>1. Inv => ReceiptsMatchUse
  BY DEF Inv, SentOrNever, Truthful, Receipted, ReceiptsMatchUse
<1> QED
  BY <1>1, Invariance, PTL

(* No more updates are sent than receipts are kept, the one in flight      *)
(* counted.                                                                *)
THEOREM BudgetHolds == Spec => []WithinBudget
BY Invariance, PTL DEF Inv

(* Nothing is sent after an update that is uncertain or whose target is    *)
(* gone.                                                                   *)
THEOREM UncertaintyStops == Spec => NothingAfterUncertainty
<1>1. ASSUME Inv, [Next]_vars
      PROVE  [sent' # sent => \A d \in Receipted : receipts[d].status = "applied"]_vars
  <2>1. CASE \E d \in Decisions, e \in Supported : UpdateEffort(d, e)
    BY <1>1, <2>1 DEF UpdateEffort, Reconciled, Inv, Remembered
  <2>2. CASE Arrive
    BY <2>2 DEF Arrive
  <2>3. CASE \E r \in flights, reply \in {"applied", "targetUnavailable", "other", "error"} :
               Settle(r, reply)
    BY <2>3 DEF Settle
  <2> QED
    BY <1>1, <2>1, <2>2, <2>3 DEF Next
<1> QED
  BY <1>1, Invariance, PTL DEF Spec, NothingAfterUncertainty

(* What reaches the runtime, however late, is the request that updateEffort *)
(* sent last: no update is undone by an older one.                         *)
THEOREM NoStaleUpdate == Spec => LatestWins
<1>1. ASSUME Inv, [Next]_vars
      PROVE  [\A r \in wire : r \notin wire' => r = last]_vars
  BY <1>1 DEF Inv, OnlyLastOnWire
<1> QED
  BY <1>1, Invariance, PTL DEF Spec, LatestWins
=============================================================================
