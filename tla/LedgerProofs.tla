---------------------------- MODULE LedgerProofs ----------------------------
(***************************************************************************)
(* What the transactions of module Ledger guarantee for any number of      *)
(* tasks, providers, sessions and statuses and any retry limit.            *)
(***************************************************************************)
EXTENDS Ledger, TLAPS

(* A recorded limit belongs to an entry that is in the file. *)
LimitIsRecorded == \A t \in Tasks : tasks[t].limit >= 0 => InLedger(tasks[t])

IInv == TypeOK /\ RetryBudget /\ LimitIsRecorded

-----------------------------------------------------------------------------
(* What a claim and a record do to one entry, for every entry. *)

LEMMA BegunEntry ==
  ASSUME NEW e \in Entry, NEW p \in Providers, NEW s \in Sessions \cup {NoValue},
         NEW i \in 0 .. MaxLimit, NEW m \in 0 .. MaxLimit,
         MayBegin(e, p, s, i, m),
         e.limit >= 0 => InLedger(e)
  PROVE  /\ Begun(e, p, s, i, m) \in Entry
         /\ InLedger(Begun(e, p, s, i, m))
         /\ Begun(e, p, s, i, m).followups = e.followups + 1
         /\ Begun(e, p, s, i, m).followups <= Begun(e, p, s, i, m).limit
         /\ Begun(e, p, s, i, m).followups >= 0
         /\ e.limit >= 0 => Begun(e, p, s, i, m).limit = e.limit
BY LedgerAssumption, SMTT(30)
DEF Entry, Begun, MayBegin, InLedger, Status, WithinLimit, SameLimit, NextIndex

LEMMA RecordedEntry ==
  ASSUME NEW e \in Entry, NEW st \in Stopped \cup Statuses,
         NEW p \in Providers \cup {NoValue}, NEW s \in Sessions \cup {NoValue}
  PROVE  /\ Recorded(e, st, p, s) \in Entry
         /\ InLedger(Recorded(e, st, p, s))
         /\ Recorded(e, st, p, s).followups = e.followups
         /\ Recorded(e, st, p, s).limit = e.limit
BY LedgerAssumption, SMTT(30) DEF Entry, Recorded, InLedger, Status

-----------------------------------------------------------------------------
LEMMA InitInvariant == Init => IInv
BY LedgerAssumption DEF Init, IInv, TypeOK, RetryBudget, LimitIsRecorded,
   Entry, Absent, Status, InLedger

LEMMA NextInvariant == IInv /\ [Next]_tasks => IInv'
<1>1. SUFFICES ASSUME IInv, [Next]_tasks PROVE IInv'
  OBVIOUS
<1>2. CASE UNCHANGED tasks
  BY <1>1, <1>2 DEF IInv, TypeOK, RetryBudget, LimitIsRecorded
<1>3. ASSUME NEW t \in Tasks, Begin(t) PROVE IInv'
  <2>1. PICK p \in Providers, s \in Sessions \cup {NoValue},
             i \in 0 .. MaxLimit, m \in 0 .. MaxLimit :
          /\ MayBegin(tasks[t], p, s, i, m)
          /\ tasks' = [tasks EXCEPT ![t] = Begun(@, p, s, i, m)]
    BY <1>3 DEF Begin
  <2> DEFINE b == Begun(tasks[t], p, s, i, m)
  <2>2. /\ b \in Entry /\ InLedger(b)
        /\ b.followups <= b.limit /\ b.followups >= 0
    BY <1>1, <2>1, BegunEntry DEF IInv, TypeOK, LimitIsRecorded
  <2> HIDE DEF b
  <2>3. tasks' = [tasks EXCEPT ![t] = b]
    BY <2>1 DEF b
  <2>4. b.limit \in Int /\ b.followups \in Int
    BY <2>2, LedgerAssumption DEF Entry
  <2> QED
    BY <1>1, <2>2, <2>3, <2>4 DEF IInv, TypeOK, RetryBudget, LimitIsRecorded
<1>4. ASSUME NEW t \in Tasks, Record(t) PROVE IInv'
  <2>1. PICK st \in Stopped \cup Statuses, p \in Providers \cup {NoValue},
             s \in Sessions \cup {NoValue} :
          tasks' = [tasks EXCEPT ![t] = Recorded(@, st, p, s)]
    BY <1>4 DEF Record
  <2> DEFINE r == Recorded(tasks[t], st, p, s)
  <2>2. /\ r \in Entry /\ InLedger(r)
        /\ r.followups = tasks[t].followups /\ r.limit = tasks[t].limit
    BY <1>1, <2>1, RecordedEntry DEF IInv, TypeOK
  <2> HIDE DEF r
  <2>3. tasks' = [tasks EXCEPT ![t] = r]
    BY <2>1 DEF r
  <2> QED
    BY <1>1, <2>2, <2>3 DEF IInv, TypeOK, RetryBudget, LimitIsRecorded
<1> QED
  BY <1>1, <1>2, <1>3, <1>4 DEF Next

LEMMA Invariance == Spec => []IInv
BY InitInvariant, NextInvariant, PTL DEF Spec

-----------------------------------------------------------------------------
(* Whatever is claimed and recorded, in whatever order, every entry of the *)
(* file is well formed.                                                    *)
THEOREM TypeCorrect == Spec => []TypeOK
<1>1. IInv => TypeOK
  BY DEF IInv
<1> QED
  BY <1>1, Invariance, PTL

(* No task uses more follow-ups than the limit its first claim recorded. *)
THEOREM BudgetKept == Spec => []RetryBudget
<1>1. IInv => RetryBudget
  BY DEF IInv
<1> QED
  BY <1>1, Invariance, PTL

(* No sequence of claims and records raises the limit of a task or turns   *)
(* its follow-up counter back.                                             *)
THEOREM BudgetNeverReturned == Spec => BudgetOnlySpent
<1> DEFINE Spent == \A t \in Tasks :
       /\ tasks'[t].followups \in {tasks[t].followups, tasks[t].followups + 1}
       /\ tasks[t].limit >= 0 => tasks'[t].limit = tasks[t].limit
<1>1. IInv /\ [Next]_tasks => [Spent]_tasks
  <2>1. SUFFICES ASSUME IInv, Next PROVE Spent
    OBVIOUS
  <2>2. ASSUME NEW t \in Tasks, Begin(t) PROVE Spent
    <3>1. PICK p \in Providers, s \in Sessions \cup {NoValue},
               i \in 0 .. MaxLimit, m \in 0 .. MaxLimit :
            /\ MayBegin(tasks[t], p, s, i, m)
            /\ tasks' = [tasks EXCEPT ![t] = Begun(@, p, s, i, m)]
      BY <2>2 DEF Begin
    <3>2. /\ Begun(tasks[t], p, s, i, m).followups = tasks[t].followups + 1
          /\ tasks[t].limit >= 0 =>
               Begun(tasks[t], p, s, i, m).limit = tasks[t].limit
      BY <2>1, <3>1, BegunEntry DEF IInv, TypeOK, LimitIsRecorded
    <3> QED
      BY <2>1, <3>1, <3>2 DEF IInv, TypeOK
  <2>3. ASSUME NEW t \in Tasks, Record(t) PROVE Spent
    <3>1. PICK st \in Stopped \cup Statuses, p \in Providers \cup {NoValue},
               s \in Sessions \cup {NoValue} :
            tasks' = [tasks EXCEPT ![t] = Recorded(@, st, p, s)]
      BY <2>3 DEF Record
    <3>2. /\ Recorded(tasks[t], st, p, s).followups = tasks[t].followups
          /\ Recorded(tasks[t], st, p, s).limit = tasks[t].limit
      BY <2>1, <3>1, RecordedEntry DEF IInv, TypeOK
    <3> QED
      BY <2>1, <3>1, <3>2 DEF IInv, TypeOK
  <2> QED
    BY <2>1, <2>2, <2>3 DEF Next
<1> QED
  BY <1>1, Invariance, PTL DEF Spec, BudgetOnlySpent
=============================================================================
