--------------------------- MODULE DispatchProofs ---------------------------
(***************************************************************************)
(* Proofs about module Dispatch, for any number of commands, tasks,        *)
(* providers, sessions and statuses and any retry limit: the lock file     *)
(* makes the ledger calls of all processes the transactions of Ledger.     *)
(***************************************************************************)
EXTENDS Dispatch, TLAPS

(* The lock file is held by the one process that is inside a call; what    *)
(* that process has read is still what the file holds.                     *)
LockHeld == \A d \in Procs : tx[d] # "out" => lock = d /\ pc[d] \in Calls
SnapCurrent == \A d \in Procs : tx[d] = "read" => snap[d] = tasks

(* What the locals of a command hold. *)
TaskGiven == \A d \in Procs : pc[d] # "idle" => job[d].task \in Tasks
OutcomeGiven == \A d \in Procs : pc[d] = "final" => job[d].status \in L!Stopped

(* A recorded limit belongs to an entry that is in the file. *)
LimitIsRecorded == \A t \in Tasks : tasks[t].limit >= 0 => L!InLedger(tasks[t])

(* No index that was not claimed has started a provider, and the claim     *)
(* that a process has just written has not started one yet.                *)
StartsClaimed == \A t \in Tasks : \A i \in started[t] : i <= tasks[t].followups
ClaimFresh ==
  \A d \in Procs :
    pc[d] = "claim" /\ tx[d] = "saved" =>
      /\ job[d].index = tasks[job[d].task].followups
      /\ job[d].index >= 0
      /\ job[d].index \notin started[job[d].task]

Inv == /\ TypeOK
       /\ LockHeld /\ SnapCurrent
       /\ TaskGiven /\ OutcomeGiven
       /\ L!RetryBudget /\ LimitIsRecorded
       /\ StartsClaimed /\ ClaimFresh

-----------------------------------------------------------------------------
(* What a claim and a record do to one entry, for every entry. *)

LEMMA BegunEntry ==
  ASSUME NEW e \in L!Entry, NEW p \in Providers,
         NEW s \in Sessions \cup {NoValue},
         NEW i \in 0 .. MaxLimit, NEW m \in 0 .. MaxLimit,
         L!MayBegin(e, p, s, i, m),
         e.limit >= 0 => L!InLedger(e)
  PROVE  /\ L!Begun(e, p, s, i, m) \in L!Entry
         /\ L!InLedger(L!Begun(e, p, s, i, m))
         /\ L!Begun(e, p, s, i, m).followups = i
         /\ i = e.followups + 1
         /\ i <= L!Begun(e, p, s, i, m).limit
         /\ e.limit >= 0 => L!Begun(e, p, s, i, m).limit = e.limit
BY DispatchAssumption, SMTT(30)
DEF L!Entry, L!Begun, L!MayBegin, L!InLedger, L!Status,
    L!WithinLimit, L!SameLimit, L!NextIndex

LEMMA RecordedEntry ==
  ASSUME NEW e \in L!Entry, NEW st \in L!Stopped \cup Statuses,
         NEW p \in Providers \cup {NoValue}, NEW s \in Sessions \cup {NoValue}
  PROVE  /\ L!Recorded(e, st, p, s) \in L!Entry
         /\ L!InLedger(L!Recorded(e, st, p, s))
         /\ L!Recorded(e, st, p, s).followups = e.followups
         /\ L!Recorded(e, st, p, s).limit = e.limit
BY DispatchAssumption, SMTT(30)
DEF L!Entry, L!Recorded, L!InLedger, L!Status

LEMMA AbsentEntry == NoSnap \in [Tasks -> L!Entry]
BY DispatchAssumption DEF NoSnap, L!Absent, L!Entry

LEMMA EmptyJob ==
  /\ NoJob \in Job
  /\ \A t \in Tasks : NewJob(t) \in Job /\ NewJob(t).task = t
BY DispatchAssumption DEF NoJob, NewJob, Job

LEMMA ClaimedJob ==
  ASSUME NEW j \in Job, NEW p \in Providers, NEW s \in Sessions \cup {NoValue},
         NEW i \in 0 .. MaxLimit
  PROVE  /\ Claimed(j, p, s, i) \in Job
         /\ Claimed(j, p, s, i).task = j.task
         /\ Claimed(j, p, s, i).index = i
BY DispatchAssumption DEF Claimed, Job

LEMMA EndedJob ==
  ASSUME NEW j \in Job, NEW st \in L!Stopped, NEW th \in Sessions \cup {NoValue}
  PROVE  /\ Ended(j, st, th) \in Job
         /\ Ended(j, st, th).task = j.task /\ Ended(j, st, th).index = j.index
         /\ Ended(j, st, th).status = st
BY DEF Ended, Job, L!Status

-----------------------------------------------------------------------------
(* Every command's file write, in one place: process d, which is inside    *)
(* its call and has read the file, puts entry e in the place of its task.  *)

LEMMA ReplaceFile ==
  ASSUME Inv, NEW d \in Procs, NEW e \in L!Entry,
         pc[d] \in Calls, tx[d] = "read",
         Replace(d, e),
         L!InLedger(e),
         e.followups >= tasks[job[d].task].followups,
         e.followups <= e.limit,
         (e.limit >= 0) <=> (e.followups >= 0)
  PROVE  /\ tasks' = [tasks EXCEPT ![job[d].task] = e]
         /\ L!TypeOK' /\ L!RetryBudget' /\ LimitIsRecorded'
         /\ tx' \in [Procs -> Tx] /\ snap' \in [Procs -> [Tasks -> L!Entry]]
         /\ LockHeld' /\ SnapCurrent'
         /\ \A t \in Tasks : tasks'[t].followups >= tasks[t].followups
<1>1. job[d].task \in Tasks /\ snap[d] = tasks /\ lock = d
  BY DEF Inv, TaskGiven, SnapCurrent, LockHeld, Calls
<1>2. tasks' = [tasks EXCEPT ![job[d].task] = e]
  BY <1>1 DEF Replace
<1>3. e.followups \in Int /\ e.limit \in Int
  BY DispatchAssumption DEF L!Entry
<1>4. \A t \in Tasks : tasks[t] \in L!Entry /\ tasks[t].followups \in Int
  BY DispatchAssumption DEF Inv, TypeOK, L!TypeOK, L!Entry
<1>5. L!TypeOK' /\ L!RetryBudget' /\ LimitIsRecorded'
  BY <1>1, <1>2 DEF Inv, TypeOK, L!TypeOK, L!RetryBudget, LimitIsRecorded
<1>6. tx' \in [Procs -> Tx] /\ snap' \in [Procs -> [Tasks -> L!Entry]]
  BY AbsentEntry DEF Inv, TypeOK, Replace, Tx
<1>7. LockHeld'
  BY <1>1 DEF Inv, LockHeld, Replace
<1>8. SnapCurrent'
  BY <1>1 DEF Inv, LockHeld, SnapCurrent, Replace, TypeOK
<1>9. \A t \in Tasks : tasks'[t].followups >= tasks[t].followups
  BY <1>1, <1>2, <1>3, <1>4 DEF Inv, TypeOK, L!TypeOK
<1> QED
  BY <1>2, <1>5, <1>6, <1>7, <1>8, <1>9

-----------------------------------------------------------------------------
LEMMA InitInv == Init => Inv
<1>1. SUFFICES ASSUME Init PROVE Inv
  OBVIOUS
<1>2. TypeOK
  BY <1>1, AbsentEntry, EmptyJob
  DEF Init, TypeOK, L!Init, L!TypeOK, NoSnap, PC, Tx
<1>3. L!RetryBudget /\ LimitIsRecorded
  BY <1>1 DEF Init, L!Init, L!RetryBudget, LimitIsRecorded, L!Absent
<1> QED
  BY <1>1, <1>2, <1>3
  DEF Inv, Init, LockHeld, SnapCurrent, TaskGiven, OutcomeGiven, StartsClaimed,
      ClaimFresh

-----------------------------------------------------------------------------
(* The steps that leave the file alone, one lemma per action. *)

LEMMA AcquireInv == ASSUME Inv, NEW d \in Procs, Acquire(d) PROVE Inv'
BY ProcsAssumption, SMTT(30)
DEF Inv, Acquire, LockAvailable, TypeOK, LockHeld, SnapCurrent, TaskGiven,
    OutcomeGiven, L!TypeOK, L!RetryBudget, LimitIsRecorded, StartsClaimed,
    ClaimFresh, history, Tx, Calls

LEMMA ReadInv == ASSUME Inv, NEW d \in Procs, Read(d) PROVE Inv'
BY SMTT(30)
DEF Inv, Read, TypeOK, LockHeld, SnapCurrent, TaskGiven,
    OutcomeGiven, L!TypeOK, L!RetryBudget, LimitIsRecorded, StartsClaimed,
    ClaimFresh, history, Tx, Calls

LEMMA RefuseInv == ASSUME Inv, NEW d \in Procs, Refuse(d) PROVE Inv'
BY AbsentEntry, SMTT(30)
DEF Inv, Refuse, TypeOK, LockHeld, SnapCurrent, TaskGiven,
    OutcomeGiven, L!TypeOK, L!RetryBudget, LimitIsRecorded, StartsClaimed,
    ClaimFresh, history, Tx, Calls

LEMMA RemoveStaleLockInv == ASSUME Inv, RemoveStaleLock PROVE Inv'
BY ProcsAssumption, SMTT(30)
DEF Inv, RemoveStaleLock, TypeOK, LockHeld, SnapCurrent, TaskGiven,
    OutcomeGiven, L!TypeOK, L!RetryBudget, LimitIsRecorded, StartsClaimed,
    ClaimFresh, history

LEMMA StutterInv == ASSUME Inv, UNCHANGED vars PROVE Inv'
BY SMTT(30)
DEF Inv, vars, TypeOK, LockHeld, SnapCurrent, TaskGiven,
    OutcomeGiven, L!TypeOK, L!RetryBudget, LimitIsRecorded, StartsClaimed,
    ClaimFresh, history

LEMMA GoneInv ==
  ASSUME Inv, NEW d \in Procs, NEW left \in {Free, Stale}, Gone(d, left)
  PROVE  Inv'
BY AbsentEntry, EmptyJob, ProcsAssumption, SMTT(30)
DEF Inv, Gone, Exit, Abandon, TypeOK, LockHeld, SnapCurrent, TaskGiven,
    OutcomeGiven, L!TypeOK, L!RetryBudget, LimitIsRecorded, StartsClaimed,
    ClaimFresh, Tx, PC, Calls

LEMMA StartInv ==
  ASSUME Inv, NEW d \in Procs, NEW t \in Tasks, NEW where \in {"claim", "record"},
         Start(d, t, where)
  PROVE  Inv'
BY EmptyJob, SMTT(30)
DEF Inv, Start, TypeOK, LockHeld, SnapCurrent, TaskGiven,
    OutcomeGiven, L!TypeOK, L!RetryBudget, LimitIsRecorded, StartsClaimed,
    ClaimFresh, history, Tx, PC, Calls

LEMMA ProviderFailsInv == ASSUME Inv, NEW d \in Procs, ProviderFails(d) PROVE Inv'
BY SMTT(30)
DEF Inv, ProviderFails, Goto, TypeOK, LockHeld, SnapCurrent, TaskGiven,
    OutcomeGiven, L!TypeOK, L!RetryBudget, LimitIsRecorded, StartsClaimed,
    ClaimFresh, history, PC, Calls

(* Where a command goes after its call returned (ok) or raised. *)
LEMMA ContinueInv ==
  ASSUME Inv, NEW d \in Procs, NEW ok \in BOOLEAN, pc[d] \in Calls,
         Continue(d, ok), tx'[d] = "out",
         pc[d] = "claim" /\ ok => tx[d] = "saved",
         UNCHANGED tasks
  PROVE  /\ pc' \in [Procs -> PC] /\ job' \in [Procs -> Job]
         /\ started' \in [Tasks -> SUBSET (0 .. MaxLimit)]
         /\ proven' \subseteq Tasks /\ abandoned' \subseteq Tasks
         /\ \A c \in Procs \ {d} : pc'[c] = pc[c] /\ job'[c] = job[c]
         /\ pc'[d] = "final" => pc[d] = "final" /\ job'[d] = job[d]
         /\ TaskGiven' /\ OutcomeGiven' /\ StartsClaimed'
         /\ started' # started => pc[d] = "claim" /\ tx[d] = "saved"
<1>1. job[d].task \in Tasks /\ pc[d] # "idle"
  BY DEF Inv, TaskGiven, Calls
<1>2. CASE pc[d] = "claim" /\ ok
  <2>1. /\ started' = [started EXCEPT ![job[d].task] = @ \cup {job[d].index}]
        /\ pc' = [pc EXCEPT ![d] = "run"]
        /\ UNCHANGED <<job, proven, abandoned>>
    BY <1>2 DEF Continue, Goto
  <2>2. /\ job[d].index = tasks[job[d].task].followups
        /\ tasks[job[d].task].followups \in -1 .. MaxLimit
        /\ job[d].index \in 0 .. MaxLimit
    <3>1. /\ job[d].index = tasks[job[d].task].followups
          /\ job[d].index \in -1 .. MaxLimit
      BY <1>1, <1>2 DEF Inv, ClaimFresh, TypeOK, Job
    <3>2. job[d].index >= 0
      BY <1>2 DEF Inv, ClaimFresh
    <3> QED
      BY <3>1, <3>2, DispatchAssumption
  <2> QED
    BY <1>1, <1>2, <2>1, <2>2
    DEF Inv, TypeOK, PC, TaskGiven, OutcomeGiven, StartsClaimed
<1>3. CASE pc[d] = "final"
  <2>1. /\ pc' \in {[pc EXCEPT ![d] = "amend"], [pc EXCEPT ![d] = "settle"],
                   [pc EXCEPT ![d] = "idle"]}
        /\ job' \in {job, [job EXCEPT ![d] = NoJob]}
        /\ pc'[d] # "idle" => job' = job
        /\ UNCHANGED <<started, proven>>
        /\ abandoned' \in {abandoned, abandoned \cup {job[d].task}}
    BY <1>3 DEF Continue, Goto, Exit, Abandon, history, Inv, TypeOK
  <2> QED
    BY <1>1, <1>3, <2>1, EmptyJob
    DEF Inv, TypeOK, PC, Calls, TaskGiven, OutcomeGiven, StartsClaimed
<1>4. CASE ~(pc[d] = "claim" /\ ok) /\ pc[d] # "final"
  <2>1. /\ pc' = [pc EXCEPT ![d] = "idle"]
        /\ job' = [job EXCEPT ![d] = NoJob]
        /\ UNCHANGED <<started, proven>>
        /\ abandoned' \in {abandoned, abandoned \cup {job[d].task}}
    BY <1>4 DEF Continue, Exit, Abandon
  <2> QED
    BY <1>1, <1>4, <2>1, EmptyJob
    DEF Inv, TypeOK, PC, TaskGiven, OutcomeGiven, StartsClaimed
<1> QED
  BY <1>2, <1>3, <1>4

LEMMA BusyInv == ASSUME Inv, NEW d \in Procs, Busy(d) PROVE Inv'
<1>1. /\ pc[d] \in Calls /\ tx[d] = "out" /\ Continue(d, FALSE)
      /\ UNCHANGED <<tasks, lock, tx, snap>>
  BY DEF Busy
<1>2. /\ TaskGiven' /\ OutcomeGiven' /\ StartsClaimed' /\ UNCHANGED started
      /\ pc' \in [Procs -> PC] /\ job' \in [Procs -> Job]
      /\ proven' \subseteq Tasks /\ abandoned' \subseteq Tasks
      /\ \A c \in Procs \ {d} : pc'[c] = pc[c] /\ job'[c] = job[c]
  BY <1>1, ContinueInv DEF Inv
<1> QED
  BY <1>1, <1>2
  DEF Inv, TypeOK, LockHeld, SnapCurrent, L!TypeOK, L!RetryBudget,
      LimitIsRecorded, ClaimFresh

LEMMA ReleaseInv == ASSUME Inv, NEW d \in Procs, Release(d) PROVE Inv'
<1>1. /\ tx[d] \in {"saved", "failed"} /\ tx' = [tx EXCEPT ![d] = "out"]
      /\ lock' = Free /\ Continue(d, tx[d] = "saved") /\ UNCHANGED <<tasks, snap>>
  BY DEF Release
<1>2. pc[d] \in Calls /\ tx'[d] = "out" /\ \A c \in Procs \ {d} : tx[c] = "out"
  BY <1>1, ProcsAssumption DEF Inv, LockHeld, TypeOK
<1>3. /\ TaskGiven' /\ OutcomeGiven' /\ StartsClaimed'
      /\ pc' \in [Procs -> PC] /\ job' \in [Procs -> Job]
      /\ started' \in [Tasks -> SUBSET (0 .. MaxLimit)]
      /\ proven' \subseteq Tasks /\ abandoned' \subseteq Tasks
  BY <1>1, <1>2, ContinueInv
<1>4. tx' \in [Procs -> Tx] /\ \A c \in Procs : tx'[c] = "out"
  BY <1>1, <1>2 DEF Inv, TypeOK, Tx
<1> QED
  BY <1>1, <1>3, <1>4
  DEF Inv, TypeOK, LockHeld, SnapCurrent, L!TypeOK, L!RetryBudget,
      LimitIsRecorded, ClaimFresh

LEMMA ProviderReturnsInv ==
  ASSUME Inv, NEW d \in Procs, ProviderReturns(d) PROVE Inv'
<1>1. job[d].task \in Tasks /\ pc[d] = "run" /\ tx[d] = "out"
  BY DEF ProviderReturns, Inv, TaskGiven, LockHeld, Calls
<1>2. /\ UNCHANGED <<tasks, lock, tx, snap, started, abandoned>>
      /\ pc' \in {[pc EXCEPT ![d] = "settle"], [pc EXCEPT ![d] = "final"]}
      /\ proven' \in {proven, proven \cup {job[d].task}}
      /\ \/ UNCHANGED job /\ pc'[d] = "settle"
         \/ \E st \in L!Stopped, th \in Sessions \cup {NoValue} :
              job' = [job EXCEPT ![d] = Ended(@, st, th)]
  BY <1>1 DEF ProviderReturns, Goto, OutcomeStatus, L!Stopped, Inv, TypeOK, Job
<1>3. /\ job' \in [Procs -> Job]
      /\ \A c \in Procs : job'[c].task = job[c].task /\ (c # d => job'[c] = job[c])
      /\ pc'[d] = "final" => job'[d].status \in L!Stopped
  <2>1. CASE UNCHANGED job /\ pc'[d] = "settle"
    BY <2>1 DEF Inv, TypeOK
  <2>2. ASSUME NEW st \in L!Stopped, NEW th \in Sessions \cup {NoValue},
               job' = [job EXCEPT ![d] = Ended(@, st, th)]
        PROVE  /\ job' \in [Procs -> Job]
               /\ \A c \in Procs : job'[c].task = job[c].task /\ (c # d => job'[c] = job[c])
               /\ pc'[d] = "final" => job'[d].status \in L!Stopped
    <3> DEFINE j == Ended(job[d], st, th)
    <3>1. job' = [job EXCEPT ![d] = j]
      BY <2>2
    <3>2. job[d] \in Job /\ job \in [Procs -> Job]
      BY DEF Inv, TypeOK
    <3>3. j \in Job /\ j.task = job[d].task /\ j.status = st
      BY <3>2, EndedJob
    <3> HIDE DEF j
    <3> QED
      BY <3>1, <3>2, <3>3
  <2> QED
    BY <1>2, <2>1, <2>2
<1>4. TypeOK'
  BY <1>1, <1>2, <1>3 DEF Inv, TypeOK, L!TypeOK, PC, Calls
<1>5. LockHeld' /\ SnapCurrent' /\ L!RetryBudget' /\ LimitIsRecorded' /\ StartsClaimed'
  BY <1>1, <1>2
  DEF Inv, TypeOK, LockHeld, SnapCurrent, L!RetryBudget, LimitIsRecorded, StartsClaimed
<1>6. TaskGiven' /\ OutcomeGiven'
  BY <1>1, <1>2, <1>3 DEF Inv, TypeOK, TaskGiven, OutcomeGiven
<1>7. ClaimFresh'
  BY <1>1, <1>2, <1>3 DEF Inv, TypeOK, ClaimFresh
<1> QED
  BY <1>4, <1>5, <1>6, <1>7 DEF Inv

-----------------------------------------------------------------------------
(* The steps that replace the file. *)

(* What a claim does, with its choices named. *)
LEMMA ClaimStep ==
  ASSUME Inv, NEW d \in Procs, SaveClaim(d)
  PROVE  \E p \in Providers, s \in Sessions \cup {NoValue},
            i \in 0 .. MaxLimit, m \in 0 .. MaxLimit :
           /\ L!MayBegin(tasks[job[d].task], p, s, i, m)
           /\ Replace(d, L!Begun(tasks[job[d].task], p, s, i, m))
           /\ job' = [job EXCEPT ![d] = Claimed(@, p, s, i)]
BY DEF SaveClaim, Inv, SnapCurrent

LEMMA SaveClaimInv == ASSUME Inv, NEW d \in Procs, SaveClaim(d) PROVE Inv'
<1>1. /\ pc[d] = "claim" /\ tx[d] = "read" /\ job[d].task \in Tasks
      /\ abandoned' = abandoned \ {job[d].task}
      /\ UNCHANGED <<started, proven, lock, pc>> /\ tx' = [tx EXCEPT ![d] = "saved"]
  BY DEF SaveClaim, Replace, Inv, TaskGiven
<1> DEFINE t == job[d].task
<1>2. PICK p \in Providers, s \in Sessions \cup {NoValue},
           i \in 0 .. MaxLimit, m \in 0 .. MaxLimit :
        /\ L!MayBegin(tasks[t], p, s, i, m)
        /\ Replace(d, L!Begun(tasks[t], p, s, i, m))
        /\ job' = [job EXCEPT ![d] = Claimed(@, p, s, i)]
  BY ClaimStep
<1> DEFINE b == L!Begun(tasks[t], p, s, i, m)
<1>3. /\ b \in L!Entry /\ L!InLedger(b) /\ b.followups = i
      /\ i = tasks[t].followups + 1 /\ i <= b.limit
  <2>1. tasks[t] \in L!Entry /\ (tasks[t].limit >= 0 => L!InLedger(tasks[t]))
    BY <1>1 DEF Inv, TypeOK, L!TypeOK, LimitIsRecorded
  <2> HIDE DEF t
  <2> QED
    BY <1>2, <2>1, BegunEntry
<1> HIDE DEF b
<1>4. Replace(d, b)
  BY <1>2 DEF b
<1>5. /\ b.followups >= tasks[t].followups /\ b.followups <= b.limit
      /\ (b.limit >= 0) <=> (b.followups >= 0)
      /\ tasks[t].followups \in Int
  BY <1>1, <1>3, DispatchAssumption DEF Inv, TypeOK, L!TypeOK, L!Entry
<1>6. /\ tasks' = [tasks EXCEPT ![t] = b]
      /\ L!TypeOK' /\ L!RetryBudget' /\ LimitIsRecorded'
      /\ tx' \in [Procs -> Tx] /\ snap' \in [Procs -> [Tasks -> L!Entry]]
      /\ LockHeld' /\ SnapCurrent'
      /\ \A u \in Tasks : tasks'[u].followups >= tasks[u].followups
  BY <1>1, <1>3, <1>4, <1>5, ReplaceFile DEF Calls
<1>7. /\ job' \in [Procs -> Job] /\ job'[d].task = t /\ job'[d].index = i
      /\ \A c \in Procs : job'[c].task = job[c].task /\ (c # d => job'[c] = job[c])
  <2> DEFINE j == Claimed(job[d], p, s, i)
  <2>1. job' = [job EXCEPT ![d] = j]
    BY <1>2
  <2>2. job[d] \in Job /\ job \in [Procs -> Job]
    BY DEF Inv, TypeOK
  <2>3. j \in Job /\ j.task = job[d].task /\ j.index = i
    BY <2>2, ClaimedJob
  <2> HIDE DEF j
  <2> QED
    BY <2>1, <2>2, <2>3
<1>8. TypeOK'
  BY <1>1, <1>6, <1>7 DEF Inv, TypeOK
<1>9. TaskGiven' /\ OutcomeGiven'
  BY <1>1, <1>7 DEF Inv, TaskGiven, OutcomeGiven
<1>10. StartsClaimed'
  <2>1. \A u \in Tasks : tasks'[u].followups \in Int /\ tasks[u].followups \in Int
    BY <1>6, DispatchAssumption DEF Inv, TypeOK, L!TypeOK, L!Entry
  <2>2. \A u \in Tasks : \A j \in started[u] : j \in Int
    BY DEF Inv, TypeOK
  <2> QED
    BY <1>1, <1>6, <2>1, <2>2 DEF Inv, StartsClaimed
<1>11. ClaimFresh'
  <2>1. i \notin started[t]
    BY <1>1, <1>3, <1>5 DEF Inv, StartsClaimed, TypeOK
  <2>2. \A c \in Procs : c # d => tx'[c] # "saved"
    BY <1>1 DEF Inv, LockHeld, TypeOK
  <2>3. tasks'[t].followups = i
    BY <1>1, <1>3, <1>6 DEF Inv, TypeOK, L!TypeOK
  <2> QED
    BY <1>1, <1>7, <2>1, <2>2, <2>3 DEF ClaimFresh
<1> QED
  BY <1>6, <1>8, <1>9, <1>10, <1>11 DEF Inv

(* What recording a status does, whoever records it: the follow-up counter *)
(* and the limit stay.                                                     *)
LEMMA RecordStep ==
  ASSUME Inv, NEW d \in Procs, tx[d] = "read", pc[d] \in Calls \ {"claim"},
         UNCHANGED <<job, history>>,
         NEW st \in L!Stopped \cup Statuses, NEW p \in Providers \cup {NoValue},
         NEW s \in Sessions \cup {NoValue},
         Replace(d, L!Recorded(snap[d][job[d].task], st, p, s))
  PROVE  Inv'
<1> DEFINE t == job[d].task
           r == L!Recorded(tasks[t], st, p, s)
<1>1. /\ t \in Tasks /\ snap[d] = tasks
      /\ UNCHANGED <<lock, pc, job, history>> /\ tx' = [tx EXCEPT ![d] = "saved"]
  BY DEF Replace, Inv, TaskGiven, SnapCurrent, Calls
<1>2. Replace(d, r)
  BY <1>1
<1>3. tasks[t] \in L!Entry
  BY <1>1 DEF Inv, TypeOK, L!TypeOK
<1>4. /\ r \in L!Entry /\ L!InLedger(r)
      /\ r.followups = tasks[t].followups /\ r.limit = tasks[t].limit
  <2> HIDE DEF t
  <2> QED
    BY <1>3, RecordedEntry
<1> HIDE DEF r
<1>5. /\ r.followups >= tasks[t].followups /\ r.followups <= r.limit
      /\ (r.limit >= 0) <=> (r.followups >= 0)
  <2>1. tasks[t].followups \in Int
    BY <1>3, DispatchAssumption DEF L!Entry
  <2> QED
    BY <1>1, <1>4, <2>1 DEF Inv, L!RetryBudget
<1>6. /\ tasks' = [tasks EXCEPT ![t] = r]
      /\ L!TypeOK' /\ L!RetryBudget' /\ LimitIsRecorded'
      /\ tx' \in [Procs -> Tx] /\ snap' \in [Procs -> [Tasks -> L!Entry]]
      /\ LockHeld' /\ SnapCurrent'
  BY <1>1, <1>2, <1>4, <1>5, ReplaceFile
<1>7. \A u \in Tasks : tasks'[u].followups = tasks[u].followups
  BY <1>1, <1>4, <1>6 DEF Inv, TypeOK, L!TypeOK
<1>8. TypeOK' /\ TaskGiven' /\ OutcomeGiven' /\ StartsClaimed'
  BY <1>1, <1>6, <1>7
  DEF Inv, TypeOK, history, TaskGiven, OutcomeGiven, StartsClaimed
<1>9. ClaimFresh'
  BY <1>1 DEF Inv, LockHeld, TypeOK, ClaimFresh
<1> QED
  BY <1>6, <1>8, <1>9 DEF Inv

(* What dispatch records: one of the statuses that stop a task. *)
LEMMA OutcomeStep ==
  ASSUME Inv, NEW d \in Procs, SaveOutcome(d)
  PROVE  \E st \in L!Stopped, p \in Providers \cup {NoValue},
            s \in Sessions \cup {NoValue} :
           /\ Replace(d, L!Recorded(snap[d][job[d].task], st, p, s))
           /\ pc[d] # "final" => st = "unknown"
           /\ pc[d] = "final" => st = job[d].status
<1>1. job[d] \in Job
  BY DEF Inv, TypeOK
<1>2. CASE pc[d] = "final"
  BY <1>1, <1>2 DEF SaveOutcome, Inv, OutcomeGiven, Job
<1>3. CASE pc[d] # "final"
  BY <1>1, <1>3 DEF SaveOutcome, Job, L!Stopped
<1> QED
  BY <1>2, <1>3

LEMMA SaveOutcomeInv == ASSUME Inv, NEW d \in Procs, SaveOutcome(d) PROVE Inv'
<1>1. /\ tx[d] = "read" /\ pc[d] \in Calls \ {"claim"} /\ UNCHANGED <<job, history>>
  BY DEF SaveOutcome, Calls
<1>2. PICK st \in L!Stopped, p \in Providers \cup {NoValue},
           s \in Sessions \cup {NoValue} :
        Replace(d, L!Recorded(snap[d][job[d].task], st, p, s))
  BY OutcomeStep
<1> QED
  BY <1>1, <1>2, RecordStep

LEMMA SaveRecordInv == ASSUME Inv, NEW d \in Procs, SaveRecord(d) PROVE Inv'
<1>1. /\ tx[d] = "read" /\ pc[d] \in Calls \ {"claim"} /\ UNCHANGED <<job, history>>
  BY DEF SaveRecord, Calls
<1>2. PICK st \in Statuses, p \in Providers \cup {NoValue},
           s \in Sessions \cup {NoValue} :
        Replace(d, L!Recorded(snap[d][job[d].task], st, p, s))
  BY DEF SaveRecord
<1> QED
  BY <1>1, <1>2, RecordStep

-----------------------------------------------------------------------------
LEMMA NextInv == Inv /\ [Next]_vars => Inv'
<1>1. SUFFICES ASSUME Inv, [Next]_vars PROVE Inv'
  OBVIOUS
<1>2. ASSUME NEW d \in Procs, Step(d) PROVE Inv'
  BY <1>1, <1>2, AcquireInv, BusyInv, ReadInv, SaveClaimInv, SaveOutcomeInv,
     SaveRecordInv, RefuseInv, ReleaseInv, ProviderFailsInv DEF Step
<1>3. ASSUME NEW d \in Procs, ProviderReturns(d) \/ Crash(d) \/ Interrupt(d)
      PROVE  Inv'
  BY <1>1, <1>3, ProviderReturnsInv, GoneInv DEF Crash, Interrupt
<1>4. ASSUME NEW d \in Procs, NEW t \in Tasks,
             StartDispatch(d, t) \/ StartRecord(d, t)
      PROVE  Inv'
  BY <1>1, <1>4, StartInv DEF StartDispatch, StartRecord
<1> QED
  BY <1>1, <1>2, <1>3, <1>4, RemoveStaleLockInv, StutterInv DEF Next

LEMMA Invariance == Spec => []Inv
BY InitInv, NextInv, PTL DEF Spec

(* Type correctness: in particular the ledger file is always well formed   *)
(* and every outcome a command is about to record is a status.             *)
THEOREM TypeCorrect == Spec => []TypeOK
<1>1. Inv => TypeOK
  BY DEF Inv
<1> QED
  BY <1>1, Invariance, PTL

-----------------------------------------------------------------------------
(* Between its lock and its unlock a ledger call is alone, and the file is *)
(* what it read: the whole-file replace of another process never happens   *)
(* in between, whichever processes crash, fail or give up.                 *)
CallIsAlone ==
  \A c, d \in Procs :
    tx[d] = "read" => snap[d] = tasks /\ (c # d => tx[c] = "out")

(* At most one process is inside a ledger call (_locked), and what it has  *)
(* read is what the file holds until it saves.                             *)
THEOREM CallsExclude == Spec => []CallIsAlone
<1>1. Inv => CallIsAlone
  BY DEF Inv, LockHeld, SnapCurrent, CallIsAlone
<1> QED
  BY <1>1, Invariance, PTL

(* The step that the file makes under each step of the commands: a claim,  *)
(* a record, or none.                                                      *)
LEMMA FileStep == Inv /\ [Next]_vars => [L!Next]_tasks
<1>1. SUFFICES ASSUME Inv, [Next]_vars PROVE [L!Next]_tasks
  OBVIOUS
<1>2. ASSUME NEW d \in Procs, SaveClaim(d) PROVE L!Next
  <2>1. job[d].task \in Tasks /\ snap[d] = tasks
    BY <1>1, <1>2 DEF SaveClaim, Inv, TaskGiven, SnapCurrent
  <2>2. L!Begin(job[d].task)
    BY <1>1, <1>2, <2>1, ClaimStep DEF L!Begin, Replace
  <2> QED
    BY <2>1, <2>2 DEF L!Next
<1>3. ASSUME NEW d \in Procs, SaveOutcome(d) PROVE L!Next
  <2>1. job[d].task \in Tasks /\ snap[d] = tasks
    BY <1>1, <1>3 DEF SaveOutcome, Inv, TaskGiven, SnapCurrent
  <2>2. L!Record(job[d].task)
    BY <1>1, <1>3, <2>1, OutcomeStep DEF L!Record, Replace
  <2> QED
    BY <2>1, <2>2 DEF L!Next
<1>4. ASSUME NEW d \in Procs, SaveRecord(d) PROVE L!Next
  <2>1. job[d].task \in Tasks /\ snap[d] = tasks
    BY <1>1, <1>4 DEF SaveRecord, Inv, TaskGiven, SnapCurrent
  <2>2. L!Record(job[d].task)
    <3>1. PICK st \in Statuses, p \in Providers \cup {NoValue},
               s \in Sessions \cup {NoValue} :
            Replace(d, L!Recorded(snap[d][job[d].task], st, p, s))
      BY <1>4 DEF SaveRecord
    <3> QED
      BY <2>1, <3>1 DEF L!Record, Replace
  <2> QED
    BY <2>1, <2>2 DEF L!Next
<1>5. ASSUME NEW d \in Procs, Step(d), ~SaveClaim(d), ~SaveOutcome(d), ~SaveRecord(d)
      PROVE  UNCHANGED tasks
  BY <1>5 DEF Step, Acquire, Busy, Read, Refuse, Release, ProviderFails
<1>6. ASSUME NEW d \in Procs, ProviderReturns(d) \/ Crash(d) \/ Interrupt(d)
      PROVE  UNCHANGED tasks
  BY <1>6 DEF ProviderReturns, Crash, Interrupt, Gone
<1>7. ASSUME NEW d \in Procs, NEW t \in Tasks,
             StartDispatch(d, t) \/ StartRecord(d, t)
      PROVE  UNCHANGED tasks
  BY <1>7 DEF StartDispatch, StartRecord, Start
<1>8. RemoveStaleLock \/ UNCHANGED vars => UNCHANGED tasks
  BY DEF RemoveStaleLock, vars
<1> QED
  BY <1>1, <1>2, <1>3, <1>4, <1>5, <1>6, <1>7, <1>8 DEF Next

(* The processes that share the file implement module Ledger: each of      *)
(* their steps is one of its transactions or leaves the file alone.        *)
THEOREM Implements == Spec => LedgerSpec
<1>1. Init => L!Init
  BY DEF Init
<1> QED
  BY <1>1, Invariance, FileStep, PTL DEF Spec, LedgerSpec, L!Spec

(* No follow-up index of a task starts a second provider run, and none     *)
(* beyond the recorded limit starts one: the claim is on disk before the   *)
(* provider is started.                                                    *)
THEOREM StartsOnce == Spec => EachIndexStartsOnce
<1> DEFINE Once ==
      \A d \in Procs :
        pc[d] = "claim" /\ pc'[d] = "run" =>
          /\ job[d].index \notin started[job[d].task]
          /\ job[d].index <= tasks[job[d].task].limit
<1>1. ASSUME Inv, [Next]_vars PROVE [Once]_vars
  <2>1. SUFFICES ASSUME NEW d \in Procs, pc[d] = "claim", pc'[d] = "run"
        PROVE  /\ job[d].index \notin started[job[d].task]
               /\ job[d].index <= tasks[job[d].task].limit
    BY <1>1
  <2>2. tx[d] = "saved"
    <3>1. PC = {"idle", "run"} \cup Calls /\ pc \in [Procs -> PC]
      BY <1>1 DEF Inv, TypeOK, PC
    <3>2. ASSUME NEW c \in Procs, Continue(c, FALSE) PROVE ~(pc'[d] = "run")
      BY <2>1, <3>1, <3>2 DEF Continue, Goto, Exit
    <3>3. ASSUME NEW c \in Procs, Continue(c, tx[c] = "saved") PROVE tx[d] = "saved"
      BY <2>1, <3>1, <3>3 DEF Continue, Goto, Exit
    <3>4. ASSUME NEW c \in Procs, Step(c) PROVE tx[d] = "saved"
      BY <2>1, <3>1, <3>2, <3>3, <3>4
      DEF Step, Acquire, Busy, Read, SaveClaim, SaveOutcome, SaveRecord, Replace,
          Refuse, Release, ProviderFails, Goto
    <3>5. ASSUME NEW c \in Procs, ProviderReturns(c) \/ Crash(c) \/ Interrupt(c)
          PROVE  FALSE
      BY <2>1, <3>1, <3>5 DEF ProviderReturns, Crash, Interrupt, Gone, Exit, Goto
    <3>6. ASSUME NEW c \in Procs, NEW t \in Tasks,
                 StartDispatch(c, t) \/ StartRecord(c, t)
          PROVE  FALSE
      BY <2>1, <3>1, <3>6 DEF StartDispatch, StartRecord, Start
    <3> QED
      BY <1>1, <2>1, <3>4, <3>5, <3>6 DEF Next, RemoveStaleLock, vars
  <2>3. /\ job[d].index = tasks[job[d].task].followups
        /\ job[d].index \notin started[job[d].task]
        /\ job[d].task \in Tasks
    BY <1>1, <2>1, <2>2 DEF Inv, ClaimFresh, TaskGiven
  <2> QED
    BY <1>1, <2>3 DEF Inv, L!RetryBudget
<1> QED
  BY <1>1, Invariance, PTL DEF Spec, EachIndexStartsOnce

-----------------------------------------------------------------------------
(* With a careful operator.                                                *)

(* The operator records a task alone; a claimed task is "running" until    *)
(* its process records the outcome, and stopped when the process may still *)
(* withdraw it.                                                            *)
RecordAlone ==
  \A c, d \in Procs :
    pc[d] = "record" /\ pc[c] # "idle" /\ c # d => job[c].task # job[d].task
HeldIsRunning ==
  \A d \in Procs : Holds(d) => tasks[job[d].task].status = "running"
Recorder(d) ==
  \/ pc[d] = "amend"
  \/ pc[d] = "final" /\ tx[d] = "saved"
RecordedIsStopped ==
  \A d \in Procs : Recorder(d) => tasks[job[d].task].status \in L!Stopped

CarefulInv == RecordAlone /\ HeldIsRunning /\ RecordedIsStopped /\ SingleWriter

LEMMA CarefulInit == Init => CarefulInv
BY DEF Init, CarefulInv, RecordAlone, HeldIsRunning, RecordedIsStopped, SingleWriter,
   Holds, Recorder

(* A step of d that leaves the file alone and changes what d does, if it   *)
(* takes d neither into a claim nor into a record.                         *)
LEMMA LocalStep ==
  ASSUME Inv, CarefulInv, NEW d \in Procs, UNCHANGED tasks,
         \A c \in Procs \ {d} : pc'[c] = pc[c] /\ tx'[c] = tx[c] /\ job'[c] = job[c],
         pc'[d] # "idle" => job'[d].task = job[d].task /\ pc[d] # "idle",
         pc'[d] = "record" => pc[d] = "record",
         Holds(d)' => Holds(d),
         Recorder(d)' => Recorder(d)
  PROVE  CarefulInv'
<1>1. \A c \in Procs : (Holds(c)' => Holds(c)) /\ (Recorder(c)' => Recorder(c))
  BY DEF Holds, Recorder
<1>2. \A c \in Procs : Holds(c)' \/ Recorder(c)' => job'[c].task = job[c].task
  BY DEF Holds, Recorder
<1>3. HeldIsRunning'
  BY <1>1, <1>2 DEF CarefulInv, HeldIsRunning
<1>4. RecordedIsStopped'
  BY <1>1, <1>2 DEF CarefulInv, RecordedIsStopped
<1>5. SingleWriter'
  BY <1>1, <1>2 DEF CarefulInv, SingleWriter
<1>6. RecordAlone'
  BY DEF CarefulInv, RecordAlone
<1> QED
  BY <1>3, <1>4, <1>5, <1>6 DEF CarefulInv

(* The steps that leave the file alone. *)
LEMMA CarefulLocal ==
  ASSUME Inv, CarefulInv, NEW d \in Procs,
         \/ Acquire(d) \/ Busy(d) \/ Read(d) \/ Refuse(d) \/ Release(d)
         \/ ProviderFails(d) \/ ProviderReturns(d) \/ Crash(d) \/ Interrupt(d)
  PROVE  CarefulInv'
<1> USE DEF Inv, TypeOK
<1>1. CASE Acquire(d) \/ Read(d) \/ Refuse(d)
  BY <1>1, LocalStep, SMTT(30) DEF Acquire, Read, Refuse, Holds, Recorder
<1>2. CASE ProviderFails(d)
  BY <1>2, LocalStep, SMTT(30) DEF ProviderFails, Goto, Holds, Recorder
<1>3. CASE Crash(d) \/ Interrupt(d)
  BY <1>3, LocalStep, SMTT(30) DEF Crash, Interrupt, Gone, Exit, Holds, Recorder
<1>4. CASE ProviderReturns(d)
  <2>1. /\ pc[d] = "run" /\ tx[d] = "out" /\ UNCHANGED <<tasks, tx>>
        /\ pc' \in {[pc EXCEPT ![d] = "settle"], [pc EXCEPT ![d] = "final"]}
        /\ \/ UNCHANGED job
           \/ \E st, th : job' = [job EXCEPT ![d] = Ended(@, st, th)]
    BY <1>4 DEF ProviderReturns, Goto, LockHeld, Calls
  <2>2. job'[d].task = job[d].task /\ \A c \in Procs \ {d} : job'[c] = job[c]
    BY <2>1 DEF Ended
  <2> QED
    BY <2>1, <2>2, LocalStep DEF Holds, Recorder
<1>5. CASE Busy(d)
  <2>1. Continue(d, FALSE) /\ pc[d] \in Calls /\ tx[d] = "out" /\ UNCHANGED <<tasks, tx>>
    BY <1>5 DEF Busy
  <2>2. \/ pc[d] = "final" /\ pc' \in {[pc EXCEPT ![d] = "settle"]} /\ UNCHANGED job
        \/ pc' = [pc EXCEPT ![d] = "idle"] /\ job' = [job EXCEPT ![d] = NoJob]
    BY <2>1, <1>5 DEF Continue, Goto, Exit
  <2> QED
    BY <2>1, <2>2, LocalStep DEF Holds, Recorder
<1>6. CASE Release(d)
  <2>1. /\ Continue(d, tx[d] = "saved") /\ tx[d] \in {"saved", "failed"}
        /\ tx' = [tx EXCEPT ![d] = "out"] /\ UNCHANGED tasks
    BY <1>6 DEF Release
  <2>2. \/ pc[d] = "claim" /\ tx[d] = "saved" /\ pc' = [pc EXCEPT ![d] = "run"] /\ UNCHANGED job
        \/ pc[d] = "final" /\ tx[d] = "saved" /\ pc' = [pc EXCEPT ![d] = "amend"] /\ UNCHANGED job
        \/ pc[d] = "final" /\ tx[d] = "failed" /\ pc' = [pc EXCEPT ![d] = "settle"] /\ UNCHANGED job
        \/ pc' = [pc EXCEPT ![d] = "idle"] /\ job' = [job EXCEPT ![d] = NoJob]
    BY <2>1 DEF Continue, Goto, Exit
  <2> QED
    BY <2>1, <2>2, LocalStep DEF Holds, Recorder
<1> QED
  BY <1>1, <1>2, <1>3, <1>4, <1>5, <1>6

LEMMA CarefulStart ==
  ASSUME Careful, Inv, CarefulInv, NEW d \in Procs, NEW t \in Tasks,
         StartDispatch(d, t) \/ StartRecord(d, t)
  PROVE  CarefulInv'
<1>1. /\ pc[d] = "idle" /\ UNCHANGED <<tasks, tx>>
      /\ pc'[d] \in {"claim", "record"} /\ job'[d].task = t /\ tx[d] = "out"
      /\ \A c \in Procs \ {d} : pc'[c] = pc[c] /\ job'[c] = job[c]
  BY DEF StartDispatch, StartRecord, Start, Inv, TypeOK, LockHeld, Calls, NewJob
<1>2. /\ ~Holds(d)' /\ ~Recorder(d)'
      /\ \A c \in Procs \ {d} : (Holds(c)' <=> Holds(c)) /\ (Recorder(c)' <=> Recorder(c))
  BY <1>1 DEF Holds, Recorder
<1>3. HeldIsRunning' /\ RecordedIsStopped' /\ SingleWriter'
  BY <1>1, <1>2 DEF CarefulInv, HeldIsRunning, RecordedIsStopped, SingleWriter
<1>4. RecordAlone'
  <2>1. CASE StartDispatch(d, t)
    <3>1. \A c \in Procs : WorksOn(c, t) => pc[c] # "record"
      BY <2>1 DEF StartDispatch
    <3>2. pc'[d] = "claim"
      BY <2>1 DEF StartDispatch, Start, Inv, TypeOK
    <3> QED
      BY <1>1, <3>1, <3>2 DEF CarefulInv, RecordAlone, WorksOn
  <2>2. CASE StartRecord(d, t)
    <3>1. \A c \in Procs : ~WorksOn(c, t)
      BY <2>2 DEF StartRecord
    <3> QED
      BY <1>1, <3>1 DEF CarefulInv, RecordAlone, WorksOn
  <2> QED
    BY <2>1, <2>2
<1> QED
  BY <1>3, <1>4 DEF CarefulInv

LEMMA CarefulClaim ==
  ASSUME Inv, CarefulInv, NEW d \in Procs, SaveClaim(d)
  PROVE  /\ CarefulInv'
         /\ tasks[job[d].task].status \notin {"running"} \cup L!Stopped
         /\ Holds(d)' /\ job'[d].task = job[d].task
<1> DEFINE t == job[d].task
<1>1. PICK p \in Providers, s \in Sessions \cup {NoValue},
           i \in 0 .. MaxLimit, m \in 0 .. MaxLimit :
        /\ L!MayBegin(tasks[t], p, s, i, m)
        /\ Replace(d, L!Begun(tasks[t], p, s, i, m))
        /\ job' = [job EXCEPT ![d] = Claimed(@, p, s, i)]
  BY ClaimStep
<1>2. /\ t \in Tasks /\ pc[d] = "claim" /\ tx[d] = "read" /\ snap[d] = tasks
      /\ UNCHANGED pc /\ tx' = [tx EXCEPT ![d] = "saved"]
  BY DEF SaveClaim, Replace, Inv, TaskGiven, SnapCurrent
<1>3. tasks[t].status \notin {"running"} \cup L!Stopped
  BY <1>1 DEF L!MayBegin, L!NotRunning, L!NotStopped
<1>4. tasks'[t].status = "running" /\ \A u \in Tasks \ {t} : tasks'[u] = tasks[u]
  BY <1>1, <1>2 DEF Replace, L!Begun, Inv, TypeOK, L!TypeOK
<1>5. job'[d].task = t /\ \A c \in Procs \ {d} : job'[c] = job[c]
  BY <1>1 DEF Claimed, Inv, TypeOK
<1>6. /\ Holds(d)' /\ ~Recorder(d)'
      /\ \A c \in Procs \ {d} : (Holds(c)' <=> Holds(c)) /\ (Recorder(c)' <=> Recorder(c))
  BY <1>2 DEF Holds, Recorder, Inv, TypeOK
<1>7. \A c \in Procs \ {d} : Holds(c) \/ Recorder(c) => job[c].task \in Tasks \ {t}
  BY <1>3 DEF CarefulInv, HeldIsRunning, RecordedIsStopped, Inv, TaskGiven, Holds, Recorder
<1>8. HeldIsRunning' /\ RecordedIsStopped' /\ SingleWriter'
  BY <1>4, <1>5, <1>6, <1>7
  DEF CarefulInv, HeldIsRunning, RecordedIsStopped, SingleWriter
<1>9. RecordAlone'
  BY <1>2, <1>5 DEF CarefulInv, RecordAlone
<1> QED
  BY <1>3, <1>5, <1>6, <1>8, <1>9 DEF CarefulInv

LEMMA CarefulOutcome ==
  ASSUME Inv, CarefulInv, NEW d \in Procs, SaveOutcome(d)
  PROVE  /\ CarefulInv'
         /\ job[d].task \in Tasks /\ tasks'[job[d].task].status \in L!Stopped
         /\ \/ Holds(d) \/ tasks'[job[d].task].status = "unknown"
         /\ \A u \in Tasks \ {job[d].task} : tasks'[u] = tasks[u]
         /\ \A c \in Procs \ {d} : Holds(c)' <=> Holds(c)
         /\ UNCHANGED <<job, abandoned>>
<1> DEFINE t == job[d].task
<1>1. PICK st \in L!Stopped, p \in Providers \cup {NoValue},
           s \in Sessions \cup {NoValue} :
        /\ Replace(d, L!Recorded(snap[d][t], st, p, s))
        /\ pc[d] # "final" => st = "unknown"
  BY OutcomeStep
<1>2. /\ t \in Tasks /\ pc[d] \in {"final", "settle", "amend"} /\ tx[d] = "read"
      /\ snap[d] = tasks /\ UNCHANGED <<pc, job, abandoned>>
      /\ tx' = [tx EXCEPT ![d] = "saved"]
  BY DEF SaveOutcome, Replace, Inv, TaskGiven, SnapCurrent, history
<1>3. tasks'[t].status = st /\ \A u \in Tasks \ {t} : tasks'[u] = tasks[u]
  BY <1>1, <1>2 DEF Replace, L!Recorded, Inv, TypeOK, L!TypeOK
<1>4. /\ ~Holds(d)'
      /\ pc[d] # "amend" => Holds(d)
      /\ pc[d] = "amend" => Recorder(d)
      /\ \A c \in Procs \ {d} : (Holds(c)' <=> Holds(c)) /\ (Recorder(c)' <=> Recorder(c))
  BY <1>2 DEF Holds, Recorder, Inv, TypeOK
<1>5. \A c \in Procs \ {d} : Holds(c) => job[c].task \in Tasks \ {t}
  <2>1. "running" \notin L!Stopped
    BY DEF L!Stopped
  <2> QED
    BY <1>4, <2>1
    DEF CarefulInv, SingleWriter, HeldIsRunning, RecordedIsStopped, Inv, TaskGiven, Holds
<1>6. HeldIsRunning' /\ SingleWriter'
  BY <1>2, <1>3, <1>4, <1>5 DEF CarefulInv, HeldIsRunning, SingleWriter
<1>7. RecordedIsStopped'
  BY <1>2, <1>3, <1>4 DEF CarefulInv, RecordedIsStopped, Inv, TaskGiven, Recorder
<1>8. RecordAlone'
  BY <1>2 DEF CarefulInv, RecordAlone
<1> QED
  BY <1>1, <1>2, <1>3, <1>4, <1>6, <1>7, <1>8 DEF CarefulInv

LEMMA CarefulRecord ==
  ASSUME Inv, CarefulInv, NEW d \in Procs, SaveRecord(d)
  PROVE  /\ CarefulInv'
         /\ job[d].task \in Tasks /\ tasks'[job[d].task].status \in Statuses
         /\ \A u \in Tasks \ {job[d].task} : tasks'[u] = tasks[u]
         /\ \A c \in Procs : Holds(c)' <=> Holds(c)
         /\ UNCHANGED <<job, abandoned>>
<1> DEFINE t == job[d].task
<1>1. PICK st \in Statuses, p \in Providers \cup {NoValue},
           s \in Sessions \cup {NoValue} :
        Replace(d, L!Recorded(snap[d][t], st, p, s))
  BY DEF SaveRecord
<1>2. /\ t \in Tasks /\ pc[d] = "record" /\ tx[d] = "read"
      /\ snap[d] = tasks /\ UNCHANGED <<pc, job, abandoned>>
      /\ tx' = [tx EXCEPT ![d] = "saved"]
  BY DEF SaveRecord, Replace, Inv, TaskGiven, SnapCurrent, history
<1>3. tasks'[t].status = st /\ \A u \in Tasks \ {t} : tasks'[u] = tasks[u]
  BY <1>1, <1>2 DEF Replace, L!Recorded, Inv, TypeOK, L!TypeOK
<1>4. \A c \in Procs : (Holds(c)' <=> Holds(c)) /\ (Recorder(c)' <=> Recorder(c))
  BY <1>2 DEF Holds, Recorder, Inv, TypeOK
<1>5. \A c \in Procs : Holds(c) \/ Recorder(c) => job[c].task \in Tasks \ {t}
  BY <1>2 DEF CarefulInv, RecordAlone, Inv, TaskGiven, Holds, Recorder
<1>6. HeldIsRunning' /\ RecordedIsStopped' /\ SingleWriter' /\ RecordAlone'
  BY <1>2, <1>3, <1>4, <1>5
  DEF CarefulInv, HeldIsRunning, RecordedIsStopped, SingleWriter, RecordAlone
<1> QED
  BY <1>1, <1>2, <1>3, <1>4, <1>6 DEF CarefulInv

LEMMA CarefulNext ==
  ASSUME Careful PROVE Inv /\ CarefulInv /\ [Next]_vars => CarefulInv'
<1>1. SUFFICES ASSUME Inv, CarefulInv, [Next]_vars PROVE CarefulInv'
  OBVIOUS
<1>2. ASSUME NEW d \in Procs,
             Step(d) \/ ProviderReturns(d) \/ Crash(d) \/ Interrupt(d)
      PROVE  CarefulInv'
  BY <1>1, <1>2, CarefulLocal, CarefulClaim, CarefulOutcome, CarefulRecord DEF Step
<1>3. ASSUME NEW d \in Procs, NEW t \in Tasks,
             StartDispatch(d, t) \/ StartRecord(d, t)
      PROVE  CarefulInv'
  BY <1>1, <1>3, CarefulStart
<1>4. CASE RemoveStaleLock \/ UNCHANGED vars
  BY <1>1, <1>4
  DEF RemoveStaleLock, vars, CarefulInv, RecordAlone, HeldIsRunning,
      RecordedIsStopped, SingleWriter, Holds, Recorder
<1> QED
  BY <1>1, <1>2, <1>3, <1>4 DEF Next

LEMMA CarefulInvariance == ASSUME Careful PROVE Spec => [](Inv /\ CarefulInv)
<1>1. Init => Inv /\ CarefulInv
  BY InitInv, CarefulInit
<1>2. Inv /\ CarefulInv /\ [Next]_vars => (Inv /\ CarefulInv)'
  BY NextInv, CarefulNext
<1> QED
  BY <1>1, <1>2, PTL DEF Spec

(* Two processes never hold a claim on the same task, when the operator    *)
(* records a task only while no command works on it.                       *)
THEOREM NoDuplicateWriter == ASSUME Careful PROVE Spec => []SingleWriter
<1>1. Inv /\ CarefulInv => SingleWriter
  BY DEF CarefulInv
<1> QED
  BY <1>1, CarefulInvariance, PTL

-----------------------------------------------------------------------------
(* A step of d that leaves the file alone. *)
LEMMA AccountedLocal ==
  ASSUME Inv, RunningIsHeld, NEW d \in Procs, UNCHANGED tasks,
         \A c \in Procs \ {d} : pc'[c] = pc[c] /\ tx'[c] = tx[c] /\ job'[c] = job[c],
         abandoned \subseteq abandoned',
         Holds(d) => \/ Holds(d)' /\ job'[d].task = job[d].task
                     \/ job[d].task \in abandoned'
  PROVE  RunningIsHeld'
<1>1. \A c \in Procs \ {d} : Holds(c)' <=> Holds(c)
  BY DEF Holds
<1> QED
  BY <1>1 DEF RunningIsHeld

LEMMA AccountedSteps ==
  ASSUME Inv, RunningIsHeld, NEW d \in Procs,
         \/ Acquire(d) \/ Busy(d) \/ Read(d) \/ Refuse(d) \/ Release(d)
         \/ ProviderFails(d) \/ ProviderReturns(d) \/ Crash(d) \/ Interrupt(d)
  PROVE  RunningIsHeld'
<1> USE DEF Inv, TypeOK
<1>1. CASE Acquire(d) \/ Read(d) \/ Refuse(d)
  BY <1>1, AccountedLocal, SMTT(30) DEF Acquire, Read, Refuse, Holds, history
<1>2. CASE ProviderFails(d)
  BY <1>2, AccountedLocal DEF ProviderFails, Goto, Holds, history, LockHeld, Calls
<1>3. CASE Crash(d) \/ Interrupt(d)
  BY <1>3, AccountedLocal DEF Crash, Interrupt, Gone, Exit, Abandon
<1>4. CASE ProviderReturns(d)
  <2>1. /\ pc[d] = "run" /\ tx[d] = "out" /\ UNCHANGED <<tasks, tx, abandoned>>
        /\ pc' \in {[pc EXCEPT ![d] = "settle"], [pc EXCEPT ![d] = "final"]}
        /\ \/ UNCHANGED job
           \/ \E st, th : job' = [job EXCEPT ![d] = Ended(@, st, th)]
    BY <1>4 DEF ProviderReturns, Goto, LockHeld, Calls
  <2>2. job'[d].task = job[d].task /\ \A c \in Procs \ {d} : job'[c] = job[c]
    BY <2>1 DEF Ended
  <2>3. Holds(d)'
    BY <2>1 DEF Holds
  <2> QED
    BY <2>1, <2>2, <2>3, AccountedLocal
<1>5. CASE Busy(d)
  <2>1. Continue(d, FALSE) /\ tx[d] = "out" /\ UNCHANGED <<tasks, tx>>
    BY <1>5 DEF Busy
  <2>2. CASE pc[d] = "final" /\ pc' = [pc EXCEPT ![d] = "settle"] /\ UNCHANGED <<job, history>>
    BY <2>1, <2>2, AccountedLocal DEF Holds, history
  <2>3. CASE /\ pc' = [pc EXCEPT ![d] = "idle"] /\ job' = [job EXCEPT ![d] = NoJob]
             /\ Abandon(d)
    BY <2>1, <2>3, AccountedLocal DEF Abandon
  <2> QED
    BY <2>1, <2>2, <2>3 DEF Continue, Goto, Exit
<1>6. CASE Release(d)
  <2>1. /\ Continue(d, tx[d] = "saved") /\ tx[d] \in {"saved", "failed"}
        /\ tx' = [tx EXCEPT ![d] = "out"] /\ UNCHANGED tasks
    BY <1>6 DEF Release
  <2>2. CASE /\ pc[d] = "claim" /\ tx[d] = "saved" /\ pc' = [pc EXCEPT ![d] = "run"]
             /\ UNCHANGED <<job, abandoned>>
    BY <2>1, <2>2, AccountedLocal DEF Holds
  <2>3. CASE /\ pc[d] = "final" /\ UNCHANGED <<job, history>>
             /\ pc' = [pc EXCEPT ![d] = IF tx[d] = "saved" THEN "amend" ELSE "settle"]
    BY <2>1, <2>3, AccountedLocal DEF Holds, history
  <2>4. CASE /\ pc' = [pc EXCEPT ![d] = "idle"] /\ job' = [job EXCEPT ![d] = NoJob]
             /\ Abandon(d)
    BY <2>1, <2>4, AccountedLocal DEF Abandon
  <2> QED
    BY <2>1, <2>2, <2>3, <2>4 DEF Continue, Goto, Exit
<1> QED
  BY <1>1, <1>2, <1>3, <1>4, <1>5, <1>6

LEMMA AccountedNext ==
  ASSUME Careful, "running" \notin Statuses
  PROVE  Inv /\ CarefulInv /\ RunningIsHeld /\ [Next]_vars => RunningIsHeld'
<1>1. SUFFICES ASSUME Inv, CarefulInv, RunningIsHeld, [Next]_vars
               PROVE RunningIsHeld'
  OBVIOUS
<1>2. ASSUME NEW d \in Procs, SaveClaim(d) PROVE RunningIsHeld'
  <2>1. /\ Holds(d)' /\ job'[d].task = job[d].task /\ job[d].task \in Tasks
        /\ abandoned' = abandoned \ {job[d].task} /\ pc[d] = "claim" /\ tx[d] = "read"
    BY <1>1, <1>2, CarefulClaim DEF SaveClaim, Inv, TaskGiven
  <2>2. /\ \A u \in Tasks \ {job[d].task} : tasks'[u] = tasks[u]
        /\ \A c \in Procs \ {d} : job'[c] = job[c] /\ (Holds(c)' <=> Holds(c))
    BY <1>1, <1>2, <2>1 DEF SaveClaim, Replace, Inv, TypeOK, SnapCurrent, L!TypeOK, Holds
  <2>3. ~Holds(d)
    BY <2>1 DEF Holds
  <2> QED
    BY <1>1, <2>1, <2>2, <2>3 DEF RunningIsHeld
<1>3. ASSUME NEW d \in Procs, SaveOutcome(d) PROVE RunningIsHeld'
  BY <1>1, <1>3, CarefulOutcome DEF RunningIsHeld, L!Stopped
<1>4. ASSUME NEW d \in Procs, SaveRecord(d) PROVE RunningIsHeld'
  BY <1>1, <1>4, CarefulRecord DEF RunningIsHeld
<1>5. ASSUME NEW d \in Procs,
             \/ Step(d) /\ ~SaveClaim(d) /\ ~SaveOutcome(d) /\ ~SaveRecord(d)
             \/ ProviderReturns(d) \/ Crash(d) \/ Interrupt(d)
      PROVE  RunningIsHeld'
  BY <1>1, <1>5, AccountedSteps DEF Step
<1>6. ASSUME NEW d \in Procs, NEW t \in Tasks,
             StartDispatch(d, t) \/ StartRecord(d, t)
      PROVE  RunningIsHeld'
  <2>1. /\ ~Holds(d) /\ UNCHANGED <<tasks, tx, abandoned>>
        /\ \A c \in Procs \ {d} : pc'[c] = pc[c] /\ job'[c] = job[c]
    BY <1>1, <1>6
    DEF StartDispatch, StartRecord, Start, Holds, history, Inv, TypeOK
  <2> QED
    BY <1>1, <2>1, AccountedLocal
<1>7. CASE RemoveStaleLock \/ UNCHANGED vars
  BY <1>1, <1>7 DEF RemoveStaleLock, vars, history, RunningIsHeld, Holds
<1> QED
  BY <1>1, <1>2, <1>3, <1>4, <1>5, <1>6, <1>7 DEF Next

(* A task that is "running" has a holder, or its process ended without an  *)
(* outcome, whatever crashes, interrupts, timeouts and failed writes       *)
(* happen; the operator is careful and never writes "running" by hand.     *)
THEOREM NoLostClaim ==
  ASSUME Careful, "running" \notin Statuses PROVE Spec => []RunningIsHeld
<1>1. Init => RunningIsHeld
  <2>1. SUFFICES ASSUME Init PROVE \A t \in Tasks : tasks[t].status # "running"
    BY DEF RunningIsHeld
  <2>2. NoValue # "running"
    BY DispatchAssumption DEF L!Status
  <2> QED
    BY <2>1, <2>2 DEF Init, L!Init, L!Absent
<1> QED
  BY <1>1, AccountedNext, CarefulInvariance, PTL DEF Spec

-----------------------------------------------------------------------------
(* A dispatch that has recorded its outcome and may still withdraw it: the *)
(* task's status is then the outcome it recorded, and no other dispatch of *)
(* the task is in that position.                                           *)
Withdraws(d) ==
  \/ pc[d] = "amend" /\ tx[d] # "saved"
  \/ pc[d] = "final" /\ tx[d] = "saved"
OutcomeIsOwn ==
  \A d \in Procs : Withdraws(d) => tasks[job[d].task].status = job[d].status
OneWithdraws ==
  \A c, d \in Procs :
    Withdraws(c) /\ Withdraws(d) /\ job[c].task = job[d].task => c = d
OwnInv == OutcomeIsOwn /\ OneWithdraws

(* A step that leaves the file alone and lets no dispatch withdraw more. *)
LEMMA OwnLocal ==
  ASSUME OwnInv, UNCHANGED tasks,
         \A d \in Procs : Withdraws(d)' => Withdraws(d) /\ job'[d] = job[d]
  PROVE  OwnInv'
BY DEF OwnInv, OutcomeIsOwn, OneWithdraws

LEMMA OwnSteps ==
  ASSUME Inv, OwnInv, NEW d \in Procs,
         \/ Acquire(d) \/ Busy(d) \/ Read(d) \/ Refuse(d) \/ Release(d)
         \/ ProviderFails(d) \/ ProviderReturns(d) \/ Crash(d) \/ Interrupt(d)
         \/ \E t \in Tasks : StartDispatch(d, t) \/ StartRecord(d, t)
  PROVE  OwnInv' /\ UNCHANGED tasks
<1>1. UNCHANGED tasks
  BY DEF Acquire, Busy, Read, Refuse, Release, ProviderFails, ProviderReturns, Crash,
         Interrupt, Gone, StartDispatch, StartRecord, Start
<1>2. /\ pc \in [Procs -> PC] /\ tx \in [Procs -> Tx] /\ job \in [Procs -> Job]
      /\ tx[d] # "out" => pc[d] \in Calls
  BY DEF Inv, TypeOK, LockHeld
<1>3. \A c \in Procs \ {d} : pc'[c] = pc[c] /\ tx'[c] = tx[c] /\ job'[c] = job[c]
  BY <1>2
  DEF Acquire, Busy, Read, Refuse, Release, ProviderFails, ProviderReturns, Crash,
      Interrupt, Gone, StartDispatch, StartRecord, Start, Continue, Goto, Exit
<1>4. Withdraws(d)' => Withdraws(d) /\ job'[d] = job[d]
  <2>1. CASE Acquire(d) \/ Read(d) \/ Refuse(d) \/ ProviderFails(d)
    BY <1>2, <2>1
    DEF Acquire, Read, Refuse, ProviderFails, Goto, Withdraws
  <2>2. CASE Crash(d) \/ Interrupt(d)
    BY <1>2, <2>2 DEF Crash, Interrupt, Gone, Exit, Withdraws
  <2>3. CASE \E t \in Tasks : StartDispatch(d, t) \/ StartRecord(d, t)
    BY <1>2, <2>3 DEF StartDispatch, StartRecord, Start, Withdraws
  <2>4. CASE Busy(d)
    BY <1>2, <2>4 DEF Busy, Continue, Goto, Exit, Withdraws
  <2>5. CASE Release(d)
    BY <1>2, <2>5 DEF Release, Continue, Goto, Exit, Withdraws
  <2>6. CASE ProviderReturns(d)
    <3>1. pc'[d] \in {"settle", "final"} /\ tx'[d] = "out"
      BY <1>2, <2>6 DEF ProviderReturns, Goto, Calls
    <3> QED
      BY <3>1 DEF Withdraws
  <2> QED
    BY <2>1, <2>2, <2>3, <2>4, <2>5, <2>6
<1>5. \A c \in Procs \ {d} : Withdraws(c)' <=> Withdraws(c)
  BY <1>3 DEF Withdraws
<1>6. \A c \in Procs : Withdraws(c)' => Withdraws(c) /\ job'[c] = job[c]
  BY <1>3, <1>4, <1>5
<1> QED
  BY <1>1, <1>6, OwnLocal

(* A write by d to the entry of its task, which no other dispatch may      *)
(* withdraw; d itself may from now on, if this is its outcome.             *)
LEMMA OwnWrite ==
  ASSUME Inv, OwnInv, NEW d \in Procs, UNCHANGED pc,
         tx' = [tx EXCEPT ![d] = "saved"],
         \A c \in Procs \ {d} : job'[c] = job[c],
         \A c \in Procs \ {d} : Withdraws(c) => job[c].task # job[d].task,
         job'[d].task = job[d].task,
         \A u \in Tasks \ {job[d].task} : tasks'[u] = tasks[u],
         pc[d] = "final" => tasks'[job[d].task].status = job'[d].status
  PROVE  OwnInv'
<1>1. \A c \in Procs : pc[c] # "idle" => job[c].task \in Tasks
  BY DEF Inv, TaskGiven
<1>2. /\ Withdraws(d)' => pc[d] = "final"
      /\ \A c \in Procs \ {d} : (Withdraws(c)' <=> Withdraws(c))
      /\ \A c \in Procs : Withdraws(c) => pc[c] # "idle"
  BY DEF Withdraws, Inv, TypeOK
<1>3. \A c \in Procs \ {d} :
        Withdraws(c)' => /\ tasks'[job'[c].task].status = job'[c].status
                         /\ job'[c].task # job'[d].task
  BY <1>1, <1>2 DEF OwnInv, OutcomeIsOwn
<1>4. OutcomeIsOwn'
  BY <1>2, <1>3 DEF OutcomeIsOwn
<1>5. OneWithdraws'
  BY <1>2, <1>3 DEF OwnInv, OneWithdraws
<1> QED
  BY <1>4, <1>5 DEF OwnInv

(* What may happen to the status of a task that has stopped. *)
Reopens(t) ==
  \E d \in Procs :
    /\ Saves(d, t)
    /\ \/ pc[d] = "record" /\ tasks'[t].status \in Statuses
       \/ /\ pc[d] = "amend" /\ tasks'[t].status = "unknown"
          /\ job[d].status = tasks[t].status
Final ==
  \A t \in Tasks :
    tasks[t].status \in L!Stopped /\ tasks'[t].status # tasks[t].status => Reopens(t)

LEMMA OwnClaim ==
  ASSUME Inv, CarefulInv, OwnInv, NEW d \in Procs, SaveClaim(d)
  PROVE  OwnInv' /\ Final
<1> DEFINE t == job[d].task
<1>1. /\ t \in Tasks /\ pc[d] = "claim" /\ snap[d] = tasks
      /\ \E e : Replace(d, e)
      /\ \A c \in Procs \ {d} : job'[c] = job[c]
  BY ClaimStep DEF SaveClaim, Inv, TypeOK, TaskGiven, SnapCurrent
<1>2. tasks[t].status \notin L!Stopped /\ job'[d].task = t
  BY CarefulClaim
<1>3. /\ UNCHANGED pc /\ tx' = [tx EXCEPT ![d] = "saved"]
      /\ \A u \in Tasks \ {t} : tasks'[u] = tasks[u]
  BY <1>1 DEF Replace, Inv, TypeOK, L!TypeOK
<1>4. \A c \in Procs : Withdraws(c) => job[c].task # t
  BY <1>2 DEF CarefulInv, RecordedIsStopped, Recorder, Withdraws
<1>5. OwnInv'
  BY <1>1, <1>2, <1>3, <1>4, OwnWrite
<1>6. Final
  BY <1>2, <1>3 DEF Final
<1> QED
  BY <1>5, <1>6

LEMMA OwnOutcome ==
  ASSUME Inv, CarefulInv, OwnInv, NEW d \in Procs, SaveOutcome(d)
  PROVE  OwnInv' /\ Final
<1> DEFINE t == job[d].task
<1>1. PICK st \in L!Stopped, p \in Providers \cup {NoValue},
           s \in Sessions \cup {NoValue} :
        /\ Replace(d, L!Recorded(snap[d][t], st, p, s))
        /\ pc[d] # "final" => st = "unknown"
        /\ pc[d] = "final" => st = job[d].status
  BY OutcomeStep
<1>2. /\ t \in Tasks /\ pc[d] \in {"final", "settle", "amend"} /\ tx[d] = "read"
      /\ snap[d] = tasks /\ UNCHANGED <<pc, job>>
      /\ tx' = [tx EXCEPT ![d] = "saved"]
  BY DEF SaveOutcome, Replace, Inv, TaskGiven, SnapCurrent
<1>3. tasks'[t].status = st /\ \A u \in Tasks \ {t} : tasks'[u] = tasks[u]
  BY <1>1, <1>2 DEF Replace, L!Recorded, Inv, TypeOK, L!TypeOK
<1>4. /\ pc[d] # "amend" => tasks[t].status \notin L!Stopped
      /\ pc[d] = "amend" => Withdraws(d)
  BY <1>2 DEF CarefulInv, HeldIsRunning, Holds, Withdraws, L!Stopped
<1>5. \A c \in Procs \ {d} : Withdraws(c) => job[c].task # t
  BY <1>4 DEF CarefulInv, RecordedIsStopped, Recorder, Withdraws, OwnInv, OneWithdraws
<1>6. OwnInv'
  BY <1>1, <1>2, <1>3, <1>5, OwnWrite
<1>7. Final
  <2>1. CASE pc[d] # "amend"
    BY <1>3, <1>4, <2>1 DEF Final
  <2>2. CASE pc[d] = "amend"
    <3>1. Saves(d, t)
      BY <1>2 DEF Saves, Inv, TypeOK
    <3>2. job[d].status = tasks[t].status /\ st = "unknown"
      BY <1>1, <1>4, <2>2 DEF OwnInv, OutcomeIsOwn
    <3>3. Reopens(t)
      BY <1>3, <2>2, <3>1, <3>2 DEF Reopens
    <3> QED
      BY <1>3, <3>3 DEF Final
  <2> QED
    BY <2>1, <2>2
<1> QED
  BY <1>6, <1>7

LEMMA OwnRecord ==
  ASSUME Inv, CarefulInv, OwnInv, NEW d \in Procs, SaveRecord(d)
  PROVE  OwnInv' /\ Final
<1> DEFINE t == job[d].task
<1>1. /\ t \in Tasks /\ tasks'[t].status \in Statuses
      /\ \A u \in Tasks \ {t} : tasks'[u] = tasks[u]
      /\ UNCHANGED job
  BY CarefulRecord
<1>2. /\ pc[d] = "record" /\ tx[d] = "read" /\ UNCHANGED pc
      /\ tx' = [tx EXCEPT ![d] = "saved"]
  BY DEF SaveRecord, Replace
<1>3. \A c \in Procs \ {d} : Withdraws(c) => job[c].task # t
  BY <1>2 DEF CarefulInv, RecordAlone, Withdraws
<1>4. OwnInv'
  BY <1>1, <1>2, <1>3, OwnWrite
<1>5. Reopens(t)
  BY <1>1, <1>2 DEF Reopens, Saves, Inv, TypeOK
<1>6. Final
  BY <1>1, <1>5 DEF Final
<1> QED
  BY <1>4, <1>6

LEMMA OwnNext ==
  ASSUME Inv, CarefulInv, OwnInv, [Next]_vars
  PROVE  OwnInv' /\ [Final]_tasks
<1>1. CASE RemoveStaleLock \/ UNCHANGED vars
  BY <1>1
  DEF RemoveStaleLock, vars, OwnInv, OutcomeIsOwn, OneWithdraws, Withdraws
<1> QED
  BY <1>1, OwnClaim, OwnOutcome, OwnRecord, OwnSteps DEF Next, Step

(* A task that stopped is reopened by the operator alone: no dispatch      *)
(* overwrites its outcome but the one that recorded it, which may withdraw *)
(* it while it still stands.                                               *)
THEOREM OutcomeStays == ASSUME Careful PROVE Spec => OutcomeIsFinal
<1>1. Init => OwnInv
  BY DEF Init, OwnInv, OutcomeIsOwn, OneWithdraws, Withdraws
<1>2. Inv /\ CarefulInv /\ OwnInv /\ [Next]_vars => OwnInv' /\ [Final]_tasks
  BY OwnNext
<1>3. [Final]_tasks =>
        [\A t \in Tasks :
           tasks[t].status \in L!Stopped /\ tasks'[t].status # tasks[t].status =>
             \E d \in Procs :
               /\ Saves(d, t)
               /\ \/ pc[d] = "record" /\ tasks'[t].status \in Statuses
                  \/ /\ pc[d] = "amend" /\ tasks'[t].status = "unknown"
                     /\ job[d].status = tasks[t].status]_tasks
  BY DEF Final, Reopens
<1> QED
  BY <1>1, <1>2, <1>3, CarefulInvariance, PTL DEF Spec, OutcomeIsFinal

-----------------------------------------------------------------------------
(* An outcome "complete" that waits to be recorded has been verified. *)
OutcomeProven ==
  \A d \in Procs :
    pc[d] = "final" /\ job[d].status = "complete" => job[d].task \in proven

CompleteInv == CompleteIsProven /\ OutcomeProven

(* A step that leaves the file alone and makes no new outcome. *)
LEMMA CompleteLocal ==
  ASSUME CompleteInv, UNCHANGED tasks, proven \subseteq proven',
         \A d \in Procs : pc'[d] = "final" => pc[d] = "final" /\ job'[d] = job[d]
  PROVE  CompleteInv'
BY DEF CompleteInv, CompleteIsProven, OutcomeProven

LEMMA CompleteReturns ==
  ASSUME Inv, CompleteInv, NEW d \in Procs, ProviderReturns(d)
  PROVE  CompleteInv'
<1>1. PICK rc0 \in BOOLEAN, sid \in Sessions \cup {NoValue},
           evidence \in {"none", "complete", "not_complete", "invalid"} :
        IF SessionDrift(d, sid) \/ evidence = "invalid"
        THEN Goto(d, "settle") /\ UNCHANGED proven
        ELSE /\ pc' = [pc EXCEPT ![d] = "final"]
             /\ job' = [job EXCEPT ![d] =
                  Ended(@, OutcomeStatus(rc0, evidence),
                        IF sid # NoValue THEN sid ELSE @.session)]
             /\ proven' = IF rc0 /\ evidence = "complete"
                          THEN proven \cup {job[d].task} ELSE proven
  BY DEF ProviderReturns
<1>2. UNCHANGED tasks
  BY DEF ProviderReturns
<1>3. CASE SessionDrift(d, sid) \/ evidence = "invalid"
  BY <1>1, <1>2, <1>3, CompleteLocal DEF Goto, Inv, TypeOK
<1>4. CASE ~(SessionDrift(d, sid) \/ evidence = "invalid")
  <2> DEFINE th == IF sid # NoValue THEN sid ELSE job[d].session
             j  == Ended(job[d], OutcomeStatus(rc0, evidence), th)
  <2>1. /\ pc' = [pc EXCEPT ![d] = "final"] /\ job' = [job EXCEPT ![d] = j]
        /\ proven' = IF rc0 /\ evidence = "complete"
                     THEN proven \cup {job[d].task} ELSE proven
    BY <1>1, <1>4
  <2>2. /\ j.task = job[d].task
        /\ j.status = "complete" => rc0 /\ evidence = "complete"
    BY DEF Ended, OutcomeStatus
  <2> HIDE DEF j
  <2>3. OutcomeProven'
    BY <2>1, <2>2 DEF CompleteInv, OutcomeProven, Inv, TypeOK
  <2>4. CompleteIsProven'
    BY <1>2, <2>1 DEF CompleteInv, CompleteIsProven
  <2> QED
    BY <2>3, <2>4 DEF CompleteInv
<1> QED
  BY <1>3, <1>4

(* A write to the file by d, of a status that is not "complete" or that d  *)
(* has the evidence for.                                                   *)
LEMMA CompleteWrite ==
  ASSUME Inv, CompleteInv, NEW d \in Procs, NEW e, Replace(d, e), tx[d] = "read",
         pc[d] \in Calls, UNCHANGED proven,
         pc[d] = "claim" \/ UNCHANGED job,
         \A c \in Procs \ {d} : job'[c] = job[c],
         e.status = "complete" => job[d].task \in proven
  PROVE  CompleteInv'
<1>1. job[d].task \in Tasks /\ snap[d] = tasks
  BY DEF Inv, TaskGiven, SnapCurrent, Calls
<1>2. tasks' = [tasks EXCEPT ![job[d].task] = e] /\ UNCHANGED pc
  BY <1>1 DEF Replace
<1>3. CompleteIsProven'
  BY <1>1, <1>2 DEF CompleteInv, CompleteIsProven, Inv, TypeOK, L!TypeOK
<1>4. OutcomeProven'
  BY <1>2 DEF CompleteInv, OutcomeProven
<1> QED
  BY <1>3, <1>4 DEF CompleteInv

LEMMA CompleteNext ==
  ASSUME "complete" \notin Statuses
  PROVE  Inv /\ CompleteInv /\ [Next]_vars => CompleteInv'
<1>1. SUFFICES ASSUME Inv, CompleteInv, [Next]_vars PROVE CompleteInv'
  OBVIOUS
<1>2. ASSUME NEW d \in Procs, SaveClaim(d) PROVE CompleteInv'
  <2>1. PICK p \in Providers, s \in Sessions \cup {NoValue},
             i \in 0 .. MaxLimit, m \in 0 .. MaxLimit :
          /\ Replace(d, L!Begun(tasks[job[d].task], p, s, i, m))
          /\ job' = [job EXCEPT ![d] = Claimed(@, p, s, i)]
    BY <1>1, <1>2, ClaimStep
  <2>2. L!Begun(tasks[job[d].task], p, s, i, m).status # "complete"
    BY DEF L!Begun
  <2>3. /\ tx[d] = "read" /\ pc[d] = "claim" /\ UNCHANGED proven
        /\ \A c \in Procs \ {d} : job'[c] = job[c]
    BY <1>1, <1>2, <2>1 DEF SaveClaim, Inv, TypeOK
  <2> QED
    BY <1>1, <2>1, <2>2, <2>3, CompleteWrite DEF Calls
<1>3. ASSUME NEW d \in Procs, SaveOutcome(d) PROVE CompleteInv'
  <2>1. PICK st \in L!Stopped, p \in Providers \cup {NoValue},
             s \in Sessions \cup {NoValue} :
          /\ Replace(d, L!Recorded(snap[d][job[d].task], st, p, s))
          /\ pc[d] # "final" => st = "unknown"
          /\ pc[d] = "final" => st = job[d].status
    BY <1>1, <1>3, OutcomeStep
  <2>2. /\ tx[d] = "read" /\ pc[d] \in Calls /\ UNCHANGED <<proven, job>>
    BY <1>3 DEF SaveOutcome, history, Calls
  <2>3. st = "complete" => job[d].task \in proven
    BY <1>1, <2>1 DEF CompleteInv, OutcomeProven
  <2>4. L!Recorded(snap[d][job[d].task], st, p, s).status = st
    BY DEF L!Recorded
  <2> QED
    BY <1>1, <2>1, <2>2, <2>3, <2>4, CompleteWrite
<1>4. ASSUME NEW d \in Procs, SaveRecord(d) PROVE CompleteInv'
  <2>1. PICK st \in Statuses, p \in Providers \cup {NoValue},
             s \in Sessions \cup {NoValue} :
          Replace(d, L!Recorded(snap[d][job[d].task], st, p, s))
    BY <1>4 DEF SaveRecord
  <2>2. /\ tx[d] = "read" /\ pc[d] \in Calls /\ UNCHANGED <<proven, job>>
    BY <1>4 DEF SaveRecord, history, Calls
  <2>3. L!Recorded(snap[d][job[d].task], st, p, s).status # "complete"
    BY DEF L!Recorded
  <2> QED
    BY <1>1, <2>1, <2>2, <2>3, CompleteWrite
<1>5. ASSUME NEW d \in Procs, ProviderReturns(d) PROVE CompleteInv'
  BY <1>1, <1>5, CompleteReturns
<1>6. ASSUME NEW d \in Procs, Busy(d) \/ Release(d) PROVE CompleteInv'
  <2>1. \E ok \in BOOLEAN : Continue(d, ok)
    BY <1>6 DEF Busy, Release
  <2>2. UNCHANGED tasks /\ pc[d] \in Calls /\ UNCHANGED proven
    BY <1>1, <1>6, <2>1 DEF Busy, Release, Continue, history, Inv, LockHeld
  <2>3. \A c \in Procs : pc'[c] = "final" => pc[c] = "final" /\ job'[c] = job[c]
    BY <1>1, <2>1 DEF Continue, Goto, Exit, Inv, TypeOK
  <2> QED
    BY <1>1, <2>2, <2>3, CompleteLocal
<1>7. ASSUME NEW d \in Procs,
             \/ Acquire(d) \/ Read(d) \/ Refuse(d) \/ ProviderFails(d)
             \/ Crash(d) \/ Interrupt(d)
      PROVE  CompleteInv'
  <2>1. UNCHANGED <<tasks, proven>>
    BY <1>7
    DEF Acquire, Read, Refuse, ProviderFails, Crash, Interrupt, Gone, history
  <2>2. \A c \in Procs : pc'[c] = "final" => pc[c] = "final" /\ job'[c] = job[c]
    BY <1>1, <1>7
    DEF Acquire, Read, Refuse, ProviderFails, Crash, Interrupt, Gone, Goto, Exit,
        Inv, TypeOK
  <2> QED
    BY <1>1, <2>1, <2>2, CompleteLocal
<1>8. ASSUME NEW d \in Procs, NEW t \in Tasks,
             StartDispatch(d, t) \/ StartRecord(d, t)
      PROVE  CompleteInv'
  <2>1. UNCHANGED <<tasks, proven>>
    BY <1>8 DEF StartDispatch, StartRecord, Start, history
  <2>2. \A c \in Procs : pc'[c] = "final" => pc[c] = "final" /\ job'[c] = job[c]
    BY <1>1, <1>8 DEF StartDispatch, StartRecord, Start, Inv, TypeOK
  <2> QED
    BY <1>1, <2>1, <2>2, CompleteLocal
<1>9. CASE RemoveStaleLock \/ UNCHANGED vars
  BY <1>1, <1>9, CompleteLocal DEF RemoveStaleLock, vars, history
<1> QED
  BY <1>1, <1>2, <1>3, <1>4, <1>5, <1>6, <1>7, <1>8, <1>9 DEF Next, Step

(* "complete" stands in the file only for a task of which a run returned 0 *)
(* with evidence that verified, whatever crashes and races happen, as long *)
(* as no operator writes "complete" by hand.                               *)
THEOREM CompleteNeedsProof ==
  ASSUME "complete" \notin Statuses PROVE Spec => []CompleteIsProven
<1>1. Init => CompleteInv
  <2>1. NoValue # "complete"
    BY DispatchAssumption DEF L!Status, L!Stopped
  <2> QED
    BY <2>1
    DEF Init, L!Init, L!Absent, CompleteInv, CompleteIsProven, OutcomeProven
<1>2. CompleteInv => CompleteIsProven
  BY DEF CompleteInv
<1> QED
  BY <1>1, <1>2, CompleteNext, Invariance, PTL DEF Spec

-----------------------------------------------------------------------------
(* The entry of a task carries the provider and the session of every       *)
(* process that claimed it and is not done; while that process has no      *)
(* session, neither has the entry, and the session it found may be new.    *)
Named(d) ==
  LET e == tasks[job[d].task] IN
  /\ e.provider = job[d].provider
  /\ job[d].session # NoValue => e.thread = job[d].session
SessionOpen(d) ==
  job[d].session = NoValue => tasks[job[d].task].thread = NoValue
SessionKept(d) ==
  pc[d] = "final" /\ job[d].session # NoValue => job[d].thread = job[d].session

IdentityInv ==
  /\ \A d \in Procs : Holds(d) \/ Recorder(d) => Named(d)
  /\ \A d \in Procs : Holds(d) => SessionOpen(d)
  /\ \A d \in Procs : SessionKept(d)

Kept ==
  \A t \in Tasks :
    /\ tasks[t].provider # NoValue => tasks'[t].provider = tasks[t].provider
    /\ tasks[t].thread # NoValue => tasks'[t].thread = tasks[t].thread

(* A step that leaves the file alone and makes no new claim or outcome. *)
LEMMA IdentityLocal ==
  ASSUME IdentityInv, UNCHANGED tasks,
         \A d \in Procs : (Holds(d) \/ Recorder(d))' => Holds(d) \/ Recorder(d),
         \A d \in Procs : Holds(d)' => Holds(d),
         \A d \in Procs : pc'[d] # "idle" /\ job'[d] # job[d] => pc[d] = "idle",
         \A d \in Procs : pc'[d] = "final" => pc[d] = "final"
  PROVE  IdentityInv'
<1>1. \A d \in Procs : (Holds(d) \/ Recorder(d))' => job'[d] = job[d]
  BY DEF Holds, Recorder
<1>2. \A d \in Procs : pc'[d] = "final" => job'[d] = job[d]
  OBVIOUS
<1> QED
  BY <1>1, <1>2 DEF IdentityInv, Named, SessionOpen, SessionKept

LEMMA IdentityReturns ==
  ASSUME Inv, IdentityInv, NEW d \in Procs, ProviderReturns(d)
  PROVE  IdentityInv'
<1>1. /\ pc[d] = "run" /\ tx[d] = "out" /\ UNCHANGED <<tasks, tx>> /\ Holds(d)
  BY DEF ProviderReturns, Inv, LockHeld, Calls, Holds
<1>2. /\ \A c \in Procs \ {d} : pc'[c] = pc[c] /\ job'[c] = job[c]
      /\ job'[d].task = job[d].task /\ job'[d].provider = job[d].provider
      /\ job'[d].session = job[d].session
      /\ SessionKept(d)'
  <2>1. PICK rc0 \in BOOLEAN, sid \in Sessions \cup {NoValue},
             evidence \in {"none", "complete", "not_complete", "invalid"} :
          IF SessionDrift(d, sid) \/ evidence = "invalid"
          THEN Goto(d, "settle") /\ UNCHANGED proven
          ELSE /\ pc' = [pc EXCEPT ![d] = "final"]
               /\ job' = [job EXCEPT ![d] =
                    Ended(@, OutcomeStatus(rc0, evidence),
                          IF sid # NoValue THEN sid ELSE @.session)]
               /\ proven' = IF rc0 /\ evidence = "complete"
                            THEN proven \cup {job[d].task} ELSE proven
    BY DEF ProviderReturns
  <2>2. CASE SessionDrift(d, sid) \/ evidence = "invalid"
    BY <2>1, <2>2 DEF Goto, Inv, TypeOK, SessionKept
  <2>3. CASE ~(SessionDrift(d, sid) \/ evidence = "invalid")
    <3> DEFINE th == IF sid # NoValue THEN sid ELSE job[d].session
               j  == Ended(job[d], OutcomeStatus(rc0, evidence), th)
    <3>1. pc' = [pc EXCEPT ![d] = "final"] /\ job' = [job EXCEPT ![d] = j]
      BY <2>1, <2>3
    <3>2. /\ j.task = job[d].task /\ j.provider = job[d].provider
          /\ j.session = job[d].session
          /\ job[d].session # NoValue => j.thread = job[d].session
      BY <2>3 DEF Ended, SessionDrift
    <3> HIDE DEF j
    <3> QED
      BY <3>1, <3>2 DEF Inv, TypeOK, SessionKept
  <2> QED
    BY <2>2, <2>3
<1>3. /\ \A c \in Procs \ {d} : (Holds(c)' <=> Holds(c)) /\ (Recorder(c)' <=> Recorder(c))
  BY <1>1, <1>2 DEF Holds, Recorder
<1> QED
  BY <1>1, <1>2, <1>3 DEF IdentityInv, Named, SessionOpen, SessionKept

(* A write by d to the entry of its task: it keeps the provider, and names *)
(* a session only where there was none and no other process has a claim.   *)
LEMMA IdentityWrite ==
  ASSUME Inv, IdentityInv, NEW d \in Procs, NEW e, Replace(d, e), UNCHANGED job,
         tx[d] = "read", pc[d] \in Calls \ {"claim"},
         e.provider = tasks[job[d].task].provider,
         \/ e.thread = tasks[job[d].task].thread
         \/ /\ tasks[job[d].task].thread = NoValue
            /\ job[d].session = NoValue
            /\ \A c \in Procs \ {d} :
                 Holds(c) \/ Recorder(c) => job[c].task # job[d].task
  PROVE  IdentityInv' /\ Kept
<1> DEFINE t == job[d].task
<1>1. t \in Tasks /\ snap[d] = tasks
  BY DEF Inv, TaskGiven, SnapCurrent, Calls
<1>2. /\ tasks' = [tasks EXCEPT ![t] = e] /\ UNCHANGED pc
      /\ tx' = [tx EXCEPT ![d] = "saved"]
  BY <1>1 DEF Replace
<1>3. /\ tasks'[t] = e /\ \A u \in Tasks \ {t} : tasks'[u] = tasks[u]
      /\ \A c \in Procs : pc[c] # "idle" => job[c].task \in Tasks
  BY <1>1, <1>2 DEF Inv, TypeOK, L!TypeOK, TaskGiven
<1>4. /\ ~Holds(d)' /\ (Recorder(d)' => Holds(d) \/ Recorder(d))
      /\ \A c \in Procs \ {d} : (Holds(c)' <=> Holds(c)) /\ (Recorder(c)' <=> Recorder(c))
      /\ \A c \in Procs : Holds(c) \/ Recorder(c) => pc[c] # "idle"
  BY <1>2 DEF Holds, Recorder, Calls, Inv, TypeOK
<1>5. Kept
  BY <1>3 DEF Kept
<1>6. ASSUME Recorder(d)' PROVE Named(d)'
  BY <1>1, <1>3, <1>4, <1>6 DEF IdentityInv, Named
<1>7. ASSUME NEW c \in Procs \ {d}, Holds(c) \/ Recorder(c)
      PROVE  Named(c)' /\ (Holds(c) => SessionOpen(c)')
  <2>1. Named(c) /\ (Holds(c) => SessionOpen(c)) /\ job[c].task \in Tasks
    BY <1>3, <1>4, <1>7 DEF IdentityInv
  <2>2. CASE job[c].task # t
    BY <1>3, <2>1, <2>2 DEF Named, SessionOpen
  <2>3. CASE job[c].task = t
    <3>1. e.thread = tasks[t].thread
      BY <1>7, <2>3
    <3> QED
      BY <1>3, <2>1, <2>3, <3>1 DEF Named, SessionOpen
  <2> QED
    BY <2>2, <2>3
<1>8. \A c \in Procs : SessionKept(c)'
  BY <1>2 DEF IdentityInv, SessionKept
<1> QED
  BY <1>4, <1>5, <1>6, <1>7, <1>8 DEF IdentityInv

LEMMA IdentityClaim ==
  ASSUME Inv, CarefulInv, IdentityInv, NEW d \in Procs, SaveClaim(d)
  PROVE  IdentityInv' /\ Kept
<1> DEFINE t == job[d].task
<1>1. PICK p \in Providers, s \in Sessions \cup {NoValue},
           i \in 0 .. MaxLimit, m \in 0 .. MaxLimit :
        /\ L!MayBegin(tasks[t], p, s, i, m)
        /\ Replace(d, L!Begun(tasks[t], p, s, i, m))
        /\ job' = [job EXCEPT ![d] = Claimed(@, p, s, i)]
  BY ClaimStep
<1> DEFINE b == L!Begun(tasks[t], p, s, i, m)
<1>2. /\ b.provider = p /\ (s # NoValue => b.thread = s)
      /\ s = NoValue => b.thread = NoValue
      /\ tasks[t].provider \in {NoValue, p} /\ tasks[t].thread \in {NoValue, s}
      /\ tasks[t].status \notin {"running"} \cup L!Stopped
  BY <1>1
  DEF L!Begun, L!MayBegin, L!SameIdentity, L!NotRunning, L!NotStopped
<1>3. Replace(d, b)
  BY <1>1
<1> HIDE DEF b
<1>4. /\ t \in Tasks /\ pc[d] = "claim" /\ tx[d] = "read" /\ snap[d] = tasks
      /\ UNCHANGED pc /\ tx' = [tx EXCEPT ![d] = "saved"]
      /\ tasks' = [tasks EXCEPT ![t] = b]
  BY <1>3 DEF SaveClaim, Replace, Inv, TaskGiven, SnapCurrent
<1>5. tasks'[t] = b /\ \A u \in Tasks \ {t} : tasks'[u] = tasks[u]
  BY <1>4 DEF Inv, TypeOK, L!TypeOK
<1>6. /\ job'[d].task = t /\ job'[d].provider = p /\ job'[d].session = s
      /\ \A c \in Procs \ {d} : job'[c] = job[c]
  BY <1>1 DEF Claimed, Inv, TypeOK
<1>7. \A c \in Procs \ {d} : (Holds(c)' <=> Holds(c)) /\ (Recorder(c)' <=> Recorder(c))
  BY <1>4 DEF Holds, Recorder
<1>8. \A c \in Procs \ {d} : Holds(c) \/ Recorder(c) => job[c].task \in Tasks \ {t}
  BY <1>2 DEF CarefulInv, HeldIsRunning, RecordedIsStopped, Inv, TaskGiven, Holds, Recorder
<1>9. Kept
  BY <1>2, <1>5 DEF Kept
<1>10. Named(d)' /\ SessionOpen(d)'
  BY <1>2, <1>5, <1>6 DEF Named, SessionOpen
<1>11. \A c \in Procs \ {d} :
         Holds(c) \/ Recorder(c) => Named(c)' /\ (Holds(c) => SessionOpen(c)')
  BY <1>5, <1>6, <1>8 DEF IdentityInv, Named, SessionOpen
<1>12. \A c \in Procs : SessionKept(c)'
  BY <1>4, <1>6 DEF IdentityInv, SessionKept
<1> QED
  BY <1>7, <1>9, <1>10, <1>11, <1>12 DEF IdentityInv

LEMMA IdentityOutcome ==
  ASSUME Inv, CarefulInv, IdentityInv, NEW d \in Procs, SaveOutcome(d)
  PROVE  IdentityInv' /\ Kept
<1> DEFINE t == job[d].task
           st == IF pc[d] = "final" THEN job[d].status ELSE "unknown"
           th == IF pc[d] = "final" THEN job[d].thread ELSE job[d].session
           e == L!Recorded(tasks[t], st, job[d].provider, th)
<1>1. /\ t \in Tasks /\ pc[d] \in {"final", "settle", "amend"} /\ tx[d] = "read"
      /\ snap[d] = tasks /\ UNCHANGED job
  BY DEF SaveOutcome, Inv, TaskGiven, SnapCurrent
<1>2. Replace(d, e)
  BY <1>1 DEF SaveOutcome
<1>3. Named(d) /\ SessionKept(d) /\ (pc[d] = "final" => Holds(d) /\ SessionOpen(d))
  BY <1>1 DEF IdentityInv, Holds, Recorder
<1>4. e.provider = tasks[t].provider /\ e.thread = IF th = NoValue THEN tasks[t].thread ELSE th
  BY <1>3 DEF L!Recorded, Named
<1> HIDE DEF e
<1>5. CASE pc[d] # "final" \/ job[d].session # NoValue
  <2>1. e.thread = tasks[t].thread
    BY <1>3, <1>4, <1>5 DEF Named, SessionKept
  <2> QED
    BY <1>1, <1>2, <1>4, <2>1, IdentityWrite DEF Calls
<1>6. CASE pc[d] = "final" /\ job[d].session = NoValue
  <2>1. tasks[t].thread = NoValue
    BY <1>3, <1>6 DEF SessionOpen
  <2>2. tasks[t].status = "running" /\ "running" \notin L!Stopped
    BY <1>3, <1>6 DEF CarefulInv, HeldIsRunning, L!Stopped
  <2>3. \A c \in Procs \ {d} : Holds(c) \/ Recorder(c) => job[c].task # job[d].task
    BY <1>3, <1>6, <2>2 DEF CarefulInv, SingleWriter, RecordedIsStopped
  <2> QED
    BY <1>1, <1>2, <1>4, <1>6, <2>1, <2>3, IdentityWrite DEF Calls
<1> QED
  BY <1>5, <1>6

LEMMA IdentityRecord ==
  ASSUME Careful, Inv, IdentityInv, NEW d \in Procs, SaveRecord(d)
  PROVE  IdentityInv' /\ Kept
<1>1. PICK st \in Statuses :
        Replace(d, L!Recorded(snap[d][job[d].task], st, NoValue, NoValue))
  BY DEF SaveRecord
<1> DEFINE e == L!Recorded(snap[d][job[d].task], st, NoValue, NoValue)
<1>2. /\ pc[d] = "record" /\ tx[d] = "read" /\ snap[d] = tasks /\ UNCHANGED job
  BY DEF SaveRecord, Inv, SnapCurrent
<1>3. /\ e.provider = tasks[job[d].task].provider
      /\ e.thread = tasks[job[d].task].thread
  BY <1>2 DEF L!Recorded
<1>4. Replace(d, e)
  BY <1>1
<1> HIDE DEF e
<1> QED
  BY <1>2, <1>3, <1>4, IdentityWrite DEF Calls

(* The steps that leave the file alone, but for the provider's return. *)
LEMMA IdentitySteps ==
  ASSUME Inv, IdentityInv, NEW d \in Procs,
         \/ Acquire(d) \/ Busy(d) \/ Read(d) \/ Refuse(d) \/ Release(d)
         \/ ProviderFails(d) \/ Crash(d) \/ Interrupt(d)
         \/ \E t \in Tasks : StartDispatch(d, t) \/ StartRecord(d, t)
  PROVE  IdentityInv' /\ UNCHANGED tasks
<1>1. UNCHANGED tasks
  BY DEF Acquire, Busy, Read, Refuse, Release, ProviderFails, Crash, Interrupt, Gone,
         StartDispatch, StartRecord, Start
<1>2. /\ pc \in [Procs -> PC] /\ tx \in [Procs -> Tx] /\ job \in [Procs -> Job]
      /\ tx[d] # "out" => pc[d] \in Calls
  BY DEF Inv, TypeOK, LockHeld
<1>3. \A c \in Procs \ {d} : pc'[c] = pc[c] /\ tx'[c] = tx[c] /\ job'[c] = job[c]
  BY <1>2
  DEF Acquire, Busy, Read, Refuse, Release, ProviderFails, Crash, Interrupt, Gone,
      StartDispatch, StartRecord, Start, Continue, Goto, Exit
<1>4. /\ (Holds(d) \/ Recorder(d))' => Holds(d) \/ Recorder(d)
      /\ Holds(d)' => Holds(d)
      /\ pc'[d] # "idle" /\ job'[d] # job[d] => pc[d] = "idle"
      /\ pc'[d] = "final" => pc[d] = "final"
  <2>1. CASE Acquire(d) \/ Read(d) \/ Refuse(d) \/ ProviderFails(d)
    BY <1>2, <2>1
    DEF Acquire, Read, Refuse, ProviderFails, Goto, Holds, Recorder
  <2>2. CASE Crash(d) \/ Interrupt(d)
    BY <1>2, <2>2 DEF Crash, Interrupt, Gone, Exit, Holds, Recorder
  <2>3. CASE \E t \in Tasks : StartDispatch(d, t) \/ StartRecord(d, t)
    BY <1>2, <2>3
    DEF StartDispatch, StartRecord, Start, Holds, Recorder, Calls
  <2>4. CASE Busy(d)
    BY <1>2, <2>4 DEF Busy, Continue, Goto, Exit, Holds, Recorder
  <2>5. CASE Release(d)
    BY <1>2, <2>5 DEF Release, Continue, Goto, Exit, Holds, Recorder
  <2> QED
    BY <2>1, <2>2, <2>3, <2>4, <2>5
<1>5. \A c \in Procs \ {d} : (Holds(c)' <=> Holds(c)) /\ (Recorder(c)' <=> Recorder(c))
  BY <1>3 DEF Holds, Recorder
<1>6. \A c \in Procs : (Holds(c) \/ Recorder(c))' => Holds(c) \/ Recorder(c)
  BY <1>4, <1>5
<1>7. \A c \in Procs : Holds(c)' => Holds(c)
  BY <1>4, <1>5
<1>8. \A c \in Procs : pc'[c] # "idle" /\ job'[c] # job[c] => pc[c] = "idle"
  BY <1>3, <1>4
<1>9. \A c \in Procs : pc'[c] = "final" => pc[c] = "final"
  BY <1>3, <1>4
<1> QED
  BY <1>1, <1>6, <1>7, <1>8, <1>9, IdentityLocal

LEMMA IdentityNext ==
  ASSUME Careful, Inv, CarefulInv, IdentityInv, [Next]_vars
  PROVE  IdentityInv' /\ [Kept]_tasks
<1>1. ASSUME NEW d \in Procs, ProviderReturns(d) PROVE IdentityInv' /\ [Kept]_tasks
  BY <1>1, IdentityReturns DEF ProviderReturns
<1>2. CASE RemoveStaleLock \/ UNCHANGED vars
  BY <1>2
  DEF RemoveStaleLock, vars, IdentityInv, Holds, Recorder, Named, SessionOpen,
      SessionKept
<1> QED
  BY <1>1, <1>2, IdentityClaim, IdentityOutcome, IdentityRecord, IdentitySteps
  DEF Next, Step

(* A task stays with the provider and the session it was first recorded    *)
(* with, through every retry, session drift, crash and failed write, when  *)
(* the operator is careful.                                                *)
THEOREM IdentityStays == ASSUME Careful PROVE Spec => IdentityStable
<1>1. Init => IdentityInv
  BY DEF Init, IdentityInv, Holds, Recorder, SessionKept
<1>2. Inv /\ CarefulInv /\ IdentityInv /\ [Next]_vars => IdentityInv' /\ [Kept]_tasks
  BY IdentityNext
<1>3. [Kept]_tasks =>
        [\A t \in Tasks :
           /\ tasks[t].provider # NoValue => tasks'[t].provider = tasks[t].provider
           /\ tasks[t].thread # NoValue => tasks'[t].thread = tasks[t].thread]_tasks
  BY DEF Kept
<1> QED
  BY <1>1, <1>2, <1>3, CarefulInvariance, PTL DEF Spec, IdentityStable

-----------------------------------------------------------------------------
(* The theorems of LedgerProofs, about the file of this module.            *)
Budget == INSTANCE LedgerProofs

(* The retry budget of a task holds for all commands together, crashed,    *)
(* interrupted and failing ones included, and for any operator: what the   *)
(* transactions of Ledger promise carries over to the processes that carry *)
(* them out (ledger.py, begin_task and record_task under _locked).         *)
THEOREM BudgetOfAll == Spec => L!BudgetOnlySpent
<1>1. Budget!Spec => Budget!BudgetOnlySpent
  <2>1. /\ MaxLimit \in Nat
        /\ NoValue \notin Providers \cup Sessions \cup Budget!Status
    BY DispatchAssumption DEF L!Status, Budget!Status, L!Stopped, Budget!Stopped
  <2> QED
    BY <2>1, Budget!BudgetNeverReturned
<1>2. L!Init => Budget!Init
  BY DEF L!Init, Budget!Init, L!Absent, Budget!Absent
<1>3. [L!Next]_tasks => [Budget!Next]_tasks
  BY DEF L!Next, Budget!Next, L!Begin, Budget!Begin, L!Record, Budget!Record,
    L!MayBegin, Budget!MayBegin, L!Begun, Budget!Begun, L!Recorded, Budget!Recorded,
    L!Stopped, Budget!Stopped, L!WithinLimit, Budget!WithinLimit,
    L!NotRunning, Budget!NotRunning, L!SameIdentity, Budget!SameIdentity,
    L!SameLimit, Budget!SameLimit, L!NextIndex, Budget!NextIndex,
    L!NotStopped, Budget!NotStopped, L!InLedger, Budget!InLedger
<1> QED
  BY <1>1, <1>2, <1>3, Implements, PTL
  DEF LedgerSpec, L!Spec, Budget!Spec, L!BudgetOnlySpent, Budget!BudgetOnlySpent

-----------------------------------------------------------------------------
(* What a command still has to do, in steps of its own: the rest of the    *)
(* ledger call it makes, then the provider's run and the calls that may    *)
(* follow.                                                                 *)
CallLeft == [out |-> 4, locked |-> 3, read |-> 2, saved |-> 1, failed |-> 1]

StepsLeft(d) ==
  CASE pc[d] = "idle"  -> 0
    [] pc[d] = "claim" -> 9 + CallLeft[tx[d]]
    [] pc[d] = "run"   -> 9
    [] pc[d] = "final" -> 4 + CallLeft[tx[d]]
    [] OTHER           -> CallLeft[tx[d]]

(* Every step of a command brings it nearer to its end, and no lock, file, *)
(* crash or operator ever sets it back: _locked raises instead of waiting  *)
(* or trying again, and no handler of _dispatch returns to an earlier      *)
(* call.  No command takes more than 13 steps.                             *)
NeverSetBack ==
  [][\A d \in Procs :
       /\ Step(d) \/ ProviderReturns(d) => StepsLeft(d)' < StepsLeft(d)
       /\ pc[d] # "idle" => StepsLeft(d)' <= StepsLeft(d)]_vars

ShortCommands ==
  \A d \in Procs :
    /\ StepsLeft(d) \in 0 .. 13
    /\ StepsLeft(d) = 0 => pc[d] = "idle"

LEMMA StepsBounded == Inv => ShortCommands
BY DEF Inv, TypeOK, PC, Calls, Tx, ShortCommands, StepsLeft, CallLeft

LEMMA OthersUntouched ==
  ASSUME Inv, NEW d \in Procs,
         Step(d) \/ ProviderReturns(d) \/ Crash(d) \/ Interrupt(d)
           \/ \E t \in Tasks : StartDispatch(d, t) \/ StartRecord(d, t),
         NEW c \in Procs \ {d}
  PROVE  StepsLeft(c)' = StepsLeft(c)
<1>1. pc'[c] = pc[c] /\ tx'[c] = tx[c]
  BY DEF Step, Acquire, Busy, Read, SaveClaim, SaveOutcome, SaveRecord, Refuse,
    Release, ProviderFails, ProviderReturns, Crash, Interrupt, Gone, Continue,
    Goto, Exit, Replace, StartDispatch, StartRecord, Start, Inv, TypeOK
<1> QED
  BY <1>1, Zenon DEF StepsLeft

LEMMA StepAdvances ==
  ASSUME Inv, NEW d \in Procs, Step(d) \/ ProviderReturns(d)
  PROVE  StepsLeft(d)' < StepsLeft(d)
<1>1. /\ pc[d] \in PC /\ tx[d] \in Tx
      /\ tx[d] # "out" => pc[d] \in Calls
      /\ pc \in [Procs -> PC] /\ tx \in [Procs -> Tx]
  BY DEF Inv, TypeOK, LockHeld
<1>2. CASE Acquire(d)
  BY <1>1, <1>2 DEF Acquire, StepsLeft, CallLeft, PC, Calls, Tx
<1>3. CASE Read(d)
  BY <1>1, <1>3 DEF Read, StepsLeft, CallLeft, PC, Calls, Tx
<1>4. CASE SaveClaim(d) \/ SaveOutcome(d) \/ SaveRecord(d) \/ Refuse(d)
  <2>1. /\ tx[d] = "read" /\ tx'[d] \in {"saved", "failed"}
        /\ UNCHANGED pc
    BY <1>1, <1>4 DEF SaveClaim, SaveOutcome, SaveRecord, Refuse, Replace
  <2> QED
    BY <1>1, <2>1 DEF StepsLeft, CallLeft, PC, Calls, Tx
<1> DEFINE GoesOn == \/ pc[d] = "claim" /\ pc'[d] \in {"run", "idle"}
                     \/ pc[d] = "final" /\ pc'[d] \in {"amend", "settle", "idle"}
                     \/ pc[d] \in {"settle", "amend", "record"} /\ pc'[d] = "idle"
<1>5. ASSUME NEW ok \in BOOLEAN, Continue(d, ok), pc[d] \in Calls PROVE GoesOn
  BY <1>1, <1>5 DEF Continue, Goto, Exit, Calls
<1>6. CASE Busy(d)
  <2>1. pc[d] \in Calls /\ tx[d] = "out" /\ Continue(d, FALSE) /\ tx'[d] = "out"
    BY <1>6 DEF Busy
  <2>2. GoesOn
    BY <1>5, <2>1, Zenon DEF Calls
  <2> QED
    BY <1>1, <2>1, <2>2 DEF StepsLeft, CallLeft, PC, Calls, Tx
<1>7. CASE Release(d)
  <2>1. /\ tx[d] \in {"saved", "failed"} /\ tx'[d] = "out"
        /\ Continue(d, tx[d] = "saved") /\ (tx[d] = "saved") \in BOOLEAN
        /\ pc[d] \in Calls
    BY <1>1, <1>7 DEF Release
  <2>2. GoesOn
    BY <1>5, <2>1, Zenon DEF Calls
  <2> QED
    BY <1>1, <2>1, <2>2 DEF StepsLeft, CallLeft, PC, Calls, Tx
<1>8. CASE ProviderFails(d) \/ ProviderReturns(d)
  <2>1. pc[d] = "run" /\ pc'[d] \in {"settle", "final"} /\ UNCHANGED tx
    BY <1>1, <1>8 DEF ProviderFails, ProviderReturns, Goto
  <2>2. tx[d] = "out"
    BY <1>1, <2>1 DEF Calls
  <2> QED
    BY <1>1, <2>1, <2>2 DEF StepsLeft, CallLeft, PC, Calls, Tx
<1> QED
  BY <1>2, <1>3, <1>4, <1>6, <1>7, <1>8 DEF Step

(* No command waits for another one: it ends in at most 13 steps of its    *)
(* own, whatever the other processes do meanwhile (_locked, _dispatch).    *)
THEOREM WaitFree == Spec => []ShortCommands /\ NeverSetBack
<1> DEFINE Back == \A d \in Procs :
       /\ Step(d) \/ ProviderReturns(d) => StepsLeft(d)' < StepsLeft(d)
       /\ pc[d] # "idle" => StepsLeft(d)' <= StepsLeft(d)
<1>1. Inv /\ Inv' /\ [Next]_vars => [Back]_vars
  <2>1. SUFFICES ASSUME Inv, Inv', Next, NEW d \in Procs
                 PROVE  /\ Step(d) \/ ProviderReturns(d) => StepsLeft(d)' < StepsLeft(d)
                        /\ pc[d] # "idle" => StepsLeft(d)' <= StepsLeft(d)
    OBVIOUS
  <2>2. Step(d) \/ ProviderReturns(d) => StepsLeft(d)' < StepsLeft(d)
    BY <2>1, StepAdvances
  <2>3. StepsLeft(d) \in 0 .. 13 /\ StepsLeft(d)' \in 0 .. 13
    <3>1. ShortCommands /\ ShortCommands'
      BY <2>1, StepsBounded, PTL
    <3> QED
      BY <3>1 DEF ShortCommands
  <2>4. ASSUME pc[d] # "idle" PROVE StepsLeft(d)' <= StepsLeft(d)
    <3>1. CASE Step(d) \/ ProviderReturns(d)
      BY <2>2, <2>3, <3>1
    <3>2. CASE Crash(d) \/ Interrupt(d)
      <4>1. pc'[d] = "idle"
        BY <2>1, <3>2 DEF Crash, Interrupt, Gone, Exit, Inv, TypeOK
      <4>2. StepsLeft(d)' = 0
        BY <4>1 DEF StepsLeft
      <4> QED
        BY <2>3, <4>2
    <3>3. CASE RemoveStaleLock
      <4>1. StepsLeft(d)' = StepsLeft(d)
        BY <3>3, Zenon DEF RemoveStaleLock, StepsLeft
      <4> QED
        BY <2>3, <4>1
    <3>4. CASE \E t \in Tasks : StartDispatch(d, t) \/ StartRecord(d, t)
      BY <2>4, <3>4 DEF StartDispatch, StartRecord, Start
    <3>5. ASSUME NEW c \in Procs \ {d},
                 Step(c) \/ ProviderReturns(c) \/ Crash(c) \/ Interrupt(c)
                   \/ \E t \in Tasks : StartDispatch(c, t) \/ StartRecord(c, t)
          PROVE  StepsLeft(d)' <= StepsLeft(d)
      <4>1. StepsLeft(d)' = StepsLeft(d)
        BY <2>1, <3>5, OthersUntouched
      <4> QED
        BY <2>3, <4>1
    <3> QED
      BY <2>1, <3>1, <3>2, <3>3, <3>4, <3>5 DEF Next
  <2> QED
    BY <2>2, <2>4
<1> QED
  BY <1>1, StepsBounded, Invariance, PTL DEF Spec, NeverSetBack
=============================================================================
