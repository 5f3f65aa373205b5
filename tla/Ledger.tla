------------------------------- MODULE Ledger -------------------------------
(***************************************************************************)
(* The task ledger of src/durable_threads/ledger.py as a sequence of       *)
(* indivisible transactions: what begin_task and record_task promise to    *)
(* their callers.  An entry keeps the fields that begin_task reads back    *)
(* from the file; role, result text, usage and timestamps decide nothing   *)
(* and are left out.  Module Dispatch shows how the processes that share   *)
(* the file carry these transactions out, and implements this module.      *)
(***************************************************************************)
EXTENDS Integers

CONSTANTS
  Tasks,       \* task ids (--task-id)
  Providers,   \* provider ids (--provider)
  Sessions,    \* provider session ids (threadId)
  Statuses,    \* statuses an operator may write with `record --status`
  MaxLimit,    \* the largest --max-followups a caller passes
  NoValue      \* a field that is not in the entry, an option not given

(* The statuses dispatch writes, of which begin_task restarts none but the *)
(* ones only an operator records.                                          *)
Stopped == {"blocked", "unknown", "complete", "unverified"}
Status == {"running"} \cup Stopped \cup Statuses

ASSUME LedgerAssumption ==
  /\ MaxLimit \in Nat
  /\ NoValue \notin Providers \cup Sessions \cup Status

VARIABLE tasks   \* the "tasks" object of the ledger file

(* followups and limit (maxFollowups) are -1 when the field is missing: in *)
(* an entry that only `record` has written, and in a task with no entry.   *)
Entry == [status    : Status \cup {NoValue},
          provider  : Providers \cup {NoValue},
          thread    : Sessions \cup {NoValue},
          followups : -1 .. MaxLimit,
          limit     : -1 .. MaxLimit]

Absent == [status |-> NoValue, provider |-> NoValue, thread |-> NoValue,
           followups |-> -1, limit |-> -1]

InLedger(e) == e.status # NoValue

-----------------------------------------------------------------------------
(* begin_task: provider p, session s, follow-up index i of at most m.      *)

(* Faults that the checks of begin_task are there to exclude. *)
AnyEntry(e) == TRUE
AnyIndex(e, i) == TRUE
AnyLimit(i, m) == TRUE

WithinLimit(i, m) == i <= m
NotRunning(e) == e.status # "running"
SameIdentity(e, p, s) == e.provider \in {NoValue, p} /\ e.thread \in {NoValue, s}
SameLimit(e, m) == InLedger(e) => e.limit = m
NextIndex(e, i) == i = e.followups + 1
NotStopped(e) == e.status \notin Stopped

MayBegin(e, p, s, i, m) ==
  /\ WithinLimit(i, m)
  /\ NotRunning(e)
  /\ SameIdentity(e, p, s)
  /\ SameLimit(e, m)
  /\ NextIndex(e, i)
  /\ NotStopped(e)

Begun(e, p, s, i, m) ==
  [status    |-> "running",
   provider  |-> p,
   thread    |-> IF s = NoValue THEN e.thread ELSE s,
   followups |-> i,
   limit     |-> m]

(* record_task: an unconditional upsert; an option that is not given keeps *)
(* what the entry has.                                                     *)

Recorded(e, st, p, s) ==
  [status    |-> st,
   provider  |-> IF p = NoValue THEN e.provider ELSE p,
   thread    |-> IF s = NoValue THEN e.thread ELSE s,
   followups |-> e.followups,
   limit     |-> e.limit]

-----------------------------------------------------------------------------
Init == tasks = [t \in Tasks |-> Absent]

Begin(t) ==
  \E p \in Providers, s \in Sessions \cup {NoValue}, i, m \in 0 .. MaxLimit :
    /\ MayBegin(tasks[t], p, s, i, m)
    /\ tasks' = [tasks EXCEPT ![t] = Begun(@, p, s, i, m)]

Record(t) ==
  \E st \in Stopped \cup Statuses, p \in Providers \cup {NoValue},
     s \in Sessions \cup {NoValue} :
    tasks' = [tasks EXCEPT ![t] = Recorded(@, st, p, s)]

Next == \E t \in Tasks : Begin(t) \/ Record(t)

Spec == Init /\ [][Next]_tasks

-----------------------------------------------------------------------------
(* Every entry of the file is well formed. *)
TypeOK == tasks \in [Tasks -> Entry]

(* The retry budget of a task, read off its entry: a claimed task has used *)
(* no more follow-ups than the limit its first claim recorded, and the two *)
(* fields are only ever written together (ledger.py, begin_task).          *)
RetryBudget ==
  \A t \in Tasks :
    /\ tasks[t].followups <= tasks[t].limit
    /\ (tasks[t].limit >= 0) <=> (tasks[t].followups >= 0)

(* Whoever writes, and whatever status an operator puts in between, the    *)
(* limit of a task never changes once recorded and its follow-up counter   *)
(* moves only forwards, one claim at a time: no sequence of dispatch and   *)
(* record calls buys a task another attempt (test_failure_controls.py,     *)
(* test_retry_limit_survives_reload_and_cannot_increase).                  *)
BudgetOnlySpent ==
  [][\A t \in Tasks :
       /\ tasks'[t].followups \in {tasks[t].followups, tasks[t].followups + 1}
       /\ tasks[t].limit >= 0 => tasks'[t].limit = tasks[t].limit]_tasks

=============================================================================
