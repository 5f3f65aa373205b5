------------------------ MODULE ExecutionAttemptProofs ------------------------
(***************************************************************************)
(* Proofs about modules ExecutorProcess and ExecutionAttempt: for every    *)
(* timeout of a provider, any number of lost heartbeats, any number of     *)
(* attempts and every checkout.                                            *)
(***************************************************************************)
EXTENDS ExecutionAttempt, TLAPS

(* What execute has done so far, and that its activity is not past it.     *)
Life ==
  /\ backend = "none" => proc = "none"
  /\ backend = "none" /\ activity = "running" /\ worker # "down" => clocks = FirstClocks
  /\ backend \in {"returned", "raised"} => proc # "running"
  /\ backend \in {"grace", "killed"} => cause \in {"timeout", "cancel"}
  /\ cause = "cancel" \/ backend = "cancelled" => activity = "done"
  /\ activity = "done" => backend # "waiting"
  /\ backend = "killed" => signal = "kill" /\ clocks.left = 0
  /\ backend = "cancelled" /\ proc = "running" => signal = "kill" \/ skipped
  /\ server \in {"completed", "failed"} => backend \in {"returned", "raised"}

(* What a worker that lives knows of the server.                           *)
Wanted ==
  /\ worker = "up" /\ server = "open" => activity = "running" /\ ~told
  /\ ~GivenUp => clocks.since = 0

(* While the server waits for a worker that lives: its heartbeats come in  *)
(* time, and its execution is within its own timeout and grace.            *)
OnTime ==
  worker = "up" /\ server = "open" =>
    /\ lost = 0 => clocks.beat + clocks.due <= heartbeat_seconds
    /\ backend = "waiting" => clocks.now <= Timeout
    /\ backend = "grace" => clocks.now + clocks.left <= Timeout + grace
    /\ backend \in {"killed", "returned", "raised"} => clocks.now <= Timeout + grace

(* How long an unwanted process runs until its worker hears of it, and     *)
(* until the grace is over.                                                *)
Hearing == (lost + 1) * heartbeat_seconds

SoonGone ==
  GivenUp /\ worker = "up" /\ proc = "running" /\ ~skipped =>
    /\ activity = "running" =>
         clocks.since <= Hearing /\ (~told => clocks.since + clocks.due <= Hearing)
    /\ activity = "done" =>
         /\ backend \in {"grace", "killed", "cancelled"}
         /\ clocks.since <= Hearing + grace
         /\ backend = "grace" => clocks.since + clocks.left <= Hearing + grace

ProcessInv == ProcessTypeOK /\ Life /\ Wanted /\ OnTime /\ SoonGone /\ OwnTimeoutFirst

-----------------------------------------------------------------------------
(* The process of one execution.                                           *)

LEMMA Numbers ==
  ASSUME ProcessTypeOK
  PROVE  /\ Timeout \in Nat /\ MaxLost \in Nat /\ lost \in Nat
         /\ clocks = [now |-> clocks.now, due |-> clocks.due, beat |-> clocks.beat,
                      left |-> clocks.left, since |-> clocks.since]
         /\ clocks.now \in 0 .. start_to_close /\ clocks.due \in 0 .. heartbeat_seconds
         /\ clocks.beat \in 0 .. heartbeat_timeout /\ clocks.left \in 0 .. grace
         /\ clocks.since \in 0 .. Notice(MaxLost) + 1
BY ExecutorAssumption DEF ProcessTypeOK, Clocks

LEMMA FirstInv == ASSUME ProcessInit PROVE ProcessInv
<1>1. FirstClocks \in Clocks
  BY ExecutorAssumption
  DEF FirstClocks, Clocks, start_to_close, heartbeat_seconds, heartbeat_timeout, grace, Notice
<1>2. lost \in 0 .. MaxLost
  BY ExecutorAssumption DEF ProcessInit
<1>3. ProcessTypeOK
  BY <1>1, <1>2, Zenon DEF ProcessInit, ProcessTypeOK
<1> QED
  BY <1>3, ExecutorAssumption
  DEF ProcessInit, ProcessInv, Life, Wanted, OnTime, SoonGone, OwnTimeoutFirst, GivenUp,
      FirstClocks, heartbeat_seconds

(* The steps of execute and its activity that leave the clocks alone.      *)
LEMMA QuietStep ==
  ASSUME ProcessInv, clocks' = clocks, lost' = lost,
         Launch \/ Refuse \/ Communicated \/ Reaped \/ Kills \/ Report \/ ProcessExits
         \/ ServerGivesUp \/ WorkflowCancelled \/ WorkerDies \/ WorkerInterrupted
  PROVE  ProcessInv'
<1> USE DEF ProcessInv
<1>1. ProcessTypeOK'
  BY DEF ProcessTypeOK, Launch, Refuse, Communicated, Reaped, Kills, Report, ProcessExits,
      ServerGivesUp, WorkflowCancelled, WorkerDies, WorkerInterrupted, run
<1>2. Life'
  BY Numbers DEF Life, ProcessTypeOK, Launch, Refuse, Communicated, Reaped, Kills, Report, ProcessExits,
      ServerGivesUp, WorkflowCancelled, WorkerDies, WorkerInterrupted, run, grace
<1>3. Wanted'
  BY DEF Life, Wanted, GivenUp, Launch, Refuse, Communicated, Reaped, Kills, Report, ProcessExits,
      ServerGivesUp, WorkflowCancelled, WorkerDies, WorkerInterrupted, run, ProcessTypeOK
<1>4. OnTime'
  BY Numbers DEF Life, Wanted, OnTime, FirstClocks, Launch, Refuse, Communicated, Reaped, Kills, Report, ProcessExits,
      ServerGivesUp, WorkflowCancelled, WorkerDies, WorkerInterrupted, run, grace
<1>5. SoonGone'
  <2>1. CASE Launch
    BY <2>1, Numbers
    DEF Launch, Life, SoonGone, GivenUp, Hearing, FirstClocks, grace, heartbeat_seconds
  <2>2. CASE ServerGivesUp \/ WorkflowCancelled
    BY <2>2, Numbers
    DEF ServerGivesUp, WorkflowCancelled, ServerDue, Wanted, SoonGone, GivenUp, Hearing,
        grace, heartbeat_seconds, run
  <2>3. CASE Refuse \/ Communicated \/ Reaped \/ ProcessExits \/ WorkerDies \/ WorkerInterrupted
    BY <2>3 DEF Refuse, Communicated, Reaped, ProcessExits, WorkerDies, WorkerInterrupted,
        SoonGone, GivenUp, Hearing, run
  <2>4. CASE Kills
    BY <2>4, Numbers DEF Kills, SoonGone, GivenUp, Hearing, grace
  <2>5. CASE Report
    BY <2>5 DEF Report, Life, SoonGone, GivenUp
  <2> QED
    BY <2>1, <2>2, <2>3, <2>4, <2>5
<1>6. OwnTimeoutFirst'
  <2>1. CASE ServerGivesUp
    BY <2>1, Numbers
    DEF ServerGivesUp, ServerDue, ProcessTypeOK, Life, Wanted, OnTime, OwnTimeoutFirst, FirstClocks,
        heartbeat_seconds, heartbeat_timeout, start_to_close, grace, run
  <2>2. CASE ~ServerGivesUp
    BY <2>2 DEF OwnTimeoutFirst, Launch, Refuse, Communicated, Reaped, Kills, Report, ProcessExits,
        WorkflowCancelled, WorkerDies, WorkerInterrupted, run
  <2> QED
    BY <2>1, <2>2
<1> QED
  BY <1>1, <1>2, <1>3, <1>4, <1>5, <1>6

LEMMA TimesOutStep == ASSUME ProcessInv, TimesOut PROVE ProcessInv'
<1> USE DEF ProcessInv
<1>1. /\ backend = "waiting" /\ clocks.now >= Timeout
      /\ backend' = "grace" /\ cause' = "timeout" /\ signal' = "term"
      /\ clocks' = [clocks EXCEPT !.left = grace]
      /\ UNCHANGED <<worker, activity, told, proc, server, lost, skipped>>
  BY DEF TimesOut, Terminate
<1>2. /\ clocks'.left = grace /\ clocks'.now = clocks.now /\ clocks'.due = clocks.due
      /\ clocks'.beat = clocks.beat /\ clocks'.since = clocks.since /\ clocks' \in Clocks
  BY <1>1, Numbers DEF ProcessTypeOK, Clocks, grace
<1>3. ProcessTypeOK'
  BY <1>1, <1>2 DEF ProcessTypeOK
<1>4. Life' /\ Wanted'
  BY <1>1, <1>2 DEF Life, Wanted, GivenUp
<1>5. OnTime'
  BY <1>1, <1>2, Numbers DEF OnTime, grace
<1>6. SoonGone' /\ OwnTimeoutFirst'
  BY <1>1, <1>2 DEF Life, SoonGone, OwnTimeoutFirst, GivenUp, Hearing
<1> QED
  BY <1>3, <1>4, <1>5, <1>6

LEMMA HeartbeatStep == ASSUME ProcessInv, Heartbeat PROVE ProcessInv'
<1> USE DEF ProcessInv
<1>1. /\ worker # "down" /\ activity = "running" /\ ~told /\ clocks.due = 0
      /\ UNCHANGED <<worker, activity, backend, cause, proc, signal, server, skipped>>
  BY DEF Heartbeat
<1>2. \/ /\ lost' = lost
         /\ clocks' = [clocks EXCEPT !.due = heartbeat_seconds,
                                     !.beat = IF server = "open" THEN 0 ELSE @]
         /\ told' = (server # "open")
      \/ /\ lost' = lost + 1 /\ lost < MaxLost
         /\ clocks' = [clocks EXCEPT !.due = heartbeat_seconds]
         /\ told' = told
  BY DEF Heartbeat
<1>3. /\ clocks'.left = clocks.left /\ clocks'.now = clocks.now
      /\ clocks'.due = heartbeat_seconds /\ clocks'.since = clocks.since /\ clocks' \in Clocks
      /\ lost' = lost /\ server = "open" => clocks'.beat = 0
  <2>1. CASE clocks' = [clocks EXCEPT !.due = heartbeat_seconds,
                                      !.beat = IF server = "open" THEN 0 ELSE @]
    <3>1. clocks' = [now |-> clocks.now, due |-> heartbeat_seconds,
                     beat |-> IF server = "open" THEN 0 ELSE clocks.beat,
                     left |-> clocks.left, since |-> clocks.since]
      BY <2>1, Numbers
    <3>2. (IF server = "open" THEN 0 ELSE clocks.beat) \in 0 .. heartbeat_timeout
      BY Numbers DEF heartbeat_timeout
    <3> QED
      BY <3>1, <3>2, Numbers DEF Clocks, heartbeat_seconds
  <2>2. CASE clocks' = [clocks EXCEPT !.due = heartbeat_seconds] /\ lost' = lost + 1
    BY <2>2, Numbers DEF Clocks, heartbeat_seconds
  <2> QED
    BY <1>2, <2>1, <2>2
<1>4. lost' \in 0 .. MaxLost /\ (lost' = lost \/ lost' = lost + 1)
  BY <1>2, Numbers DEF ProcessTypeOK
<1>5. told' \in BOOLEAN
  BY <1>2 DEF ProcessTypeOK
<1>6. ProcessTypeOK'
  BY <1>1, <1>3, <1>4, <1>5 DEF ProcessTypeOK
<1>7. Life'
  <2>1. backend # "none"
    BY <1>1, <1>3 DEF Life, FirstClocks, heartbeat_seconds
  <2> QED
    BY <1>1, <1>3, <2>1 DEF Life
<1>8. Wanted'
  <2>1. server = "open" => ~told'
    BY <1>1, <1>2, Zenon
  <2> QED
    BY <1>1, <1>3, <2>1 DEF Wanted, GivenUp
<1>9. OnTime'
  BY <1>1, <1>3, <1>4, Numbers DEF OnTime, heartbeat_seconds
<1>10. SoonGone'
  <2>1. CASE lost' = lost /\ told' = (server # "open")
    BY <1>1, <1>3, <2>1 DEF SoonGone, GivenUp, Hearing
  <2>2. CASE lost' = lost + 1 /\ told' = told
    BY <1>1, <1>3, <2>2, Numbers DEF SoonGone, GivenUp, Hearing, heartbeat_seconds
  <2> QED
    BY <1>2, <2>1, <2>2
<1>11. OwnTimeoutFirst'
  BY <1>1, <1>4, Numbers DEF OwnTimeoutFirst
<1> QED
  BY <1>6, <1>7, <1>8, <1>9, <1>10, <1>11

(* Where a CancelledError leaves execute.                                  *)
LEMMA CancelBackendStep ==
  ASSUME ProcessInv, CancelBackend
  PROVE  /\ clocks' \in Clocks /\ UNCHANGED <<clocks.now, clocks.due, clocks.beat, clocks.since>>
         /\ skipped' \in BOOLEAN
         /\ \/ /\ backend = "waiting" /\ backend' = "grace"
               /\ cause' = "cancel" /\ signal' = "term" /\ clocks'.left = grace
            \/ /\ backend \in {"grace", "killed"} /\ backend' = "cancelled"
               /\ UNCHANGED <<cause, signal, clocks>>
            \/ /\ backend = "none" \/ Ended
               /\ UNCHANGED <<backend, cause, signal, clocks>>
<1> USE DEF ProcessInv
<1>1. CASE backend = "waiting" /\ Terminate("cancel") /\ UNCHANGED skipped
  BY <1>1, Numbers DEF Terminate, Clocks, ProcessTypeOK, grace
<1>2. CASE ~(backend = "waiting" /\ Terminate("cancel") /\ UNCHANGED skipped)
  BY <1>2 DEF CancelBackend, ProcessTypeOK
<1> QED
  BY <1>1, <1>2

LEMMA SkippedStays ==
  ASSUME ProcessInv, CancelBackend
  PROVE  /\ skipped => skipped'
         /\ backend = "grace" /\ proc = "running" => skipped'
<1>1. CASE skipped' = skipped /\ backend # "grace"
  BY <1>1
<1>2. CASE skipped' = (skipped \/ (backend = "grace" /\ proc = "running"))
  BY <1>2, Zenon
<1>3. \/ skipped' = skipped /\ backend # "grace"
      \/ skipped' = (skipped \/ (backend = "grace" /\ proc = "running"))
  BY DEF CancelBackend, Ended
<1> QED
  BY <1>1, <1>2, <1>3

LEMMA CancelledStep == ASSUME ProcessInv, Cancelled PROVE ProcessInv'
<1> USE DEF ProcessInv
<1>1. /\ worker # "down" /\ activity = "running" /\ told /\ activity' = "done"
      /\ server' \in IF server = "open" THEN {"open", "interrupted"} ELSE {server}
      /\ UNCHANGED <<worker, told, proc, lost>>
  BY DEF Cancelled
<1>2. CancelBackend
  BY DEF Cancelled
<1>3. ProcessTypeOK'
  BY <1>1, <1>2, CancelBackendStep DEF ProcessTypeOK
<1>4. Life'
  BY <1>1, <1>2, CancelBackendStep, SkippedStays DEF Life, Ended, grace
<1>5. Wanted' /\ OnTime' /\ OwnTimeoutFirst'
  BY <1>1, <1>2, CancelBackendStep DEF Wanted, OnTime, OwnTimeoutFirst, GivenUp
<1>6. SoonGone'
  <2>1. SUFFICES ASSUME GivenUp', worker = "up", proc = "running", ~skipped' PROVE SoonGone'
    BY <1>1 DEF SoonGone
  <2>2. server' = server /\ GivenUp
    BY <1>1, <2>1 DEF Wanted, GivenUp
  <2>3. /\ ~skipped
        /\ \/ backend = "waiting" /\ backend' = "grace" /\ clocks'.left = grace
           \/ backend = "killed" /\ backend' = "cancelled"
    <3>1. ~(backend = "none" \/ Ended)
      BY <1>1, <2>1 DEF Life, Ended
    <3> QED
      <4>1. ~skipped /\ backend # "grace"
        BY <1>2, <2>1, SkippedStays
      <4> QED
        BY <1>2, <3>1, <4>1, CancelBackendStep
  <2>4. clocks'.since = clocks.since /\ clocks.since <= Hearing /\ Hearing' = Hearing
    BY <1>1, <1>2, <2>1, <2>2, <2>3, CancelBackendStep DEF SoonGone, Hearing
  <2> QED
    BY <1>1, <2>3, <2>4, Numbers DEF SoonGone, Hearing, grace, heartbeat_seconds
<1> QED
  BY <1>3, <1>4, <1>5, <1>6

LEMMA LoopClosesStep == ASSUME ProcessInv, LoopCloses PROVE ProcessInv'
<1> USE DEF ProcessInv
<1>1. /\ worker = "stopping" /\ activity = "done" /\ backend # "waiting"
      /\ worker' = "down" /\ UNCHANGED <<activity, told, proc, server, lost>>
      /\ CancelBackend
  BY DEF LoopCloses
<1>2. ProcessTypeOK'
  BY <1>1, CancelBackendStep DEF ProcessTypeOK
<1>3. Life'
  BY <1>1, CancelBackendStep, SkippedStays DEF Life, Ended
<1>4. Wanted' /\ OnTime' /\ OwnTimeoutFirst' /\ SoonGone'
  BY <1>1, CancelBackendStep DEF Wanted, OnTime, OwnTimeoutFirst, SoonGone, GivenUp
<1> QED
  BY <1>2, <1>3, <1>4

LEMMA TickStep == ASSUME ProcessInv, Tick PROVE ProcessInv'
<1> USE DEF ProcessInv
<1>1. UNCHANGED <<worker, activity, told, backend, cause, signal, proc, server, lost, skipped>>
  BY DEF Tick, run
<1>2. ~Urgent /\ (server = "open" => clocks.beat < heartbeat_timeout)
  BY Numbers DEF Tick, Urgent, ServerDue, heartbeat_timeout
<1>3. /\ clocks' \in Clocks
      /\ clocks'.now \in {clocks.now, clocks.now + 1}
      /\ clocks'.due = IF clocks.due > 0 THEN clocks.due - 1 ELSE 0
      /\ clocks'.beat = IF server = "open" THEN clocks.beat + 1 ELSE clocks.beat
      /\ clocks'.left = IF clocks.left > 0 THEN clocks.left - 1 ELSE 0
      /\ clocks'.since \in {clocks.since, clocks.since + 1}
      /\ ~GivenUp => clocks'.since = clocks.since
  BY <1>2, Numbers DEF Tick, Clocks, heartbeat_timeout, heartbeat_seconds, start_to_close, grace, Notice
<1>4. ProcessTypeOK'
  BY <1>1, <1>3 DEF ProcessTypeOK
<1>5. Life'
  BY <1>1, <1>2, <1>3 DEF Life, Urgent, BackendDue
<1>6. Wanted'
  BY <1>1, <1>3 DEF Wanted, GivenUp
<1>7. OnTime'
  BY <1>1, <1>2, <1>3, Numbers
  DEF Life, Wanted, OnTime, Urgent, BackendDue, ActivityDue, heartbeat_seconds, grace
<1>8. SoonGone'
  <2>1. SUFFICES ASSUME GivenUp, worker = "up", proc = "running", ~skipped PROVE SoonGone'
    BY <1>1 DEF SoonGone, GivenUp
  <2>2. CASE activity = "running"
    BY <1>1, <1>2, <1>3, <2>1, <2>2, Numbers
    DEF SoonGone, GivenUp, Hearing, Urgent, ActivityDue, heartbeat_seconds
  <2>3. CASE activity = "done"
    <3>1. backend = "grace" /\ clocks.left > 0
      BY <1>2, <2>1, <2>3, Numbers DEF Life, SoonGone, Urgent, BackendDue, grace
    <3> QED
      BY <1>1, <1>3, <2>1, <2>3, <3>1, Numbers
      DEF SoonGone, GivenUp, Hearing, grace, heartbeat_seconds
  <2> QED
    BY <2>2, <2>3 DEF ProcessTypeOK
<1>9. OwnTimeoutFirst'
  BY <1>1 DEF OwnTimeoutFirst
<1> QED
  BY <1>4, <1>5, <1>6, <1>7, <1>8, <1>9
-----------------------------------------------------------------------------
(* The attempts of a task.                                                 *)

LEMMA ProcessStep == ASSUME ProcessInv, [Next]_vars PROVE ProcessInv'
<1>1. CASE ProcessNext
  <2>1. CASE \/ Launch \/ Refuse \/ Communicated \/ Reaped \/ Kills \/ Report \/ ProcessExits
             \/ ServerGivesUp \/ WorkflowCancelled \/ WorkerDies \/ WorkerInterrupted
    <3>1. clocks' = clocks /\ lost' = lost
      BY <2>1 DEF Launch, Refuse, Communicated, Reaped, Kills, Report, ProcessExits,
          ServerGivesUp, WorkflowCancelled, WorkerDies, WorkerInterrupted
    <3> QED
      BY <2>1, <3>1, QuietStep
  <2> QED
    BY <1>1, <2>1, TimesOutStep, HeartbeatStep, CancelledStep, LoopClosesStep, TickStep
    DEF ProcessNext, WorkerStep
<1>2. CASE UNCHANGED process
  BY <1>2 DEF process, run, ProcessInv, ProcessTypeOK, Life, Wanted, OnTime, SoonGone,
      OwnTimeoutFirst, GivenUp, Hearing
<1>3. CASE NextAttempt
  <2>1. FirstClocks \in Clocks
    BY ExecutorAssumption
    DEF FirstClocks, Clocks, start_to_close, heartbeat_seconds, heartbeat_timeout, grace, Notice
  <2>2. ProcessTypeOK'
    BY <1>3, <2>1, Zenon DEF NextAttempt, StartAttempt, ProcessInv, ProcessTypeOK
  <2> QED
    BY <1>3, <2>2, ExecutorAssumption
    DEF NextAttempt, StartAttempt, ProcessInv, Life, Wanted, OnTime, SoonGone, OwnTimeoutFirst,
        GivenUp, FirstClocks, heartbeat_seconds
<1> QED
  BY <1>1, <1>2, <1>3
  DEF Next, vars, Running, Write, Stage, Commit, Edit, Verify

(* The invariant bounds every clock in every state of execute and its      *)
(* activity; the three properties of a process follow from it.             *)
LEMMA ProcessAlways == Spec => []ProcessInv
<1>1. Init => ProcessInv
  BY FirstInv DEF Init
<1> QED
  BY <1>1, ProcessStep, PTL DEF Spec

(* The end of an execution that the workflow learns from its worker is the *)
(* end of its process (execute, run_execution_activity).                   *)
THEOREM Reported == Spec => []ReportedIsGone
<1>1. ProcessInv => ReportedIsGone
  BY DEF ProcessInv, Life, ReportedIsGone
<1> QED
  BY <1>1, ProcessAlways, PTL

(* A process that nobody waits for is gone within the heartbeats that were *)
(* lost, one more, and the grace - for every timeout and any number of     *)
(* lost heartbeats (the except CancelledError clauses).                    *)
THEOREM EndsSoon == Spec => []UnwantedEndsSoon
<1>1. ProcessInv => UnwantedEndsSoon
  <2>1. SUFFICES ASSUME ProcessInv, GivenUp, worker = "up", proc = "running", ~skipped
                 PROVE  clocks.since <= Notice(lost)
    BY DEF UnwantedEndsSoon
  <2>2. Notice(lost) = Hearing + grace
    BY DEF Notice, Hearing
  <2>3. lost \in Nat /\ clocks.since \in Nat
    BY <2>1, Numbers DEF ProcessInv, Notice, heartbeat_seconds, grace
  <2>4. activity \in {"running", "done"}
    BY <2>1 DEF ProcessInv, ProcessTypeOK
  <2> QED
    BY <2>1, <2>2, <2>3, <2>4 DEF ProcessInv, SoonGone, Hearing, heartbeat_seconds, grace
<1> QED
  BY <1>1, ProcessAlways, PTL

(* The margins of the deadlines suffice: the activity of an executor that  *)
(* hangs and ignores SIGTERM is ended by its own timeout, whatever that    *)
(* is, and not by the server's.                                            *)
THEOREM OwnTimeout == Spec => []OwnTimeoutFirst
<1>1. ProcessInv => OwnTimeoutFirst
  BY DEF ProcessInv
<1> QED
  BY <1>1, ProcessAlways, PTL

-----------------------------------------------------------------------------
(* The checkout.                                                           *)

(* Whatever differs from the baseline is reported, if it is not ignored.   *)
LEMMA ChangesReported ==
  ASSUME checkout \in [head : [Paths -> 0 .. 1], index : [Paths -> 0 .. 1], tree : [Paths -> 0 .. 1]],
         pinned \/ checkout.head = Unchanged
  PROVE  ChangedIn(checkout.tree, Unchanged) \ Ignored \subseteq git_changed_paths(checkout, pinned)
<1>1. SUFFICES ASSUME NEW p \in Paths, checkout.tree[p] # 0, p \notin Ignored
               PROVE  p \in git_changed_paths(checkout, pinned)
  BY DEF ChangedIn, Unchanged
<1>2. checkout.tree[p] = 1 /\ checkout.index[p] \in {0, 1}
  BY <1>1
<1>3. CASE p \in Tracked \/ checkout.index[p] = 1
  <2>1. p \in Diff(checkout, Unchanged)
    BY <1>1, <1>3 DEF Diff, ChangedIn, Unchanged
  <2>2. (IF pinned THEN Unchanged ELSE checkout.head) = Unchanged
    OBVIOUS
  <2> QED
    BY <2>1, <2>2 DEF git_changed_paths
<1>4. CASE p \notin Tracked /\ checkout.index[p] = 0
  BY <1>1, <1>2, <1>4 DEF git_changed_paths, Untracked
<1> QED
  BY <1>2, <1>3, <1>4

(* Nothing is reported that is as it was in the baseline, wherever git     *)
(* looks (git_changed_paths): a worker that touched nothing is not refused *)
(* for what git reports.                                                   *)
THEOREM NothingInvented ==
  ASSUME NEW p \in Paths, checkout.head[p] = 0, checkout.index[p] = 0, checkout.tree[p] = 0
  PROVE  p \notin git_changed_paths(checkout, pinned)
<1>1. Unchanged[p] = 0
  BY DEF Unchanged
<1>2. p \notin Diff(checkout, IF pinned THEN Unchanged ELSE checkout.head)
  BY <1>1 DEF Diff, ChangedIn
<1>3. p \notin ChangedIn(checkout.index, checkout.head) /\ p \notin Untracked(checkout)
  BY DEF ChangedIn, Untracked
<1> QED
  BY <1>2, <1>3 DEF git_changed_paths

(* The hypothesis of VerifiedTree is needed: without a base_ref, a worker  *)
(* that commits all it did leaves a checkout of which nothing is reported  *)
(* (git_changed_paths compares with HEAD).                                 *)
THEOREM CommittedEscapes ==
  ASSUME ~pinned, checkout.index = checkout.head, checkout.tree = checkout.head
  PROVE  git_changed_paths(checkout, pinned) = {}
<1>1. Diff(checkout, IF pinned THEN Unchanged ELSE checkout.head) = {}
  BY DEF Diff, ChangedIn
<1>2. ChangedIn(checkout.index, checkout.head) = {} /\ Untracked(checkout) = {}
  BY DEF ChangedIn, Untracked
<1> QED
  BY <1>1, <1>2 DEF git_changed_paths

(* Whatever a worker prints, an answer other than invalid_evidence - that  *)
(* of a blocked or failed worker, too - claims exactly what git reports,   *)
(* and all of that is allowed (validate_evidence,                          *)
(* verify_execution_activity).                                             *)
THEOREM EvidenceExact ==
  ASSUME NEW actual, NEW v \in Verdicts(actual), v.status # "invalid_evidence"
  PROVE  v.changed = actual /\ ValidPaths(actual)
<1>1. v # NoEvidence
  BY DEF NoEvidence
<1>2. PICK e \in Evidence : v = Verdict(e, actual)
  BY <1>1 DEF Verdicts
<1> QED
  BY <1>1, <1>2 DEF Verdict, Validated

CheckoutTypeOK ==
  checkout \in [head : [Paths -> 0 .. 1], index : [Paths -> 0 .. 1], tree : [Paths -> 0 .. 1]]

(* A verified attempt has no process any more that could edit behind it.   *)
TreeInv ==
  /\ CheckoutTypeOK
  /\ stage = "verified" => server = "completed"
  /\ VerifiedTree

LEMMA EditStep ==
  ASSUME NEW c \in [head : [Paths -> 0 .. 1], index : [Paths -> 0 .. 1], tree : [Paths -> 0 .. 1]],
         ProcessInv, TreeInv, Edit(c)
  PROVE  TreeInv'
<1>1. /\ checkout' = c /\ proc = "running" /\ server \in {"open", "completed"}
      /\ UNCHANGED <<stage, server>>
  BY DEF Edit, process, attempt
<1>2. stage # "verified"
  BY <1>1 DEF ProcessInv, Life, TreeInv
<1> QED
  BY <1>1, <1>2 DEF TreeInv, CheckoutTypeOK, VerifiedTree

LEMMA TreeStep == ASSUME ProcessInv, TreeInv, [Next]_vars PROVE TreeInv'
<1>1. CASE Running
  BY <1>1 DEF Running, attempt, files, TreeInv, CheckoutTypeOK, VerifiedTree
<1>2. CASE Write
  <2>1. PICK p \in Paths : Edit([checkout EXCEPT !.tree[p] = 1 - @])
    BY <1>2 DEF Write
  <2>2. [checkout EXCEPT !.tree[p] = 1 - @] \in
          [head : [Paths -> 0 .. 1], index : [Paths -> 0 .. 1], tree : [Paths -> 0 .. 1]]
    BY DEF TreeInv, CheckoutTypeOK
  <2> QED
    BY <2>1, <2>2, EditStep
<1>3. CASE Stage
  <2> DEFINE i == [p \in Paths |-> IF p \in Ignored THEN checkout.index[p] ELSE checkout.tree[p]]
  <2>1. [checkout EXCEPT !.index = i] \in
          [head : [Paths -> 0 .. 1], index : [Paths -> 0 .. 1], tree : [Paths -> 0 .. 1]]
    BY DEF TreeInv, CheckoutTypeOK
  <2> QED
    BY <1>3, <2>1, EditStep DEF Stage
<1>4. CASE Commit
  <2>1. [checkout EXCEPT !.head = checkout.index] \in
          [head : [Paths -> 0 .. 1], index : [Paths -> 0 .. 1], tree : [Paths -> 0 .. 1]]
    BY DEF TreeInv, CheckoutTypeOK
  <2> QED
    BY <1>4, <2>1, EditStep DEF Commit
<1>5. CASE Verify
  <2>1. /\ server = "completed" /\ UNCHANGED <<server, pinned, checkout>>
        /\ verdict' \in Verdicts(git_changed_paths(checkout, pinned))
    BY <1>5 DEF Verify, process, files
  <2>2. VerifiedTree'
    <3>1. SUFFICES ASSUME verdict'.status = "complete", pinned \/ checkout.head = Unchanged
                   PROVE  /\ ChangedIn(checkout.tree, Unchanged) \ Ignored \subseteq verdict'.changed
                          /\ \A p \in verdict'.changed :
                               ~IsUnsafe(p) /\ \E a \in Allowed : PathMatches(p, a)
      BY <2>1 DEF VerifiedTree
    <3>2. /\ verdict'.changed = git_changed_paths(checkout, pinned)
          /\ ValidPaths(verdict'.changed)
      BY <2>1, <3>1, EvidenceExact
    <3>3. ChangedIn(checkout.tree, Unchanged) \ Ignored \subseteq verdict'.changed
      BY <3>1, <3>2, ChangesReported DEF TreeInv, CheckoutTypeOK
    <3> QED
      BY <3>2, <3>3 DEF ValidPaths
  <2> QED
    BY <2>1, <2>2 DEF TreeInv, CheckoutTypeOK
<1>6. CASE NextAttempt
  BY <1>6 DEF NextAttempt, StartAttempt, files, TreeInv, CheckoutTypeOK, VerifiedTree
<1>7. CASE UNCHANGED vars
  BY <1>7 DEF vars, process, attempt, files, TreeInv, CheckoutTypeOK, VerifiedTree
<1> QED
  BY <1>1, <1>2, <1>3, <1>4, <1>5, <1>6, <1>7 DEF Next

(* What a completed attempt claims is within the allowed paths and covers  *)
(* every change in the checkout, and stays so until the answer is used     *)
(* (verify_execution_activity, git_changed_paths, validate_evidence).      *)
THEOREM TreeVerified == Spec => []VerifiedTree
<1>1. Init => TreeInv
  BY DEF Init, TreeInv, CheckoutTypeOK, VerifiedTree, Unchanged
<1>2. ProcessInv /\ TreeInv /\ [Next]_vars => TreeInv'
  BY TreeStep
<1>3. TreeInv => VerifiedTree
  BY DEF TreeInv
<1> QED
  BY <1>1, <1>2, <1>3, ProcessAlways, PTL DEF Spec
-----------------------------------------------------------------------------
(* Types.                                                                  *)

VerdictTypeOK ==
  /\ verdict.status \in {"complete", "blocked", "failed", "invalid_evidence"}
  /\ verdict.changed \subseteq Paths

LEMMA VerdictType ==
  ASSUME NEW actual \in SUBSET Paths, NEW v \in Verdicts(actual)
  PROVE  /\ v.status \in {"complete", "blocked", "failed", "invalid_evidence"}
         /\ v.changed \subseteq Paths
<1>1. CASE v = NoEvidence
  BY <1>1 DEF NoEvidence
<1>2. CASE v # NoEvidence
  <2>1. PICK e \in Evidence : v = Verdict(e, actual)
    BY <1>2 DEF Verdicts
  <2>2. v = [status |-> e.status, changed |-> e.changed] /\ e.changed = actual
    BY <1>2, <2>1 DEF Verdict, Validated
  <2>3. PICK out \in Outputs : ~ParseFails(out) /\ e = Parsed(out)
    BY <2>1 DEF Evidence
  <2>4. e.status \in {"complete", "blocked", "failed"}
    BY <2>3 DEF Parsed, ParseFails, Outputs
  <2> QED
    BY <2>2, <2>4
<1> QED
  BY <1>1, <1>2

LEMMA AttemptTypeStep == ASSUME TypeOK, ProcessTypeOK', [Next]_vars PROVE TypeOK'
<1> USE DEF TypeOK
<1>1. CheckoutTypeOK' /\ edits' \in 0 .. MaxEdits
  <2>1. CASE Write
    <3>1. PICK p \in Paths : Edit([checkout EXCEPT !.tree[p] = 1 - @])
      BY <2>1 DEF Write
    <3> QED
      BY <3>1, AttemptAssumption DEF Edit, CheckoutTypeOK
  <2>2. CASE Stage
    BY <2>2, AttemptAssumption DEF Stage, Edit, CheckoutTypeOK
  <2>3. CASE Commit
    BY <2>3, AttemptAssumption DEF Commit, Edit, CheckoutTypeOK
  <2>4. CASE Running \/ Verify \/ NextAttempt \/ UNCHANGED vars
    BY <2>4 DEF Running, Verify, NextAttempt, StartAttempt, files, vars, CheckoutTypeOK
  <2> QED
    BY <2>1, <2>2, <2>3, <2>4 DEF Next
<1>2. VerdictTypeOK'
  <2>1. CASE Verify
    <3>1. git_changed_paths(checkout, pinned) \in SUBSET Paths
      BY DEF git_changed_paths, Diff, ChangedIn, Untracked
    <3> QED
      BY <2>1, <3>1, VerdictType DEF Verify, VerdictTypeOK
  <2>2. CASE NextAttempt
    BY <2>2 DEF NextAttempt, StartAttempt, NoEvidence, VerdictTypeOK
  <2>3. CASE UNCHANGED verdict
    BY <2>3 DEF VerdictTypeOK
  <2> QED
    BY <2>1, <2>2, <2>3 DEF Next, Running, Write, Stage, Commit, Edit, attempt, vars
<1>3. stage' \in {"executing", "verified"} /\ round' \in 1 .. MaxRounds /\ pinned' \in BOOLEAN
  <2>1. CASE NextAttempt
    BY <2>1, AttemptAssumption DEF NextAttempt, StartAttempt
  <2>2. CASE ~NextAttempt
    BY <2>2 DEF Next, Running, Write, Stage, Commit, Edit, Verify, attempt, vars
  <2> QED
    BY <2>1, <2>2
<1> QED
  BY <1>1, <1>2, <1>3 DEF CheckoutTypeOK, VerdictTypeOK

(* Type correctness, for every timeout and every checkout.                 *)
THEOREM TypeCorrect == Spec => []TypeOK
<1>1. Init => TypeOK
  <2>1. SUFFICES ASSUME Init PROVE TypeOK
    OBVIOUS
  <2>2. ProcessTypeOK
    BY <2>1, FirstInv DEF Init, ProcessInv
  <2>3. CheckoutTypeOK
    BY <2>1 DEF Init, CheckoutTypeOK, Unchanged
  <2> QED
    BY <2>1, <2>2, <2>3, AttemptAssumption DEF Init, TypeOK, CheckoutTypeOK, NoEvidence
<1>2. TypeOK /\ ProcessInv' /\ [Next]_vars => TypeOK'
  BY AttemptTypeStep DEF ProcessInv
<1> QED
  BY <1>1, <1>2, ProcessAlways, PTL DEF Spec
-----------------------------------------------------------------------------
(* The refinement: an attempt as module Execution sees it.                 *)

(* Until execute has run, the server has no answer of its own; and what    *)
(* returned an outcome had a process.                                      *)
Answered ==
  /\ worker = "up" /\ activity = "running" /\ backend = "none" => server \in {"open", "canceled"}
  /\ backend = "returned" => proc = "gone"

LEMMA AnsweredStep == ASSUME ProcessInv, Answered, [Next]_vars PROVE Answered'
<1> USE DEF Answered
<1>1. CASE Launch \/ Refuse \/ Communicated \/ TimesOut \/ Reaped \/ Kills \/ Report
  BY <1>1 DEF Launch, Refuse, Communicated, TimesOut, Terminate, Reaped, Kills, Report
<1>2. CASE Heartbeat \/ ProcessExits \/ WorkflowCancelled \/ WorkerDies \/ WorkerInterrupted \/ Tick
  BY <1>2 DEF Heartbeat, ProcessExits, WorkflowCancelled, WorkerDies, WorkerInterrupted, Tick, run
<1>3. CASE Cancelled \/ LoopCloses
  BY <1>3 DEF Cancelled, LoopCloses, CancelBackend, Terminate, Ended
<1>4. CASE ServerGivesUp
  <2>1. ASSUME worker = "up", activity = "running", backend = "none" PROVE FALSE
    BY <1>4, <2>1, Numbers, ExecutorAssumption
    DEF ServerGivesUp, ServerDue, ProcessInv, Life, FirstClocks, heartbeat_timeout, start_to_close
  <2> QED
    BY <1>4, <2>1 DEF ServerGivesUp, run
<1>5. CASE NextAttempt
  BY <1>5 DEF NextAttempt, StartAttempt
<1>6. CASE Write \/ Stage \/ Commit \/ Verify \/ UNCHANGED vars
  BY <1>6 DEF Write, Stage, Commit, Edit, Verify, vars, process, run
<1> QED
  BY <1>1, <1>2, <1>3, <1>4, <1>5, <1>6 DEF Next, Running, ProcessNext, WorkerStep

AttemptInv == ProcessInv /\ TreeInv /\ TypeOK /\ Answered

LEMMA AttemptAlways == Spec => []AttemptInv
<1>1. Init => Answered
  BY DEF Init, ProcessInit, Answered
<1>2. Init => TreeInv
  BY DEF Init, TreeInv, CheckoutTypeOK, VerifiedTree, Unchanged
<1> QED
  BY <1>1, <1>2, AnsweredStep, TreeStep, ProcessAlways, TypeCorrect, PTL DEF Spec, AttemptInv

LEMMA SeenType == ASSUME TypeOK PROVE Seen \in Work!Executions
BY DEF TypeOK, ProcessTypeOK, Seen, Work!Executions

(* What a step of the execution itself is to the workflow.                 *)
LEMMA ProcessMoves ==
  ASSUME AttemptInv, stage = "executing", stage' = "executing", ProcessNext,
         Seen \in Work!Executions, Seen' \in Work!Executions
  PROVE  Seen' = Seen \/ Work!Moves(Seen, Seen')
<1>1. CASE Launch
  <2>1. /\ proc = "none" /\ proc' = "running" /\ server' = server
        /\ server \in {"open", "canceled"}
    BY <1>1 DEF Launch, AttemptInv, Answered, ProcessInv, Life
  <2>2. CASE server = "open"
    <3>1. /\ Seen.stage = "starting" /\ ~Seen.launched
          /\ Seen'.stage = "executing" /\ Seen'.launched /\ Seen'.alive
          /\ Seen'.complete <=> Seen.complete
      BY <2>1, <2>2 DEF Seen
    <3>2. Seen' = [Seen EXCEPT !.stage = "executing", !.launched = TRUE, !.alive = TRUE]
      BY <3>1 DEF Work!Executions
    <3> QED
      BY <3>1, <3>2, Zenon DEF Work!Moves, Work!Launches
  <2>3. CASE server = "canceled"
    <3>1. /\ Seen.stage = "canceled" /\ ~Seen.launched
          /\ Seen'.stage = Seen.stage /\ Seen'.launched /\ Seen'.alive
          /\ Seen'.complete <=> Seen.complete
      BY <2>1, <2>3 DEF Seen
    <3>2. Seen' = [Seen EXCEPT !.launched = TRUE, !.alive = TRUE]
      BY <3>1 DEF Work!Executions
    <3> QED
      BY <3>1, <3>2, Zenon DEF Work!Moves, Work!LaunchesLate
  <2> QED
    BY <2>1, <2>2, <2>3
<1>2. CASE Refuse \/ Communicated \/ TimesOut \/ Reaped \/ Kills \/ Heartbeat \/ WorkerDies
           \/ WorkerInterrupted \/ LoopCloses \/ Tick
  <2>1. UNCHANGED <<proc, server>>
    BY <1>2 DEF Refuse, Communicated, TimesOut, Reaped, Kills, Heartbeat, WorkerDies,
       WorkerInterrupted, LoopCloses, Tick
  <2> QED
    BY <2>1 DEF Seen
<1>3. CASE Report
  <2>1. CASE server # "open"
    BY <1>3, <2>1 DEF Report, Seen
  <2>2. CASE server = "open" /\ backend = "returned"
    <3>1. proc = "gone" /\ proc' = "gone" /\ server' = "completed"
      BY <1>3, <2>2 DEF Report, AttemptInv, Answered
    <3>2. /\ Seen.stage = "executing" /\ Seen'.stage = "verifying" /\ ~Seen'.alive
          /\ (Seen'.launched <=> Seen.launched) /\ (Seen'.complete <=> Seen.complete)
      BY <2>2, <3>1 DEF Seen
    <3>3. Seen' = [Seen EXCEPT !.stage = "verifying", !.alive = FALSE]
      BY <3>2 DEF Work!Executions
    <3> QED
      BY <3>2, <3>3 DEF Work!Moves, Work!Ends
  <2>3. CASE server = "open" /\ backend = "raised"
    BY <1>3, <2>3 DEF Report, Seen, Work!Moves, Work!Fails
  <2> QED
    BY <1>3, <2>1, <2>2, <2>3 DEF Report
<1>4. CASE Cancelled \/ ServerGivesUp
  <2>1. /\ proc' = proc
        /\ server' = server \/ (server = "open" /\ server' \in {"interrupted", "timed_out"})
    BY <1>4 DEF Cancelled, ServerGivesUp, ServerDue
  <2> QED
    BY <2>1 DEF Seen, Work!Moves, Work!Fails
<1>5. CASE WorkflowCancelled
  BY <1>5 DEF WorkflowCancelled, Seen, Work!Moves, Work!Canceled
<1>6. CASE ProcessExits
  <2>1. proc = "running" /\ proc' = "gone" /\ server' = server
    BY <1>6 DEF ProcessExits
  <2>2. /\ Seen.alive /\ ~Seen'.alive /\ Seen'.stage = Seen.stage
        /\ (Seen'.launched <=> Seen.launched) /\ (Seen'.complete <=> Seen.complete)
    BY <2>1 DEF Seen
  <2>3. Seen' = [Seen EXCEPT !.alive = FALSE]
    BY <2>2 DEF Work!Executions
  <2> QED
    BY <2>2, <2>3, Zenon DEF Work!Moves, Work!Exits
<1> QED
  BY <1>1, <1>2, <1>3, <1>4, <1>5, <1>6 DEF ProcessNext, WorkerStep

LEMMA AttemptMoves ==
  ASSUME AttemptInv, [Next]_vars, Seen \in Work!Executions, Seen' \in Work!Executions
  PROVE  Seen' = Seen \/ Work!Moves(Seen, Seen')
<1>1. CASE Running
  BY <1>1, ProcessMoves DEF Running, attempt
<1>2. CASE Write \/ Stage \/ Commit \/ UNCHANGED vars
  <2>1. UNCHANGED <<proc, server, stage, verdict>>
    BY <1>2 DEF Write, Stage, Commit, Edit, vars, process, attempt
  <2> QED
    BY <2>1 DEF Seen
<1>3. CASE Verify
  <2>1. /\ stage = "executing" /\ server = "completed" /\ stage' = "verified"
        /\ UNCHANGED <<proc, server>>
    BY <1>3 DEF Verify, process
  <2>2. /\ Seen.stage = "verifying" /\ Seen'.stage = "over"
        /\ (Seen'.launched <=> Seen.launched) /\ (Seen'.alive <=> Seen.alive)
    BY <2>1 DEF Seen
  <2>3. Seen' = [Seen EXCEPT !.stage = "over", !.complete = Seen'.complete]
    BY <2>2 DEF Work!Executions
  <2>4. Seen'.complete \in BOOLEAN
    BY DEF Work!Executions
  <2> QED
    BY <2>2, <2>3, <2>4 DEF Work!Moves, Work!Verified
<1>4. CASE NextAttempt
  BY <1>4 DEF NextAttempt, StartAttempt, Seen, NoEvidence, Work!Moves, Work!Begins, Work!Fresh
<1> QED
  BY <1>1, <1>2, <1>3, <1>4 DEF Next

(* Every step of an attempt, down to its signals and deadlines, is a move  *)
(* of an execution as the workflow sees it, or nothing to it               *)
(* (AgentExecutionWorkflow.run, run_execution_activity,                    *)
(* CliExecutionBackend.execute).                                           *)
THEOREM ImplementsExecution == Spec => KeepsExecution
<1>1. Init => Work!Init
  BY DEF Init, ProcessInit, Seen, NoEvidence, Work!Init, Work!Fresh
<1> DEFINE Typed == Seen \in Work!Executions
<1>2. TypeOK => Typed
  BY SeenType
<1>3. AttemptInv /\ [Next]_vars /\ Typed /\ Typed' => [Work!Next]_Work!vars
  <2>1. SUFFICES ASSUME AttemptInv, [Next]_vars, Typed, Typed' PROVE Work!Next
    OBVIOUS
  <2>2. Seen' \in Work!Executions
    BY <2>1
  <2>3. Seen' = Seen \/ Work!Moves(Seen, Seen')
    BY <2>1, <2>2, AttemptMoves
  <2> QED
    BY <2>2, <2>3 DEF Work!Next
<1>4. AttemptInv => TypeOK
  BY DEF AttemptInv
<1> HIDE DEF Typed
<1> QED
  BY <1>1, <1>2, <1>3, <1>4, AttemptAlways, PTL DEF Spec, KeepsExecution, Work!Spec
=============================================================================
