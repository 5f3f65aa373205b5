--------------------------- MODULE ExecutorProcess ---------------------------
(***************************************************************************)
(* One execution of an executor CLI under Temporal: the activity           *)
(* run_execution_activity (src/durable_threads/temporal_activities.py),    *)
(* the coroutine CliExecutionBackend.execute that it starts and shields    *)
(* (execution.py), the child process of that coroutine, and the server,    *)
(* which knows only the heartbeats that reach it.  Time passes in ticks of *)
(* fifteen seconds - the grace of five seconds is counted as a whole one - *)
(* and none passes while something of a live worker is due.                *)
(***************************************************************************)
EXTENDS Integers

CONSTANTS
  Timeout,   \* task.provider_timeout_seconds, in ticks
  MaxLost    \* bound: heartbeats that never reach the server

ASSUME ExecutorAssumption == Timeout \in Nat \ {0} /\ MaxLost \in Nat

VARIABLES
  worker,    \* the worker process: "up", "stopping" (interrupted), "down"
  activity,  \* run_execution_activity: "running", "done"
  told,      \* the worker has learned that the activity is no longer wanted
  backend,   \* where execute is: "none", at communicate ("waiting"), at the
             \* wait after terminate ("grace") or after kill ("killed"), or
             \* "returned", "raised", "cancelled"
  cause,     \* why execute stops its process: "none", "timeout", "cancel"
  proc,      \* the child process: "none", "running", "gone"
  signal,    \* the strongest signal sent to it: "none", "term", "kill"
  server,    \* the activity for the server: "open", "completed", "failed",
             \* "timed_out", "canceled"; "interrupted" if it failed with a
             \* worker that was shutting down
  clocks,    \* [now, due, beat, left, since], see Clocks
  lost,      \* heartbeats lost so far
  skipped    \* history: a cancellation ended the grace before the kill

run == <<activity, told, backend, cause, signal>>
process == <<worker, run, proc, server, clocks, lost, skipped>>

-----------------------------------------------------------------------------
(* The deadlines, in ticks. *)

grace == 1               \* wait_for(process.wait(), timeout=5), rounded up
heartbeat_seconds == 2   \* 30 seconds
heartbeat_timeout == 3   \* 45 seconds

NoMargin == Timeout      \* a fault: the provider's own timeout leaves no room
start_to_close == Timeout + 4   \* 60 seconds more

(* How long an unwanted process may still run: the next heartbeat that     *)
(* gets through tells the worker, and a process that ignores SIGTERM has   *)
(* its grace.                                                              *)
Notice(n) == (n + 1) * heartbeat_seconds + grace

GivenUp == server \in {"timed_out", "canceled", "interrupted"}
Ended == backend \in {"returned", "raised", "cancelled"}

(* now: since the start; due: until the next heartbeat; beat: since the    *)
(* server heard of the worker; left: of the grace; since: for how long the *)
(* process has run unwanted.  now and since stop at a bound.               *)
Clocks == [now : 0 .. start_to_close, due : 0 .. heartbeat_seconds,
           beat : 0 .. heartbeat_timeout, left : 0 .. grace,
           since : 0 .. Notice(MaxLost) + 1]

FirstClocks == [now |-> 0, due |-> heartbeat_seconds, beat |-> 0, left |-> 0, since |-> 0]

-----------------------------------------------------------------------------
(* CliExecutionBackend.execute *)

(* Its checks pass and the process is created. *)
Launch ==
  /\ worker = "up" /\ activity = "running" /\ backend = "none"
  /\ backend' = "waiting" /\ proc' = "running"
  /\ UNCHANGED <<worker, activity, told, cause, signal, server, clocks, lost, skipped>>

(* No such executor, a native-only one, or one of execute's checks fails. *)
Refuse ==
  /\ worker = "up" /\ activity = "running" /\ backend = "none"
  /\ backend' = "raised"
  /\ UNCHANGED <<worker, activity, told, cause, proc, signal, server, clocks, lost, skipped>>

(* communicate returns once the process is gone. *)
Communicated ==
  /\ worker # "down" /\ backend = "waiting" /\ proc = "gone"
  /\ backend' = "returned"
  /\ UNCHANGED <<worker, activity, told, cause, proc, signal, server, clocks, lost, skipped>>

Terminate(why) ==
  /\ backend' = "grace" /\ cause' = why /\ signal' = "term"
  /\ clocks' = [clocks EXCEPT !.left = grace]

(* A fault: the process is told to end, and that is all. *)
RaisesAtOnce ==
  /\ worker # "down" /\ backend = "waiting" /\ clocks.now >= Timeout
  /\ backend' = "raised" /\ cause' = "timeout" /\ signal' = "term"
  /\ UNCHANGED <<worker, activity, told, proc, server, clocks, lost, skipped>>

TimesOut ==
  /\ worker # "down" /\ backend = "waiting" /\ clocks.now >= Timeout
  /\ Terminate("timeout")
  /\ UNCHANGED <<worker, activity, told, proc, server, lost, skipped>>

(* The wait after terminate or kill returns; the handler raises.  (If the  *)
(* process was gone at once, terminate itself raises: the same end.)       *)
Reaped ==
  /\ worker # "down" /\ backend \in {"grace", "killed"} /\ proc = "gone"
  /\ backend' = IF cause = "timeout" THEN "raised" ELSE "cancelled"
  /\ UNCHANGED <<worker, activity, told, cause, proc, signal, server, clocks, lost, skipped>>

(* A fault: after the grace SIGTERM is sent again. *)
AsksAgain ==
  /\ worker # "down" /\ backend = "grace" /\ proc = "running" /\ clocks.left = 0
  /\ Terminate(cause)
  /\ UNCHANGED <<worker, activity, told, proc, server, lost, skipped>>

Kills ==
  /\ worker # "down" /\ backend = "grace" /\ proc = "running" /\ clocks.left = 0
  /\ backend' = "killed" /\ signal' = "kill"
  /\ UNCHANGED <<worker, activity, told, cause, proc, server, clocks, lost, skipped>>

(* CancelledError at the await where execute is.  Only communicate is      *)
(* inside the try: a cancellation during the grace leaves the handler      *)
(* before the kill.                                                        *)
CancelBackend ==
  \/ /\ backend = "waiting"
     /\ Terminate("cancel")
     /\ UNCHANGED skipped
  \/ /\ backend \in {"grace", "killed"}
     /\ backend' = "cancelled"
     /\ skipped' = (skipped \/ (backend = "grace" /\ proc = "running"))
     /\ UNCHANGED <<cause, signal, clocks>>
  \/ /\ backend = "none" \/ Ended
     /\ UNCHANGED <<backend, cause, signal, clocks, skipped>>

-----------------------------------------------------------------------------
(* run_execution_activity *)

(* A fault: an error is reported as if it were an outcome. *)
ReportsErrors ==
  /\ worker # "down" /\ activity = "running" /\ backend \in {"returned", "raised"}
  /\ activity' = "done"
  /\ server' = IF server # "open" THEN server ELSE "completed"
  /\ UNCHANGED <<worker, told, backend, cause, proc, signal, clocks, lost, skipped>>

(* The shielded task is done: its outcome or its error is reported.  The   *)
(* server takes no report of an activity it has closed.                    *)
Report ==
  /\ worker # "down" /\ activity = "running" /\ backend \in {"returned", "raised"}
  /\ activity' = "done"
  /\ server' = IF server # "open" THEN server
               ELSE IF backend = "returned" THEN "completed" ELSE "failed"
  /\ UNCHANGED <<worker, told, backend, cause, proc, signal, clocks, lost, skipped>>

(* wait_for gives up on the shielded task for this time. *)
Heartbeat ==
  /\ worker # "down" /\ activity = "running" /\ ~told /\ clocks.due = 0
  /\ \/ /\ clocks' = [clocks EXCEPT !.due = heartbeat_seconds,
                                     !.beat = IF server = "open" THEN 0 ELSE @]
        /\ told' = (server # "open")
        /\ UNCHANGED lost
     \/ /\ lost < MaxLost
        /\ lost' = lost + 1
        /\ clocks' = [clocks EXCEPT !.due = heartbeat_seconds]
        /\ UNCHANGED told
  /\ UNCHANGED <<worker, activity, backend, cause, proc, signal, server, skipped>>

(* except CancelledError: task.cancel(); raise - the task is not awaited.  *)
(* Nothing but a shutdown cancels an activity that is still open.          *)
Cancelled ==
  /\ worker # "down" /\ activity = "running" /\ told
  /\ activity' = "done"
  /\ CancelBackend
  /\ server' \in IF server = "open" THEN {"open", "interrupted"} ELSE {server}
  /\ UNCHANGED <<worker, told, proc, lost>>

-----------------------------------------------------------------------------
(* The environment: the process, the server, the worker and time. *)

(* The process ends by itself, by SIGTERM if it heeds it, or by SIGKILL. *)
ProcessExits ==
  /\ proc = "running"
  /\ proc' = "gone"
  /\ UNCHANGED <<worker, run, server, clocks, lost, skipped>>

(* start_to_close_timeout and heartbeat_timeout; one attempt only. *)
ServerDue ==
  server = "open" /\ (clocks.beat >= heartbeat_timeout \/ clocks.now >= start_to_close)

ServerGivesUp ==
  /\ ServerDue
  /\ server' = "timed_out"
  /\ UNCHANGED <<worker, run, proc, clocks, lost, skipped>>

(* The workflow is cancelled: it does not wait for the activity. *)
WorkflowCancelled ==
  /\ server = "open"
  /\ server' = "canceled"
  /\ UNCHANGED <<worker, run, proc, clocks, lost, skipped>>

(* SIGKILL or a lost machine: nobody stops the process. *)
WorkerDies ==
  /\ worker # "down"
  /\ worker' = "down"
  /\ UNCHANGED <<run, proc, server, clocks, lost, skipped>>

(* Interrupt: Worker.run cancels its activities, and when it has returned, *)
(* asyncio.run cancels what is left of the tasks before the loop closes.   *)
WorkerInterrupted ==
  /\ worker = "up"
  /\ worker' = "stopping"
  /\ told' = TRUE
  /\ UNCHANGED <<activity, backend, cause, proc, signal, server, clocks, lost, skipped>>

LoopCloses ==
  /\ worker = "stopping" /\ activity = "done"
  /\ backend # "waiting"
  /\ worker' = "down"
  /\ CancelBackend
  /\ UNCHANGED <<activity, told, proc, server, lost>>

(* What must happen before more time passes. *)
BackendDue ==
  \/ backend = "none" /\ activity = "running"
  \/ backend = "waiting" /\ (proc = "gone" \/ clocks.now >= Timeout)
  \/ backend \in {"grace", "killed"} /\ (proc = "gone" \/ clocks.left = 0)

ActivityDue ==
  activity = "running" /\ (told \/ clocks.due = 0 \/ backend \in {"returned", "raised"})

Urgent ==
  \/ ServerDue
  \/ proc = "running" /\ signal = "kill"
  \/ worker # "down" /\ (BackendDue \/ ActivityDue)

Tick ==
  /\ ~Urgent
  /\ server = "open" \/ (worker # "down" /\ proc = "running")
  /\ clocks' =
       [now   |-> IF clocks.now < start_to_close THEN clocks.now + 1 ELSE clocks.now,
        due   |-> IF clocks.due > 0 THEN clocks.due - 1 ELSE 0,
        beat  |-> IF server = "open" THEN clocks.beat + 1 ELSE clocks.beat,
        left  |-> IF clocks.left > 0 THEN clocks.left - 1 ELSE 0,
        since |-> IF GivenUp /\ proc = "running" /\ clocks.since <= Notice(MaxLost)
                  THEN clocks.since + 1 ELSE clocks.since]
  /\ UNCHANGED <<worker, run, proc, server, lost, skipped>>

-----------------------------------------------------------------------------
ProcessInit ==
  /\ worker = "up" /\ activity = "running" /\ told = FALSE
  /\ backend = "none" /\ cause = "none" /\ proc = "none" /\ signal = "none"
  /\ server = "open" /\ clocks = FirstClocks /\ lost = 0 /\ skipped = FALSE

WorkerStep ==
  \/ Launch \/ Refuse \/ Communicated \/ TimesOut \/ Reaped \/ Kills
  \/ Report \/ Heartbeat \/ Cancelled

ProcessNext ==
  \/ WorkerStep \/ ProcessExits \/ ServerGivesUp \/ WorkflowCancelled
  \/ WorkerDies \/ WorkerInterrupted \/ LoopCloses \/ Tick

-----------------------------------------------------------------------------
ProcessTypeOK ==
  /\ worker \in {"up", "stopping", "down"}
  /\ activity \in {"running", "done"} /\ told \in BOOLEAN
  /\ backend \in {"none", "waiting", "grace", "killed", "returned", "raised", "cancelled"}
  /\ cause \in {"none", "timeout", "cancel"}
  /\ proc \in {"none", "running", "gone"} /\ signal \in {"none", "term", "kill"}
  /\ server \in {"open", "completed", "failed", "timed_out", "canceled", "interrupted"}
  /\ clocks \in Clocks /\ lost \in 0 .. MaxLost /\ skipped \in BOOLEAN

(* The end of an execution that the workflow learns from the worker is the *)
(* end of its process: what is verified next, or written by a next round,  *)
(* is not written by it any more.                                          *)
ReportedIsGone == server \in {"completed", "failed"} => proc # "running"

(* "Cancellation terminates the child process so Temporal activity         *)
(* cancellation does not leave an intentional orphaned writer behind"      *)
(* (execution.py:135): while its worker lives, a process nobody waits for  *)
(* is gone soon after the next heartbeat - unless the cancellation came    *)
(* during the grace of a timeout, whose kill it skips.                     *)
UnwantedEndsSoon ==
  GivenUp /\ worker = "up" /\ proc = "running" /\ ~skipped => clocks.since <= Notice(lost)

(* Of a worker that lives and is heard, the server never despairs: also an *)
(* executor that hangs and ignores SIGTERM is reported by its own timeout. *)
OwnTimeoutFirst == server = "timed_out" => lost > 0 \/ worker # "up"
=============================================================================
