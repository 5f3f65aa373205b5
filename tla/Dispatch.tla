------------------------------ MODULE Dispatch ------------------------------
(***************************************************************************)
(* The processes that share one ledger file: `durable-threads dispatch`    *)
(* (cli.py, _dispatch), which claims a task, runs a provider CLI and       *)
(* records the outcome, and `durable-threads record`, by which an operator *)
(* writes any status.  Each ledger call is what ledger.py does: create the *)
(* lock file exclusively or fail at once, read the whole file, replace the *)
(* whole file, unlink the lock.  Processes crash, are interrupted and fail *)
(* to write at any of these steps.                                         *)
(***************************************************************************)
EXTENDS Integers

CONSTANTS
  Procs,       \* command invocations that run at the same time
  Tasks, Providers, Sessions, Statuses, MaxLimit, NoValue,   \* of Ledger
  Careful      \* TRUE: the operator inspects the writer before recovery

VARIABLES
  tasks,   \* the ledger file
  lock,    \* the lock file: Free, the process that holds it, or Stale
  pc,      \* where each process is in its command
  tx,      \* how far each process is in the ledger call it makes
  snap,    \* the tasks object each process has read inside the call
  job,     \* the task, claim and outcome each process works on
  (* History, read by no command:                                          *)
  started,   \* the follow-up indices at which each task's provider started
  proven,    \* tasks of which a run returned 0 with evidence that verified
  abandoned  \* tasks whose last claimer ended without recording an outcome

L == INSTANCE Ledger

history == <<started, proven, abandoned>>
vars == <<tasks, lock, pc, tx, snap, job, history>>

ASSUME DispatchAssumption ==
  /\ MaxLimit \in Nat
  /\ NoValue \notin Providers \cup Sessions \cup L!Status
  /\ Careful \in BOOLEAN

(* No process holds the lock file; or a process that died does.            *)
Free == "free"
Stale == "stale"
ASSUME ProcsAssumption == Procs \cap {Free, Stale} = {}

(* The ledger calls: the claim, the outcome, "unknown" in the except clause *)
(* while the claim is unsettled (settle) or after the outcome was recorded  *)
(* (amend), and the operator's record.                                      *)
Calls == {"claim", "final", "settle", "amend", "record"}
PC == {"idle", "run"} \cup Calls
Tx == {"out", "locked", "read", "saved", "failed"}

NoSnap == [t \in Tasks |-> L!Absent]

(* provider, session and index are the claim's (index is its follow-up     *)
(* index); status and thread are what the process is about to record.      *)
Job == [task     : Tasks \cup {NoValue},
        provider : Providers \cup {NoValue},
        session  : Sessions \cup {NoValue},
        index    : -1 .. MaxLimit,
        status   : L!Status \cup {NoValue},
        thread   : Sessions \cup {NoValue}]

NewJob(t) == [task |-> t, provider |-> NoValue, session |-> NoValue,
              index |-> -1, status |-> NoValue, thread |-> NoValue]

NoJob == NewJob(NoValue)

Claimed(j, p, s, i) == [task |-> j.task, provider |-> p, session |-> s,
                        index |-> i, status |-> NoValue, thread |-> NoValue]

Ended(j, st, th) == [task |-> j.task, provider |-> j.provider,
                     session |-> j.session, index |-> j.index,
                     status |-> st, thread |-> th]

(* The process has claimed its task and has not yet recorded the outcome.  *)
Holds(d) ==
  \/ pc[d] = "claim" /\ tx[d] = "saved"
  \/ pc[d] = "run"
  \/ pc[d] \in {"final", "settle"} /\ tx[d] # "saved"

WorksOn(d, t) == pc[d] # "idle" /\ job[d].task = t

-----------------------------------------------------------------------------
(* One ledger call.                                                        *)

(* A fault: the lock file is opened without O_EXCL. *)
LockIgnored == TRUE

(* os.open(O_CREAT | O_EXCL) succeeds only when there is no lock file. *)
LockAvailable == lock = Free

Acquire(d) ==
  /\ pc[d] \in Calls /\ tx[d] = "out"
  /\ LockAvailable
  /\ lock' = d
  /\ tx' = [tx EXCEPT ![d] = "locked"]
  /\ UNCHANGED <<tasks, pc, snap, job, history>>

Read(d) ==
  /\ tx[d] = "locked"
  /\ snap' = [snap EXCEPT ![d] = tasks]
  /\ tx' = [tx EXCEPT ![d] = "read"]
  /\ UNCHANGED <<tasks, lock, pc, job, history>>

(* The temporary file replaces the ledger: the whole file becomes what the *)
(* process read, with its own task changed to entry e.                     *)
Replace(d, e) ==
  /\ tasks' = [snap[d] EXCEPT ![job[d].task] = e]
  /\ tx' = [tx EXCEPT ![d] = "saved"]
  /\ snap' = [snap EXCEPT ![d] = NoSnap]
  /\ UNCHANGED <<lock, pc>>

SaveClaim(d) ==
  /\ pc[d] = "claim" /\ tx[d] = "read"
  /\ LET e == snap[d][job[d].task] IN
     \E p \in Providers, s \in Sessions \cup {NoValue}, i, m \in 0 .. MaxLimit :
       /\ L!MayBegin(e, p, s, i, m)
       /\ Replace(d, L!Begun(e, p, s, i, m))
       /\ job' = [job EXCEPT ![d] = Claimed(@, p, s, i)]
  /\ abandoned' = abandoned \ {job[d].task}
  /\ UNCHANGED <<started, proven>>

(* record_task as dispatch calls it: with the outcome, or in the except    *)
(* clause with "unknown" and the session the command was given.            *)
SaveOutcome(d) ==
  /\ pc[d] \in {"final", "settle", "amend"} /\ tx[d] = "read"
  /\ LET j == job[d]
         e == snap[d][j.task]
     IN  Replace(d, IF pc[d] = "final"
                    THEN L!Recorded(e, j.status, j.provider, j.thread)
                    ELSE L!Recorded(e, "unknown", j.provider, j.session))
  /\ UNCHANGED <<job, history>>

(* A careful operator only changes the status; any other may also rewrite  *)
(* the provider and the session.                                           *)
SaveRecord(d) ==
  /\ pc[d] = "record" /\ tx[d] = "read"
  /\ \E st \in Statuses, p \in Providers \cup {NoValue},
        s \in Sessions \cup {NoValue} :
       /\ Careful => p = NoValue /\ s = NoValue
       /\ Replace(d, L!Recorded(snap[d][job[d].task], st, p, s))
  /\ UNCHANGED <<job, history>>

(* begin_task refuses the invocation, or the write raises OSError and the  *)
(* temporary file is removed: the ledger stays as it was.                  *)
Refuse(d) ==
  /\ tx[d] = "read"
  /\ tx' = [tx EXCEPT ![d] = "failed"]
  /\ snap' = [snap EXCEPT ![d] = NoSnap]
  /\ UNCHANGED <<tasks, lock, pc, job, history>>

-----------------------------------------------------------------------------
(* Where a command goes when its ledger call returned or raised.           *)

Exit(d) ==
  /\ pc' = [pc EXCEPT ![d] = "idle"]
  /\ job' = [job EXCEPT ![d] = NoJob]

Goto(d, where) == pc' = [pc EXCEPT ![d] = where] /\ UNCHANGED job

(* A claim that is ended without an outcome leaves its task "running".     *)
Abandon(d) ==
  abandoned' = IF Holds(d) THEN abandoned \cup {job[d].task} ELSE abandoned

(* The provider starts once the claim is on disk.  When the outcome cannot *)
(* be recorded, or is recorded and then cannot be printed (OSError on a    *)
(* closed pipe), the except clause tries to record "unknown"; when that    *)
(* fails too, the error ends the command.                                  *)
Continue(d, ok) ==
  \/ /\ pc[d] = "claim" /\ ok
     /\ Goto(d, "run")
     /\ started' = [started EXCEPT ![job[d].task] = @ \cup {job[d].index}]
     /\ UNCHANGED <<proven, abandoned>>
  \/ /\ pc[d] = "final"
     /\ Goto(d, IF ok THEN "amend" ELSE "settle")
     /\ UNCHANGED history
  \/ /\ \/ pc[d] = "claim" /\ ~ok
        \/ pc[d] = "final" /\ ok
        \/ pc[d] \in {"settle", "amend", "record"}
     /\ Exit(d)
     /\ Abandon(d)
     /\ UNCHANGED <<started, proven>>

(* A fault: wait for the lock instead of giving up. *)
BusyWaits(d) == pc[d] \in Calls /\ tx[d] = "out" /\ ~LockAvailable /\ UNCHANGED vars

(* LedgerBusyError: some process holds the lock file, or one died with it. *)
Busy(d) ==
  /\ pc[d] \in Calls /\ tx[d] = "out"
  /\ ~LockAvailable
  /\ Continue(d, FALSE)
  /\ UNCHANGED <<tasks, lock, tx, snap>>

(* The finally clause unlinks the lock file. *)
Release(d) ==
  /\ tx[d] \in {"saved", "failed"}
  /\ lock' = Free
  /\ tx' = [tx EXCEPT ![d] = "out"]
  /\ Continue(d, tx[d] = "saved")
  /\ UNCHANGED <<tasks, snap>>

-----------------------------------------------------------------------------
(* The provider process.                                                   *)

(* Faults: any session ID is accepted; a return code of 0 completes a task *)
(* whatever its evidence; a status is written that begin_task never stops. *)
DriftIgnored(d, sid) == FALSE
EvidenceIgnored(rc0, evidence) == IF rc0 THEN "complete" ELSE "blocked"
StatusInvented(rc0, evidence) == IF rc0 THEN "succeeded" ELSE "blocked"

(* A session ID other than the one that was resumed, and evidence that was *)
(* asked for and cannot be verified, are errors after the run.             *)
SessionDrift(d, sid) ==
  job[d].session # NoValue /\ sid # NoValue /\ sid # job[d].session

(* accepted and the status that follows: evidence is "none" when the       *)
(* command did not ask for verification.                                   *)
OutcomeStatus(rc0, evidence) ==
  IF rc0 /\ evidence = "complete" THEN "complete"
  ELSE IF rc0 /\ evidence = "none" THEN "unverified"
  ELSE "blocked"

ProviderReturns(d) ==
  /\ pc[d] = "run"
  /\ \E rc0 \in BOOLEAN, sid \in Sessions \cup {NoValue},
        evidence \in {"none", "complete", "not_complete", "invalid"} :
       IF SessionDrift(d, sid) \/ evidence = "invalid"
       THEN Goto(d, "settle") /\ UNCHANGED proven
       ELSE /\ pc' = [pc EXCEPT ![d] = "final"]
            /\ job' = [job EXCEPT ![d] =
                 Ended(@, OutcomeStatus(rc0, evidence),
                       IF sid # NoValue THEN sid ELSE @.session)]
            /\ proven' = IF rc0 /\ evidence = "complete"
                         THEN proven \cup {job[d].task} ELSE proven
  /\ UNCHANGED <<tasks, lock, tx, snap, started, abandoned>>

(* A fault: the error of the provider ends the command at once. *)
ProviderFailsUncaught(d) ==
  /\ pc[d] = "run"
  /\ Exit(d)
  /\ UNCHANGED <<tasks, lock, tx, snap, history>>

(* run_invocation: the executable is missing or the timeout expired.       *)
ProviderFails(d) ==
  /\ pc[d] = "run"
  /\ Goto(d, "settle")
  /\ UNCHANGED <<tasks, lock, tx, snap, history>>

-----------------------------------------------------------------------------
(* Commands start and end.                                                 *)

Start(d, t, where) ==
  /\ pc[d] = "idle"
  /\ pc' = [pc EXCEPT ![d] = where]
  /\ job' = [job EXCEPT ![d] = NewJob(t)]
  /\ UNCHANGED <<tasks, lock, tx, snap, history>>

(* A careful operator records a task only while no command works on it,    *)
(* and starts no dispatch of it while recording.                           *)
StartDispatch(d, t) ==
  /\ Careful => \A c \in Procs : WorksOn(c, t) => pc[c] # "record"
  /\ Start(d, t, "claim")

StartRecord(d, t) ==
  /\ Careful => \A c \in Procs : ~WorksOn(c, t)
  /\ Start(d, t, "record")

(* The process is gone between any two steps.  SIGKILL leaves its lock     *)
(* file behind; a keyboard interrupt, or an exception that _dispatch does  *)
(* not catch, still runs the finally clause.                               *)
Gone(d, left) ==
  /\ pc[d] # "idle"
  /\ lock' = IF lock = d THEN left ELSE lock
  /\ tx' = [tx EXCEPT ![d] = "out"]
  /\ snap' = [snap EXCEPT ![d] = NoSnap]
  /\ Exit(d)
  /\ Abandon(d)
  /\ UNCHANGED <<tasks, started, proven>>

Crash(d) == Gone(d, Stale)
Interrupt(d) == Gone(d, Free)

(* "inspect the writer before recovery": the operator removes the lock     *)
(* file of a process that died.                                            *)
RemoveStaleLock ==
  /\ lock = Stale
  /\ lock' = Free
  /\ UNCHANGED <<tasks, pc, tx, snap, job, history>>

-----------------------------------------------------------------------------
Init ==
  /\ L!Init
  /\ lock = Free
  /\ pc = [d \in Procs |-> "idle"]
  /\ tx = [d \in Procs |-> "out"]
  /\ snap = [d \in Procs |-> NoSnap]
  /\ job = [d \in Procs |-> NoJob]
  /\ started = [t \in Tasks |-> {}]
  /\ proven = {}
  /\ abandoned = {}

(* What a running command does next of its own accord: all but the return  *)
(* of the provider, which may hang until the timeout.                      *)
Step(d) ==
  \/ Acquire(d) \/ Busy(d) \/ Read(d)
  \/ SaveClaim(d) \/ SaveOutcome(d) \/ SaveRecord(d) \/ Refuse(d)
  \/ Release(d)
  \/ ProviderFails(d)

Next ==
  \/ \E d \in Procs :
       Step(d) \/ ProviderReturns(d) \/ Crash(d) \/ Interrupt(d)
  \/ \E d \in Procs, t \in Tasks : StartDispatch(d, t) \/ StartRecord(d, t)
  \/ RemoveStaleLock

Spec == Init /\ [][Next]_vars

(* A command that runs is scheduled: its lock attempt never blocks and     *)
(* run_invocation has a timeout.  Nothing is assumed of providers, of      *)
(* operators or of the removal of stale locks.                             *)
FairSpec == Spec /\ \A d \in Procs : WF_vars(Step(d))

-----------------------------------------------------------------------------
TypeOK ==
  /\ L!TypeOK
  /\ lock \in Procs \cup {Free, Stale}
  /\ pc \in [Procs -> PC]
  /\ tx \in [Procs -> Tx]
  /\ snap \in [Procs -> [Tasks -> L!Entry]]
  /\ job \in [Procs -> Job]
  /\ started \in [Tasks -> SUBSET (0 .. MaxLimit)]
  /\ proven \subseteq Tasks
  /\ abandoned \subseteq Tasks

(* The ledger calls of all processes, however they interleave, crash or    *)
(* fail, are the indivisible transactions of module Ledger: no process     *)
(* writes back a file another has changed since it read it (ledger.py,     *)
(* _locked and save).                                                      *)
LedgerSpec == L!Spec

(* begin_task claims before the provider starts: no follow-up index of a   *)
(* task ever starts a second provider run, and a started index is within   *)
(* the recorded limit, so a task is run at most limit + 1 times whatever   *)
(* the operator records in between.                                        *)
EachIndexStartsOnce ==
  [][\A d \in Procs :
       pc[d] = "claim" /\ pc'[d] = "run" =>
         /\ job[d].index \notin started[job[d].task]
         /\ job[d].index <= tasks[job[d].task].limit]_vars

(* begin_task "protects against duplicate local writers": two processes    *)
(* never hold a claim on the same task (with a careful operator).          *)
SingleWriter ==
  \A c, d \in Procs :
    c # d /\ Holds(c) /\ Holds(d) => job[c].task # job[d].task

(* A task that is "running" is held by a process, or the process that held *)
(* it ended without an outcome: then the task stays closed until an        *)
(* operator records another status (with a careful operator).              *)
RunningIsHeld ==
  \A t \in Tasks :
    tasks[t].status = "running" =>
      \/ \E d \in Procs : Holds(d) /\ job[d].task = t
      \/ t \in abandoned

(* "complete" is recorded only when some run of the task returned 0 and    *)
(* its evidence was verified (cli.py, _dispatch: accepted and verified).   *)
CompleteIsProven ==
  \A t \in Tasks : tasks[t].status = "complete" => t \in proven

Saves(d, t) == job[d].task = t /\ tx[d] = "read" /\ tx'[d] = "saved"

(* Only an operator reopens a task that stopped: no dispatch restarts it,  *)
(* and no late dispatch overwrites its outcome, but for the one that       *)
(* recorded it, which may withdraw it ("unknown") while it is still the    *)
(* outcome it recorded.                                                    *)
OutcomeIsFinal ==
  [][\A t \in Tasks :
       tasks[t].status \in L!Stopped /\ tasks'[t].status # tasks[t].status =>
         \E d \in Procs :
           /\ Saves(d, t)
           /\ \/ pc[d] = "record" /\ tasks'[t].status \in Statuses
              \/ /\ pc[d] = "amend" /\ tasks'[t].status = "unknown"
                 /\ job[d].status = tasks[t].status]_tasks

(* A task stays with the provider and the session it was first recorded    *)
(* with (test_failure_controls.py, test_identity_drift_stops_resume).      *)
IdentityStable ==
  [][\A t \in Tasks :
       /\ tasks[t].provider # NoValue => tasks'[t].provider = tasks[t].provider
       /\ tasks[t].thread # NoValue => tasks'[t].thread = tasks[t].thread]_tasks

(* Every command ends, whatever lock it meets and whatever the provider    *)
(* does: the lock is never waited for (_locked raises at once).            *)
EveryCommandEnds == \A d \in Procs : pc[d] # "idle" ~> pc[d] = "idle"

(* A claimed task gets an outcome, unless its process goes away or loses   *)
(* both attempts to record one.                                            *)
ClaimSettles ==
  \A t \in Tasks :
    tasks[t].status = "running" ~> tasks[t].status # "running" \/ t \in abandoned

=============================================================================
