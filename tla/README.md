# Durable Threads in TLA+

TLA+ modules, TLC configurations and TLAPS proofs for Durable Threads, a tool
that hands tasks of a coding project to provider CLIs (Claude, Codex, Cursor,
Grok), keeps a ledger of what became of them, and can run a task as a durable
Temporal workflow with assessment, verification and human review. The Python
package is `src/durable_threads/`, the TypeScript platform is `apps/` and
`packages/`. Every definition here is translated from that code; `PROJECT.json`
names the lines of each.

## 1. The system

### Components, their state and what makes them correct

| Component | State | Operations | Correct when |
|---|---|---|---|
| Task ledger `ledger.py` | one JSON file, a lock file beside it | `begin_task`, `record_task`, `load` | calls of all processes are indivisible; a task's retry budget is only spent |
| Dispatch and record commands `cli.py`, `providers.py` | per process: claim, provider run, outcome | `dispatch` (also into a session that exists), `record` | one writer per task; no claim is lost silently; no outcome is overwritten; "complete" means verified; every command ends |
| Durable task workflow `temporal_workflows.py` | phase, round, excluded and preferred providers, children, best attempt, pending decision | assess, gate, route, execute, verify, judge, review, retry | completes only through the completion gate; nothing runs before the human gate; shared-checkout writers serialized; no blind retry; always ends or waits |
| Activities `temporal_activities.py` | none of their own; what they started | `assess_task`, `route_executors`, `run_execution`, `verify_execution`, `assess_result` | an execution is attempted once; several executors only when nothing is mutated |
| CLI backend `execution.py`, worker `temporal_worker.py` | per execution: the coroutine, its child process, signals sent, heartbeats | `execute`, heartbeat, timeout, cancel, shutdown | what is reported has ended; what nobody waits for ends soon; the provider's own timeout comes before the server's |
| Executor registry and adapters `execution.py`, `providers.py` | plugins by id | `register`, `rank`, `select`, `backend`, `resolve_model` | what is selected satisfies the requirement, and is what runs (it is not: section 6) |
| Completion gate, assessment `intelligence.py` | none (pure) | `assess_task`, `assess_result`, `completion_gate` | an engine raises a risk and never lowers it; an approval never replaces verification or waives a task-level review |
| Risk and decision engines `risk.py`, `decisions.py` | none (pure) | classify, thresholds, answers of Jev or of the heuristic | as part of the assessments |
| Evidence `evidence.py` | none; reads a checkout that executors edit | `parse_worker_result`, `validate_evidence`, `git_changed_paths` | verified evidence is true of the checkout and within the allowed paths |
| API, local mode `apps/api/src/local-runtime.ts`, `app.ts`, stores | stored row, in-memory review waiters, the running promise | POST task, POST review, `runLocalTask` | the row shows what the runtime does; outcomes are kept; the same gate as the workflow (it is not: section 6) |
| API, Temporal mode `temporal-runtime.ts` | workflow handle, stored row | start, signal, status | a pending review is visible; planned |
| Worker `apps/worker/src` | a port of the Python workflow | as the Python workflow | same contract; planned |
| Live step control `live-step-control.ts` | receipts, busy, quarantined, closed | `updateEffort` | an effort update is sent once; a late one never undoes a newer one; nothing follows an uncertain one |
| Usage ledger, quota gate, compute advice `efficiency.ts`, `pro5.mjs`, `pro5.py` | usage rows | add usage, gate, recommend | planned |
| Evidence, risk and decisions in TypeScript `packages/policy`, `git.ts` | none | as in Python | planned with the worker |
| Roster routing, packets, configuration `routing.py`, `packets.py`, `config.py`, `native.py` | none (pure) | score, threshold, rank, validate | planned, as operators |
| Hosted executors, scripted executor | none that outlives a call | run one execution | appear as the outcomes an execution can have |
| Contracts, schemas, release and benchmark scripts | none | validation, packaging | not modelled: formats and build steps |

### How they interact

- `dispatch` and `record` are separate operating system processes. They share
  the ledger file and its lock file and nothing else. A dispatch claims its task
  (`begin_task`) before the provider starts, and records the outcome after it.
- The workflow runs in a Temporal worker. It calls activities and child
  workflows and receives review signals at any time. An activity can be lost
  with its worker while the executor process it started runs on.
- An execution has four parties: the activity, the backend's coroutine that it
  shields, the child process of that coroutine, and the server, which learns of
  them by heartbeats alone. They time out independently. All attempts of a task
  work in one checkout, which nothing cleans in between; the evidence of the
  latest is compared with what git reports of it.
- The API runs a task in its own process (local mode) or hands it to Temporal.
  The client sees the stored row. What accepts a review is an in-memory waiter
  in local mode and a signal in Temporal mode.
- A live turn's effort is changed by a remote call that can fail before, after
  or long before it takes effect.

### What is hard

Interleaved read-modify-write of one file; a process killed between claim and
outcome, or inside a call with the lock file on disk; an error raised after the
outcome was recorded; an operator who rewrites entries at any moment; review
signals that arrive before they are asked for, late, or twice; a worker that is
lost while its executor keeps writing; deadlines of the provider, the activity,
the heartbeat and the grace that race one another; a cancellation inside the
handler of a timeout; edits of an earlier attempt, or of a process that is not
gone, in the checkout that is verified; rounds that could repeat without end; a
store that reports an error after it has written; replies lost while the request
is still on its way. `PROJECT.json` lists each of these as a hazard at the line
where it bites, with the properties that would catch it.

## 2. The modules

```
Ledger  <---- implements ---- Dispatch          TaskContract <---- implements ---- DurableTask
LedgerProofs                  DispatchProofs     TaskContractProofs                 |  DurableTaskProofs
                                                                                    |
                                                          Decisions, ExecutorRegistry <- extends
                                                                     ExecutorRegistryProofs

                Execution <---- implements ---- DurableTask
                          <---- implements ---- ExecutionAttempt - extends -> ExecutorProcess, Evidence
                                                ExecutionAttemptProofs

LocalRuntime                  LiveStepControl
LocalRuntimeProofs            LiveStepControlProofs
```

DispatchProofs instantiates LedgerProofs, and DurableTaskProofs instantiates
TaskContractProofs: what is proved of the abstract module is cited there for the
detailed one.

`MCx.tla` and `MCx*.cfg` instantiate module `x` for TLC. A definition whose
comment says "a fault" is a bug the code does not have (a dropped check, a wrong
counter). `PROJECT.json` pairs each with the property it would break, so that
every property is known to be able to fail.

### Ledger: what the ledger calls promise

`tasks` is the `tasks` object of the file; an entry keeps the fields `begin_task`
reads back. `Begin` is `begin_task`: one conjunct per check that raises, and
`Begun`, the entry it writes. `Record` is `record_task`, which checks nothing
and merges. A missing `followups` or `maxFollowups` is -1. Role, text, usage and
timestamps decide nothing and are left out. Both calls are single steps here.

### Dispatch: processes, the lock file and the ledger file

Each process of `Procs` makes one command after another. `pc` is where it is in
`_dispatch` or `record`, `tx` how far it is in the ledger call it makes, `snap`
what it read from the file in that call, `job` the locals of the command.

| Code | Action |
|---|---|
| `_locked`: `os.open(O_CREAT\|O_EXCL)` | `Acquire`; `Busy` when the file exists |
| `load` inside the lock | `Read` |
| `begin_task`, `record_task`, `save` (temporary file and `os.replace`) | `SaveClaim`, `SaveOutcome`, `SaveRecord`; `Refuse` for a refused claim or a failed write |
| `finally: unlink` and what the caller does next | `Release`, `Continue` |
| `run_invocation` and the checks after it | `ProviderReturns`, `ProviderFails` |
| `except` clause that records `unknown` | `pc` values `settle`, `amend` |
| SIGKILL; keyboard interrupt or uncaught exception | `Crash`; `Interrupt` |
| operator deletes a dead process's lock file | `RemoveStaleLock` |

A stale lock says only that a process died with it: `lock` is then `Stale`.
`Careful` names the documented duty of the operator, "inspect the writer before
recovery": a status is recorded by hand only while no command works on the task,
and the provider and session are left as they are. What needs that assumption
and what does not is kept apart in the runs and in the theorems.

`LedgerSpec` states that this protocol implements module Ledger. The mapping is
the identity on `tasks`: every `Save...` step is one of Ledger's transactions
and every other step stutters.

### TaskContract: what a durable task promises

Four facts about a task: what its assessment needs, which approvals were
consumed, the result chosen last and the final status. `completion_gate` is the
operator of `intelligence.py`. `Promise` follows from `Spec` (proved).

### DurableTask: the workflow, its children and its reviewers

Workflow code runs from one await to the next in a single step, as a Temporal
activation does. So `Decide` holds the whole path from the last child's result
to the next await: choose the best attempt, apply the gate, return, ask, or
begin another round. A child is a record with the stage it is at. The activities
are the actions `Assess`, `Route`, `ExecutionRefused`, `ExecutionStarts`,
`ExecutionEnds`, `ExecutionLost`, `Verify`, `AssessResult`. Signals are sent at
any time (`SendReview`) and delivered in any order (`ReviewSignal`), and
`WaitForReview` throws away what came before, as `_wait_for_review` does. `alive`
holds the executor processes that really run: `ExecutionLost` ends the activity
and leaves the process in `alive` until `OrphanEnds`.

What the activities answer is computed by two modules without state:

- **Decisions** is `risk.py`, `decisions.py` and `intelligence.py`. A text is
  what the classifier finds in it. An engine answers anything that has the right
  type (Jev) or the heuristic's own values; `assess_task` and `assess_result`
  turn an answer into policy. A percentage is one of those that the thresholds
  tell apart.
- **ExecutorRegistry** is the registry, its built-in executors and the model
  selectors of the adapters. `select` is stated by what it returns, the `count`
  best of the candidates in the order (score, id), and not by a sort.
  `Executable` is what the activity can do with the *provider* it is given.

`Contract` maps it to TaskContract: `need` without the fields that only routing
reads, `judged` from the best attempt, `outcome` from a closed phase.

### ExecutorProcess: one execution, second by second

`backend` is the await at which `CliExecutionBackend.execute` is, `activity` that
of `run_execution_activity`, `proc` the child process, `server` what Temporal
thinks of it and `worker` the process around all but the last two.

| Code | Action |
|---|---|
| `create_subprocess_exec`; a check that raises before it | `Launch`; `Refuse` |
| `communicate` returns | `Communicated` |
| `except TimeoutError`: terminate, wait five seconds, kill, wait | `TimesOut`, `Kills`, `Reaped` |
| `except CancelledError`, wherever it finds the coroutine | `CancelBackend` |
| the heartbeat loop around the shielded task | `Heartbeat`, `Report`, `Cancelled` |
| `start_to_close_timeout`, `heartbeat_timeout`, one attempt | `ServerGivesUp` |
| interrupt of the worker: activities cancelled, then the loop | `WorkerInterrupted`, `LoopCloses` |
| SIGKILL of the worker | `WorkerDies` |

Time is a clock in ticks of 15 seconds, `clocks`, that advances (`Tick`) only
when nothing of a live worker is due: an event loop that runs is fast compared
with a tick. `since` counts how long a process has run that the server gave up.

### Evidence and ExecutionAttempt: the checkout

A checkout is three functions from paths to "as in the baseline" or "changed":
`head`, `index`, `tree`. `git_changed_paths` is the union of the three git
commands it runs, each over those functions, so that a staged, a committed, an
ignored and an untracked file differ as they do for git. `Verdicts` is every
answer the verification can give for what git reports, over all outputs a worker
can print. ExecutionAttempt runs executions one after another in the same
checkout, which the process edits as long as it lives: `Write`, `Stage`,
`Commit` interleave with the steps of ExecutorProcess and with `Verify`.

### Execution: where the two models of an execution meet

DurableTask sees an execution as the child of a workflow and knows nothing of
its deadlines and signals; ExecutionAttempt sees one of them second by second and
knows nothing of rounds. `Execution` is what they must agree on: for each
executor a stage, whether its process was launched, whether it runs, and whether
its evidence was found complete. Its moves are those of `AgentExecutionWorkflow`:
an execution begins, launches once, ends with a report or fails with an error
(then a process may be left behind), is verified, and is forgotten when the round
is over. Both modules implement it (`KeepsExecution`), with `Seen` as the
mapping. Each uses moves that the other has not. DurableTask has no cancellation
of a workflow (`Canceled`, `LaunchesLate`), forgets the executions of a round at
its end (`Forgotten`), and takes the end of a process and its report as one step,
which `Ends` allows. ExecutionAttempt takes those two apart (`Exits`, then
`Ends`). `Promise` is what follows: what is verified or complete has run and is
gone.

### LocalRuntime: a task of the API in one process

`at` is the await at which `runLocalTask` is, `want` the row its last
`store.update` asked for and `row` the row in Postgres: `Commit` makes them
equal. `Throw` is an error of any awaited call (the store's included, which may
raise after writing), followed by the `catch` clause's patch of status and
phase. `Exit` is the end of the process, after which nothing resumes the task.
`Post` and `Handle` are the review route, `waiter` is the task's entry in the
`waiters` map. The store modelled is Postgres. The memory store differs in one
way: the row is lost with the process.

### LiveStepControl: effort updates of a running turn

`UpdateEffort` is `updateEffort` up to its `await`, `Settle` the rest of it.
`flights` are calls that have not returned, `wire` the requests the runtime has
yet to receive; the two are independent, so a call may fail while its request is
still on its way. `Arrive` is the runtime (outside this repository): it publishes
an update or drops it. A repeated decision returns its receipt, or throws, and
changes nothing: a stuttering step.

## 3. The runs

| Run | Question | States |
|---|---|---|
| `ledger` | Do the two calls, one caller at a time, keep the retry budget and only ever spend it, with an operator who may also write `running`? | 20,533 |
| `dispatch_careful` | Three commands on one task with crashes, interrupts and failing writes: `SingleWriter`, `RunningIsHeld`, `CompleteIsProven`, `OutcomeIsFinal`, `IdentityStable` | 17,873 |
| `dispatch_override` | Two commands on two tasks in one file and an operator who records anything at any moment: are calls still indivisible (`LedgerSpec`), does no follow-up run twice (`EachIndexStartsOnce`)? | 507,700 |
| `dispatch_fair` | Does every command end although dead processes leave lock files (`EveryCommandEnds`), and is every claim settled or accounted for (`ClaimSettles`)? | 51,900 |
| `durable_writer` | A mutating task that waits for reviewers: `KeepsContract`, `WritersSerialized`, `HighRiskApproved`, `NoReExecution`, `DecisionIsCurrent`, `EndsOrWaits`, `DecisionMovesOn` | 179,672 |
| `durable_parallel` | Two executors at a time, no waiting for result reviews, one executor that refuses its selector: `GateBeforeExecution`, `KeepsContract`, `KeepsExecution` | 138,648 |
| `attempt` | Two executions in one checkout, with a heartbeat lost, cancellation, shutdown and death of the worker: which process still runs when (`ReportedIsGone`, `UnwantedEndsSoon`, `HangingEnds`), whose deadline comes first (`OwnTimeoutFirst`), whether verified evidence is true of the checkout (`VerifiedTree`), and whether the attempt is an execution as the workflow's model takes it to be (`KeepsExecution`) | 575,284 |
| `local_runtime` | What the row shows (`WaitingIsShown`, `OutcomeOnlyFails`), what the gate still guarantees (`GateBeforeExecution`, `CompletesOnResultOrApproval`), and that the task ends or waits (`EndsOrWaits`) | 132,290 |
| `live_step` | `ReceiptsMatchUse`, `WithinBudget`, `NothingAfterUncertainty`, `LatestWins` | 1,217 |
| `local_unverified`, `local_unreviewed` | Two documented guarantees that the local runtime does not give; TLC finds the counterexamples of section 6 | |
| `durable_plugin` | Does what is selected run (`SelectedExecutorRuns`)? Not if its id is not its provider: section 6 | |

All passing runs explore their whole state space (under symmetry and a view the
number of states found varies by a few).

### Bounds, and why they suffice

- `MaxLimit` 2 (ledger, `dispatch_careful`): first run, a follow-up, the last
  follow-up, and a refused one. `dispatch_override` needs two indices (1), and
  liveness does not depend on the limit (0).
- `Procs` 3 on one task: a holder, a contender and an operator. Two suffice for
  a lost update, which needs one reader and one writer. The proofs cover any number.
- `Tasks` 2 in one file: a lost update shows as a change of the other task.
- `MaxAttempts` 3 in `durable_writer`: a first, a middle and a last round;
  2 elsewhere. `Width` 2 with 2 or 3 providers: a chosen and a rejected attempt,
  and one left for the next round.
- `MaxSignals` 2 and 1: the answer asked for and one that comes early, late or
  contradicts it. `MaxPosts` 3: two questions and a surplus request.
- `Tasks` of DurableTask: a task at R2 and one at R3, so that an engine raises
  the first to the gate, must not lower the second, and `GateAt` 3 and 4 lie on
  either side. `Percents` has a value below, at and above each threshold that
  is crossed.
- `Timeout` 3 ticks (45 seconds) is longer than one interval between heartbeats
  and not a multiple of it; a grace counts as a whole tick, which only makes a
  process live longer. `MaxLost` 1: the server may stop hearing a worker that
  lives. The proofs cover any timeout and any number.
- `MaxEdits` 2 and three files (tracked and allowed, new and not allowed, new and
  ignored): an edit that is staged or committed, or one in each of two attempts.
  The checkout may be dirty before the first.
- `MaxReceipts` 3 where the code has 64, with four decisions: the budget is
  reached and exceeded by one.
- Counters that only bound a run (`signals`, `posted`) guard the environment's
  actions and never the program's.

Symmetry is used where TLC checks only safety, over model values that no
definition tells apart. `dispatch_override` also uses a VIEW without `proven`
and `abandoned`: no guard reads them and neither of its properties does.

`CHECK_DEADLOCK FALSE` stands where the system may stop: a closed task with no
signal left, a gone process, a step control that is closed or out of budget.

## 4. Fairness

- `Dispatch`: weak fairness of each process's own steps. A command never waits
  for the lock (`_locked` raises `LedgerBusyError` at once) and `run_invocation`
  gives up after its timeout, so `ProviderFails` is among those steps. Nothing
  is assumed of `ProviderReturns`, of operators or of `RemoveStaleLock`.
- `DurableTask`: weak fairness of `Progress` (workflow tasks and activities),
  because every activity has a start-to-close timeout and a bounded retry
  policy, and of `ReviewSignal`, because Temporal delivers a signal it accepted.
  No reviewer is assumed to answer: `EndsOrWaits` counts waiting as an end.
- `ExecutionAttempt`: weak fairness of the worker's own steps while it lives,
  of time, of the server's deadlines, and of SIGKILL. A process is never assumed
  to end by itself or to heed SIGTERM: that is what `HangingEnds` is about.
- `LocalRuntime`: weak fairness of `Progress`: awaited calls return. Nothing is
  assumed of reviewers. `EndsOrWaits` excepts a process that has ended, since the
  code resumes nothing after a restart.
- `LiveStepControl` assumes none: `rpc` has no timeout, so it promises no progress.

## 5. What is proved

For all values of the constants, from the named assumptions `LedgerAssumption`,
`DispatchAssumption`, `ProcsAssumption`, `LiveStepAssumption`,
`DurableTaskAssumption`, `NoneAssumption`, `ExecutorAssumption`,
`EvidenceAssumption`, `AttemptAssumption` and `LocalRuntimeAssumption` (limits are numbers, decisions are
finitely many, `NoValue` and `None` are none of the other values, no process is
called "free" or "stale", a task passed its own checks, ids of executors are
unique, a path has at least one component).

**LedgerProofs.** `TypeCorrect`, `BudgetKept`, `BudgetNeverReturned`. The budget
alone is not inductive: `SameLimit` compares the limit only if the entry is in
the file, so the invariant adds `LimitIsRecorded`, that a recorded limit belongs
to such an entry.

**DispatchProofs.** The invariant `Inv` has three layers. `LockHeld` and
`SnapCurrent`: the process inside a call owns the lock file, and what it has read
is what the file holds. These are what make the refinement hold, and what breaks
when the lock is not exclusive. `TaskGiven` and `OutcomeGiven`: what a command's
locals hold at each point. `StartsClaimed` and `ClaimFresh`: no index beyond the
file's counter has started a provider, and the index just claimed has not. From
it follow, without any assumption on the operator:
`TypeCorrect`, `CallsExclude` (at most one process is inside a call),
`Implements` (`Spec => LedgerSpec`) and `StartsOnce`.

With `Careful`, `CarefulInv` adds that an operator records alone, that a held
task is `running`, and that one whose outcome was just recorded is stopped (so
that withdrawing it to `unknown` cannot touch another's claim). From it:
`NoDuplicateWriter`, and `NoLostClaim` if the operator never records `running`
by hand. Without `Careful` these are false: an operator who records `failed`
over a running task opens it to a second dispatch. `OutcomeStays` names the only
dispatch that may replace an outcome by `unknown`: the one that recorded it, and
only while it stands. That needs `OwnInv` besides. Until such a dispatch has
withdrawn its outcome, the entry shows what it recorded (`OutcomeIsOwn`), and no
other dispatch of the task is in that position (`OneWithdraws`). `IdentityStays` needs `IdentityInv` besides: the entry names
the provider and the session of every process that holds the task or has just
recorded it (`Named`), and has no session while a holder that was given none has
not reported one (`SessionOpen`). An outcome may name a session only then, and
`SingleWriter` says that no other process relies on the entry at that moment.

`CompleteNeedsProof` needs no careful operator, only one who never writes
`complete`. `CompleteIsProven` alone is not inductive: an outcome is computed
when the provider returns and written several steps, and possibly other
processes' calls, later. `OutcomeProven` carries the evidence across them.

Two theorems say what the protocol gives its callers. `BudgetOfAll` instantiates
LedgerProofs (`Budget`): since the processes implement the ledger, its budget is
theirs, for all of them together and whatever the operator records. `WaitFree`
counts the steps a command has left (`StepsLeft`, at most 13): each of its own
steps lowers the count and nobody else's raises it, because `_locked` raises an
error instead of waiting and no handler goes back to an earlier call.

**TaskContractProofs.** `KeepsPromise`: in every behaviour of the contract a
completed task has a ready result, an open gate if one was demanded, and an
approved result if the task or the result called for a review. The step to a
completed task carries it, and no step leaves one.

**LiveStepControlProofs.** `TypeCorrect`, `ReceiptsTrue`, `BudgetHolds`,
`UncertaintyStops`, `NoStaleUpdate`. The properties need an invariant that says
where the requests are: the one call in flight is of the request sent last
(`OneFlight`), a decision was sent exactly if it has a receipt or is in flight
(`SentOrNever`), and the runtime has at most the last request still to receive
(`OnlyLastOnWire`). The heart is `WireIsEmpty`: when control is free to send,
every receipt is "applied", so every earlier request has arrived.

**LocalRuntimeProofs.** `TypeCorrect`, `GateFirst`, `Shown`, `CompletesRightly`,
`OutcomeStays`. `GateOpened` carries the approval of the gate from the question
to every later await and says that nothing is launched before it. `Asked` ties
the waiter, and an answer that is not read yet, to a question the row shows:
that is what keeps an approval from being spent on a question nobody asked.
`Unfinished` says that a runtime that goes on has no outcome in memory or in the
store, so that a stored one is the last it told, or an error followed.

`BoundedProgress` counts what `runLocalTask` still has to do: rounds, stages of
this round, and an update on its way. Each step lowers the count, the catch
clause too, and no request raises it, so it ends after at most
`6 * MaxAttempts + 19` steps.

The last three are about the two findings below and say how far they reach.
`Judged` keeps, from a judgement to the end of the task, why a person was asked.
`UnverifiedOnlyApproved`: a task completes on a result that is not ready only if
it waits for reviews and that result was approved, which the engine sent to a
person or, at R3 and above, advised to accept. Hence `EvidenceUnlessWaiting`:
with `~Waits` the property of `local_unverified` holds.
`UnreviewedOnlyBelowHigh`: without a review it completes only on a ready result
that asks for none, below R3. With `GateFirst` these are the only ways in which
the local runtime falls short of `TaskContract!Promise`.

**ExecutorRegistryProofs.** `select` says by a count of better candidates what
the code gets by sorting them and taking a prefix. `SelectIsPrefix` shows that
the two agree: whatever sequence sorts the candidates as `rank` does, its first
`count` elements are what `select` says. `SelectAtMost`, `SelectSome` and
`SelectBest`: at most as many as asked for, something if there is a candidate,
and a candidate is left out only in favour of as many better ones as were asked
for. `PreferredFirst`: the 100 points of a preference outweigh the 9 that all
other merits give together, so nothing less preferred is ever taken instead.
That each selected executor satisfies the requirement is part of `select`'s
definition and not listed. The proofs rest on
`Precedes` being a strict total order of places (`PrecedesOrder`) and on a set of
numbers having a least one (`LeastNumber`, from the library's `WFMin`), which
gives a set of candidates its first (`FirstOfSome`).

**DurableTaskProofs.** `TypeCorrect`, `HighRiskNeedsApproval`, `GateFirst`,
`OneWriterOnly`, `CurrentDecision`, `NoSecondStart`, and `Implements`:
`Spec => Contract!Spec`. Answers of an engine are arbitrary. The lemma
`AssessTask` says what no answer can change: the words are a floor of the risk,
R3 and above are reviewed, and the gate is asked for from `GateAt` on. The
invariant joins four parts. `Protocol` says what each phase has behind it
(nothing judged while it routes, nothing launched while it waits for the gate, a
ready result exactly while it waits for its review). `Gated` carries the
assessment and its gate to every later phase. `ThisFar` says that executions are
of this round or earlier ones and that what is about to start is neither started
nor excluded. `OneWriter` is why a lost executor never meets another: with a
checkout to write there is one child, and while a process is alive its child is
executing or has asked for a person, so no round can begin. `WritersSerialized`
alone says nothing of the child and is not inductive.

`Promised` needs none of this again: it instantiates TaskContractProofs with the
refinement mapping (`Promises`), so `CompletedRightly` follows from `Implements`
and `KeepsPromise`. `RiskOnlyUpward` states `AssessTask` of every state that has
an assessment.

`BoundedProgress` and `ExecutionBudget` are about the loops. `StepsLeft` is the
number of places the task has not passed (`PhasesLeft`: pairs of a round and a
phase) plus the number of stages its children have not come to (`StagesLeft`).
Both are finite sets that only shrink, and every step of `Progress` takes
something out of one of them, so the number falls; a signal, a lost worker or the
end of a process that was left behind leaves both as they are. `Spread` counts
what was launched: a round launches only active providers, at most `RouteCount`
of them, and `FewOfEach` adds up the rounds.

`SelectionMeetsRequirements`, `SelectedRuns` and `DefaultsRun` are about the
finding `durable_plugin`. What is started was selected for what the task requires
(`ForSelected`). It is also what runs, provided that every headless executor has
its provider as its id and a backend of its own (`FoundByProvider`). The built-in
executors are so; the plugin of the finding is not. The condition suffices; the
code does not check it.

`ImplementsExecution` is the second refinement: `Spec => KeepsExecution`. One
lemma per kind of step says what it does to one execution: a child moves its own
(`OwnMove`) and no other (`SeenSame`), `Route` begins those it starts, because
nothing of the new round was launched (`RouteMove`, from `ThisFar`), `Decide`
forgets all (`DecideMove`), and the end of a leftover process is an `Exits` or
concerns an earlier round (`OrphanMove`). Besides `Inv` it needs `Unverified`:
nothing is complete before it was verified. `VerifiedAreGone` is Execution's
`Promise`, proved of the moves (`MoveKeeps`) and carried over: the workflow never
judges the evidence of a tree that its executor still writes.

**ExecutionAttemptProofs.** `Reported`, `EndsSoon`, `OwnTimeout`, `TreeVerified`,
`EvidenceExact`, `NothingInvented`, `CommittedEscapes` and `TypeCorrect`. `Life` ties the process to where the coroutine is, `Wanted`
says who knows that an execution is not wanted, `OnTime` bounds each clock by
what is due next, and `SoonGone` is the deadline of an unwanted process as a sum
of what is left: heartbeats that may still be lost, the next one, and the grace.
`TreeVerified` needs that a verified attempt has no running process, hence
`ReportedIsGone`, and that nothing else edits the checkout before the answer is
used. It rests on what git reports (`ChangesReported`: every change that is not
ignored) and on what an answer means (`EvidenceExact`: whatever the worker prints,
an answer other than `invalid_evidence` claims what git reports and no more).
`NothingInvented` is the other direction: a path that is as in the baseline is
never reported. `CommittedEscapes` shows that the exception in `VerifiedTree` is
needed: without a `base_ref`, work that was committed is not reported at all.

`ImplementsExecution` shows that an attempt, with all its deadlines, keeps
Execution, too: `ProcessMoves` maps the steps of ExecutorProcess, `AttemptMoves`
those around it, and edits of the checkout and clocks leave the workflow's view
as it is. Launching is a move only because the process starts once, and a report
is one only because the process is gone by then and an error is not reported as
an outcome. So what is proved of a child of DurableTask holds of the execution
that runs in its place, as far as Execution speaks of it.

### What is only model-checked

Liveness (`EveryCommandEnds`, `ClaimSettles`, both `EndsOrWaits`,
`DecisionMovesOn`, `HangingEnds`): fairness and ENABLED are out of this prover's
reach. What is proved is the part of it that needs no fairness: the steps that are
left to a command (`WaitFree`), to a durable task and to the local runtime
(`BoundedProgress`) are finitely many and run out. That a step is taken as long
as one is left is what TLC checks. `HangingEnds` has no such theorem, but
`UnwantedEndsSoon` and `OwnTimeoutFirst` bound its clocks.
Every invariant and every action property of a passing run is proved. The type
invariants of Ledger and LiveStepControl are proved and not run.
What a recursive function computes for every input is out of
reach too; nothing here needs one.

## 6. What the models showed

Two findings are about the local runtime of the API, and
`docs/PRO5_OPTIMIZATION.md` line 89 records the gap: "The local API runtime still
needs the same protection before production use."

- `local_unverified`: `runLocalTask` asks for a review of a result that is not
  ready (advice `human_review`, or `accept` at R3 and above) and completes the
  task when the answer is yes. The same document says at line 75 that human
  approval cannot replace a failed check.
- `local_unreviewed`: it completes on `result.accepted` without reading the
  task's `reviewRequired`, which the completion gate of the workflow keeps.
- `durable_plugin`: routing selects an executor, the workflow keeps its provider,
  and the activity looks the provider up among the ids. The documented way to run
  Codex headless, a plugin, is selected and never runs, since the id "codex" is
  taken by the built-in executor, which has no backend. `docs/PRO5_OPTIMIZATION.md` line 91
  records it in general: "Some durable routing paths collapse executor identity
  into provider identity".

Observed, and not filed as defects:

- A cancellation during the five seconds after a timeout skips the kill: a
  process that ignores SIGTERM outlives its activity and its worker's knowledge
  of it. `UnwantedEndsSoon` and `HangingEnds` name the exception (`skipped`).
- Without a `base_ref`, what a worker commits itself is not among the changed
  paths that it must account for; with one, it is. `VerifiedTree` excepts it.
- `docs/PRO5_OPTIMIZATION.md` line 92 says that cancellation of a tree of
  processes is not there yet: the model has one process.
- Whether an independent review is required is not monotone below R3: the
  probability is compared with a threshold that grows with the risk.
- The role selectors (frontier, balanced, efficient) are refused by Grok and
  Cursor, so a task with one that is routed to them ends in a failed execution
  and waits for a person.
- A provider named twice among the preferred has the weight of its last place.

Listed among the hazards: an approval meant
for the gate that arrives late answers a later question, since a decision names
no question; a task whose API process restarts stays `executing`; `rpc` of the
live step control has no timeout.

## 7. What is not modelled, and why

- Contents: prompts, results, usage numbers, evidence details, wording, JSON
  layout. They are members of small sets where a decision depends on them.
- Reading and validating files, and a ledger that is corrupt on disk. A reader
  never sees half a file because `save` replaces it whole.
- The throttling of heartbeats in the SDK (a heartbeat of the model reaches the
  server or is lost), the descendants of an executor process, and what an
  execution that failed or was given up still writes: its attempt is never
  verified, and the next waits for a person.
- Temporal itself: replay, histories and versioning are taken to work as its
  documentation says.
- Schemas, release, validation and benchmark scripts: they keep no state that a
  run of the system depends on.

## 8. Plan

Done, in this order: Ledger, Dispatch, their proofs, TaskContract, DurableTask,
LocalRuntime, LiveStepControl and its proofs, ExecutorProcess, Evidence,
ExecutionAttempt and its proofs, Decisions, ExecutorRegistry, the proofs of the
registry and of DurableTask, the refinement of TaskContract included, and those
of LocalRuntime; then the promises carried over by the two refinements, the
measures that bound every loop, the budget of executions, the conditions under
which the findings do not arise, and what evidence means; Execution and the two
refinements of it.

Next:

1. The TypeScript worker's workflow as a second implementation of TaskContract,
   and the API in Temporal mode in front of it: its row is not written before the
   workflow ends, so a pending review is read from the workflow's status.
2. The usage ledger with its quota gate and compute advice (`efficiency.ts`,
   `pro5.py`): duplicate and conflicting receipts, stale snapshots, hysteresis.
3. Roster routing (`routing.py`) as an operator beside ExecutorRegistry.
4. Trees of processes, once the backend stops them.
