---------------------------- MODULE LocalRuntime ----------------------------
(***************************************************************************)
(* One task of the API in local mode: runLocalTask (apps/api/src/          *)
(* local-runtime.ts), the two routes of app.ts that create a task and      *)
(* answer its reviews, and the row of the task in the Postgres store.  The *)
(* runtime and its review waiters live in the memory of the API process,   *)
(* the row outlives it.  What a client sees is the row; what decides a     *)
(* review is whether a waiter is registered.                               *)
(***************************************************************************)
EXTENDS Integers

CONSTANTS
  Providers,    \* providers of the hosted registry
  Preferred,    \* task.preferredProviders
  MaxAttempts,  \* task.maxAttempts
  Waits,        \* task.waitForHumanReview
  MaxPosts,     \* bound: review requests ever posted
  None

ASSUME LocalRuntimeAssumption ==
  /\ MaxAttempts \in Nat \ {0} /\ MaxPosts \in Nat
  /\ Waits \in BOOLEAN
  /\ Preferred \subseteq Providers /\ None \notin Providers /\ None # "complete"

VARIABLES
  at,        \* where runLocalTask is
  row,       \* the stored task: [status, pending]
  want,      \* the row that the last store.update asked for
  waiter,    \* the waiters map has an entry for the task
  answer,    \* the decision its promise was resolved with, or None
  posts,     \* review requests on their way
  need,      \* assessment: [gate, review, high], or None
  round, excluded, preferred, provider,
  judged,    \* the result assessed last: [ready, review, next], or None
  outcome,   \* the status runLocalTask returned, or None
  (* History: *)
  granted,   \* approvals consumed
  launched,  \* an executor was started
  posted     \* how many review requests were posted

routing == <<round, excluded, preferred, provider>>
reviews == <<waiter, answer, posts, posted>>
vars == <<at, row, want, reviews, need, routing, judged, outcome, granted, launched>>

Closed == {"complete", "rejected", "review_required", "failed"}
Interventions == {"accept", "correct_same", "switch_executor", "stronger_model",
                  "human_review"}

Row(status) ==
  [status |-> status, pending |-> status \in {"waiting_for_human_review", "review_required"}]

(* The runtime runs, and the update it awaits has reached the store. *)
Told == row = want

-----------------------------------------------------------------------------
(* runLocalTask, from one await to the next. *)

Tell(where, status) == at' = where /\ want' = Row(status)

(* A fault: the status is told, and the loop goes on. *)
ReturnForgotten(status) ==
  /\ Tell("routing", status)
  /\ outcome' = status

Return(status) ==
  /\ Tell("returned", status)
  /\ outcome' = status

(* A fault: the caller's threshold for the gate is ignored. *)
GateIfHigh(n) == n.gate /\ n.high

Gated(n) == n.gate

Assess ==
  /\ at = "assessing" /\ Told
  /\ need' \in [gate : BOOLEAN, review : BOOLEAN, high : BOOLEAN]
  /\ need'.high => need'.review
  /\ IF Gated(need')
     THEN Tell("ask_gate", "waiting_for_human_review") /\ UNCHANGED round
     ELSE Tell("routing", "executing") /\ round' = 1
  /\ UNCHANGED <<row, reviews, excluded, preferred, provider, judged, outcome,
                 granted, launched>>

(* A fault: the waiter is registered before the update is awaited. *)
UpdateNotAwaited == TRUE

UpdateAwaited == Told

(* waitForReview registers the waiter once the row shows the question. *)
WaitForReview(asked, waiting) ==
  /\ at = asked /\ UpdateAwaited
  /\ at' = waiting
  /\ waiter' = TRUE
  /\ UNCHANGED <<row, want, answer, posts, posted, need, routing, judged, outcome,
                 granted, launched>>

AskGate == WaitForReview("ask_gate", "gate")
AskResult == WaitForReview("ask_result", "result")

ResumeGate ==
  /\ at = "gate" /\ answer # None
  /\ answer' = None
  /\ IF answer.approved
     THEN /\ Tell("routing", "executing")
          /\ granted' = granted \cup {"gate"}
          /\ round' = 1
          /\ UNCHANGED outcome
     ELSE Return("rejected") /\ UNCHANGED <<granted, round>>
  /\ UNCHANGED <<row, waiter, posts, posted, need, excluded, preferred, provider,
                 judged, launched>>

(* registry.select keeps the best of the available executors that are not  *)
(* excluded: one of a preferred provider if there is any.                  *)
Route ==
  /\ at = "routing" /\ Told
  /\ \/ \E available \in SUBSET (Providers \ excluded), p \in Providers :
          /\ p \in available
          /\ available \cap preferred # {} => p \in preferred
          /\ provider' = p
          /\ Tell("executing", "executing")
          /\ UNCHANGED outcome
     \/ Return("failed") /\ UNCHANGED provider
  /\ UNCHANGED <<row, reviews, need, round, excluded, preferred, judged, granted, launched>>

Execute ==
  /\ at = "executing" /\ Told
  /\ at' = "running"
  /\ launched' = TRUE
  /\ UNCHANGED <<row, want, reviews, need, routing, judged, outcome, granted>>

StartRound(n) == Tell("routing", "executing") /\ round' = n /\ UNCHANGED outcome

(* Faults: the rounds are not counted, or not limited. *)
NextRoundUncounted == StartRound(round)
NextRoundUnlimited == StartRound(round + 1)

(* The loop ends when maxAttempts rounds are used up. *)
NextRound ==
  IF round < MaxAttempts THEN StartRound(round + 1)
  ELSE Return("failed") /\ UNCHANGED round

TryAgain(next) ==
  /\ next \in {"switch_executor", "correct_same", "stronger_model"}
  /\ IF next = "switch_executor"
     THEN excluded' = excluded \cup {provider} /\ preferred' = {}
     ELSE preferred' = {provider} /\ UNCHANGED excluded
  /\ NextRound

(* A fault: the engine's advice to accept is enough. *)
AcceptedIfAdvised(j) == j.next = "accept"

Accepted(j) == j.ready /\ ~j.review

NeedsReview(j) == j.review /\ (j.ready \/ j.next \in {"human_review", "accept"})

(* The executor's outcome is verified and assessed: ready only on evidence *)
(* that verified and when the engine advises to accept.                    *)
Judge ==
  /\ at = "running"
  /\ \E ready \in BOOLEAN, next \in Interventions :
       /\ ready => next = "accept"
       /\ judged' = [ready |-> ready, next |-> next,
                     review |-> need.high \/ next = "human_review"]
  /\ \/ Accepted(judged') /\ Return("complete") /\ UNCHANGED routing
     \/ /\ ~Accepted(judged') /\ NeedsReview(judged')
        /\ IF Waits THEN Tell("ask_result", "waiting_for_human_review") /\ UNCHANGED outcome
           ELSE Return("review_required")
        /\ UNCHANGED routing
     \/ /\ ~Accepted(judged') /\ ~NeedsReview(judged')
        /\ TryAgain(judged'.next) /\ UNCHANGED provider
     \/ /\ ~Accepted(judged') /\ ~NeedsReview(judged') /\ judged'.next = "accept"
        /\ Return("review_required") /\ UNCHANGED routing
  /\ UNCHANGED <<row, reviews, need, granted, launched>>

ResumeResult ==
  /\ at = "result" /\ answer # None
  /\ answer' = None
  /\ Return(IF answer.approved THEN "complete" ELSE "rejected")
  /\ granted' = IF answer.approved THEN granted \cup {"result"} ELSE granted
  /\ UNCHANGED <<row, waiter, posts, posted, need, routing, judged, launched>>

-----------------------------------------------------------------------------
(* The store, errors, and the end of the process. *)

Commit ==
  /\ at # "gone" /\ ~Told
  /\ row' = want
  /\ UNCHANGED <<at, want, reviews, need, routing, judged, outcome, granted, launched>>

(* An error of the decision engine, the executor or the store: the catch   *)
(* clause patches status and phase only.  A store update can fail after it *)
(* has reached the database.                                               *)
Throw ==
  /\ at \notin {"gate", "result", "threw", "gone"}
  /\ at' = "threw"
  /\ want' = [row EXCEPT !.status = "failed"]
  /\ UNCHANGED <<row, reviews, need, routing, judged, outcome, granted, launched>>

(* The API process ends, also on the unhandled rejection when the update   *)
(* of the catch clause fails; nothing resumes the task.                    *)
Exit ==
  /\ at # "gone"
  /\ at' = "gone"
  /\ waiter' = FALSE /\ answer' = None
  /\ UNCHANGED <<row, want, posts, posted, need, routing, judged, outcome, granted, launched>>

-----------------------------------------------------------------------------
(* POST /v1/tasks/:id/review. *)

Post ==
  /\ posted < MaxPosts
  /\ posted' = posted + 1
  /\ \E approved \in BOOLEAN : posts' = posts \cup {[approved |-> approved, id |-> posted]}
  /\ UNCHANGED <<at, row, want, waiter, answer, need, routing, judged, outcome,
                 granted, launched>>

(* The waiter is taken out of the map and resolved; 409 if there is none,  *)
(* as after a restart.                                                     *)
Handle ==
  /\ \E m \in posts :
       /\ posts' = posts \ {m}
       /\ answer' = IF waiter THEN [approved |-> m.approved] ELSE answer
  /\ waiter' = FALSE
  /\ UNCHANGED <<at, row, want, posted, need, routing, judged, outcome, granted, launched>>

-----------------------------------------------------------------------------
Init ==
  /\ at = "assessing" /\ row = Row("created") /\ want = Row("executing")
  /\ waiter = FALSE /\ answer = None /\ posts = {} /\ posted = 0
  /\ need = None /\ round = 0 /\ excluded = {} /\ preferred = Preferred
  /\ provider = None /\ judged = None /\ outcome = None
  /\ granted = {} /\ launched = FALSE

Progress ==
  \/ Assess \/ AskGate \/ AskResult \/ ResumeGate \/ ResumeResult
  \/ Route \/ Execute \/ Judge \/ Commit

Next == Progress \/ Throw \/ Exit \/ Post \/ Handle

Spec == Init /\ [][Next]_vars

(* Awaited calls return: executors and engines have timeouts, the store    *)
(* answers or fails.                                                       *)
FairSpec == Spec /\ WF_vars(Progress)

-----------------------------------------------------------------------------
Rows == [status : Closed \cup {"created", "executing", "waiting_for_human_review"},
         pending : BOOLEAN]

TypeOK ==
  /\ at \in {"assessing", "ask_gate", "gate", "routing", "executing", "running",
             "ask_result", "result", "returned", "threw", "gone"}
  /\ row \in Rows /\ want \in Rows
  /\ waiter \in BOOLEAN
  /\ answer \in {None} \cup [approved : BOOLEAN]
  /\ need \in {None} \cup [gate : BOOLEAN, review : BOOLEAN, high : BOOLEAN]
  /\ round \in 0 .. MaxAttempts
  /\ excluded \subseteq Providers /\ preferred \subseteq Providers
  /\ provider \in Providers \cup {None}
  /\ judged \in {None} \cup [ready : BOOLEAN, review : BOOLEAN, next : Interventions]
  /\ outcome \in Closed \cup {None}
  /\ granted \subseteq {"gate", "result"}

(* No executor starts before the gate of the task was approved, whatever   *)
(* requests arrive and whether or not the task waits for other reviews.    *)
GateBeforeExecution == launched /\ need.gate => "gate" \in granted

(* While the runtime waits for a decision, the row says so: the client is  *)
(* never asked by a task whose review controls it cannot see (App.tsx      *)
(* shows them only when reviewPending).                                    *)
WaitingIsShown == waiter => row = Row("waiting_for_human_review")

(* What the local runtime keeps of the completion gate: a task completes   *)
(* on a result that is ready and needs no review of its own, or on an      *)
(* approval that came while it waited for one.                             *)
CompletesOnResultOrApproval ==
  outcome = "complete" => (judged.ready /\ ~judged.review) \/ "result" \in granted

(* An outcome in the store is never replaced, but by "failed" when the     *)
(* update that stored it is reported as an error after all.                *)
OutcomeOnlyFails ==
  [][row.status \in Closed /\ row' # row => row'.status = "failed"]_vars

(* As long as its process lives the task ends up stored or waiting. *)
EndsOrWaits ==
  []<>(at = "gone" \/ waiter \/ (at \in {"returned", "threw"} /\ Told))

(* "Human approval cannot replace a failed check" (docs/                   *)
(* PRO5_OPTIMIZATION.md:75): a task completes only on a result that is     *)
(* ready for integration.                                                  *)
ApprovalNeedsEvidence == outcome = "complete" => judged.ready

(* "An approval cannot replace verification or waive a task-level review"  *)
(* (intelligence.py:290, the gate whose TypeScript twin the workflow calls *)
(* and the local runtime does not): a task that was assessed to need a     *)
(* review is completed only by an approval of its result.                  *)
TaskReviewKept == outcome = "complete" /\ need.review => "result" \in granted
=============================================================================
