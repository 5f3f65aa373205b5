-------------------------- MODULE LocalRuntimeProofs --------------------------
(***************************************************************************)
(* Proofs about module LocalRuntime, for any providers, any number of      *)
(* rounds and of review requests, wherever the store, the engine or the    *)
(* executor fail and whenever the process ends.                            *)
(***************************************************************************)
EXTENDS LocalRuntime, TLAPS

(* The runtime has ended, or its process has.                              *)
Over == {"returned", "threw", "gone"}

(* Requests that were posted say yes or no.                                *)
PostsTyped == \A m \in posts : m.approved \in BOOLEAN

(* What runs was routed.                                                   *)
Routed == at \in {"executing", "running"} => provider \in Providers

(* The gate was opened before anything was routed, and stays open.         *)
GateOpened ==
  /\ at \in {"assessing", "ask_gate", "gate"} => ~launched
  /\ at \in {"routing", "executing", "running", "ask_result", "result"} \/ launched =>
       (need.gate => "gate" \in granted)

(* A waiter, or an answer that is yet to be read, belongs to a question    *)
(* that the row shows.                                                     *)
Asked ==
  /\ waiter \/ answer # None => at \in {"gate", "result"}
  /\ waiter => answer = None
  /\ at \in {"ask_gate", "gate", "ask_result", "result"} => want = Row("waiting_for_human_review")
  /\ at \in {"gate", "result"} => Told

(* A runtime that goes on has no outcome, in memory or in the store; and   *)
(* one that is stored is the last that was told, or an error came after.   *)
Unfinished ==
  /\ at \notin Over => outcome = None /\ row.status \notin Closed /\ want.status \notin Closed
  /\ row.status \in Closed => Told \/ want.status = "failed"

Inv == /\ TypeOK /\ PostsTyped /\ Routed /\ GateOpened /\ Asked /\ Unfinished
       /\ CompletesOnResultOrApproval

-----------------------------------------------------------------------------
LEMMA RowIs ==
  ASSUME NEW status \in Closed \cup {"created", "executing", "waiting_for_human_review"}
  PROVE  Row(status) \in Rows /\ Row(status).status = status
BY DEF Row, Rows

LEMMA Open ==
  /\ "executing" \notin Closed /\ "waiting_for_human_review" \notin Closed /\ "created" \notin Closed
  /\ {"complete", "rejected", "review_required", "failed"} = Closed
BY DEF Closed

LEMMA InitInv == Init => Inv
<1> SUFFICES ASSUME Init PROVE Inv
  OBVIOUS
<1>1. TypeOK /\ PostsTyped /\ Routed
  <2>1. Row("created") \in Rows /\ Row("executing") \in Rows
    BY RowIs
  <2>2. 0 \in 0 .. MaxAttempts
    BY LocalRuntimeAssumption
  <2> QED
    BY <2>1, <2>2, LocalRuntimeAssumption DEF Init, TypeOK, PostsTyped, Routed
<1>2. GateOpened /\ Asked /\ CompletesOnResultOrApproval
  BY LocalRuntimeAssumption DEF Init, GateOpened, Asked, CompletesOnResultOrApproval
<1>3. Unfinished
  BY RowIs, Open DEF Init, Unfinished
<1> QED
  BY <1>1, <1>2, <1>3 DEF Inv

LEMMA AssessInv == ASSUME Inv, Assess PROVE Inv'
<1> USE DEF Inv
<1>1. /\ at = "assessing" /\ ~launched /\ ~waiter /\ answer = None
      /\ outcome = None /\ row.status \notin Closed
      /\ need' \in [gate : BOOLEAN, review : BOOLEAN, high : BOOLEAN]
      /\ UNCHANGED <<row, waiter, answer, posts, posted, excluded, preferred, provider, judged,
                     outcome, granted, launched>>
  BY DEF Assess, reviews, GateOpened, Asked, Unfinished, Over, TypeOK
<1>2. CASE need'.gate /\ at' = "ask_gate" /\ want' = Row("waiting_for_human_review") /\ round' = round
  BY <1>1, <1>2, RowIs, Open
     DEF TypeOK, PostsTyped, Routed, GateOpened, Asked, Unfinished, Over, CompletesOnResultOrApproval
<1>3. CASE ~need'.gate /\ at' = "routing" /\ want' = Row("executing") /\ round' = 1
  <2>1. 1 \in 0 .. MaxAttempts
    BY LocalRuntimeAssumption
  <2> QED
    BY <1>1, <1>3, <2>1, RowIs, Open
       DEF TypeOK, PostsTyped, Routed, GateOpened, Asked, Unfinished, Over, CompletesOnResultOrApproval
<1> QED
  BY <1>1, <1>2, <1>3 DEF Assess, Tell, Gated

LEMMA AskInv == ASSUME Inv, AskGate \/ AskResult PROVE Inv'
<1> USE DEF Inv
<1>1. /\ \/ at = "ask_gate" /\ at' = "gate"
         \/ at = "ask_result" /\ at' = "result"
      /\ Told /\ waiter'
      /\ UNCHANGED <<row, want, answer, posts, posted, need, round, excluded, preferred, provider,
                     judged, outcome, granted, launched>>
  BY DEF AskGate, AskResult, WaitForReview, UpdateAwaited, routing
<1> QED
  BY <1>1 DEF TypeOK, PostsTyped, Routed, GateOpened, Asked, Told, Unfinished, Over, CompletesOnResultOrApproval

(* What an answer is.                                                      *)
LEMMA AnswerIs == ASSUME Inv, answer # None PROVE answer.approved \in BOOLEAN /\ ~waiter
BY DEF Inv, TypeOK, Asked

LEMMA ResumeGateInv == ASSUME Inv, ResumeGate PROVE Inv'
<1> USE DEF Inv
<1>1. /\ at = "gate" /\ answer' = None /\ ~waiter /\ ~launched /\ outcome = None
      /\ row.status \notin Closed
      /\ UNCHANGED <<row, waiter, posts, posted, need, excluded, preferred, provider, judged, launched>>
  BY AnswerIs DEF ResumeGate, GateOpened, Unfinished, Over
<1>2. CASE /\ at' = "routing" /\ want' = Row("executing") /\ granted' = granted \cup {"gate"}
           /\ round' = 1 /\ outcome' = outcome
  <2>1. 1 \in 0 .. MaxAttempts
    BY LocalRuntimeAssumption
  <2> QED
    BY <1>1, <1>2, <2>1, RowIs, Open
       DEF TypeOK, PostsTyped, Routed, GateOpened, Asked, Unfinished, Over, CompletesOnResultOrApproval
<1>3. CASE /\ at' = "returned" /\ want' = Row("rejected") /\ outcome' = "rejected"
           /\ granted' = granted /\ round' = round
  BY <1>1, <1>3, RowIs, Open
     DEF TypeOK, PostsTyped, Routed, GateOpened, Asked, Unfinished, Over, CompletesOnResultOrApproval
<1> QED
  BY <1>2, <1>3 DEF ResumeGate, Tell, Return

LEMMA ResumeResultInv == ASSUME Inv, ResumeResult PROVE Inv'
<1> USE DEF Inv
<1>1. /\ at = "result" /\ answer' = None /\ ~waiter /\ outcome = None /\ row.status \notin Closed
      /\ UNCHANGED <<row, waiter, posts, posted, need, round, excluded, preferred, provider, judged,
                     launched>>
      /\ granted \subseteq granted' /\ granted' \subseteq {"gate", "result"}
  BY AnswerIs DEF ResumeResult, Unfinished, Over, routing, TypeOK
<1>2. /\ at' = "returned" /\ outcome' \in {"complete", "rejected"} /\ want' = Row(outcome')
      /\ outcome' = "complete" => "result" \in granted'
  BY DEF ResumeResult, Return, Tell
<1> QED
  BY <1>1, <1>2, RowIs, Open
     DEF TypeOK, PostsTyped, Routed, GateOpened, Asked, Unfinished, Over, CompletesOnResultOrApproval

LEMMA RouteInv == ASSUME Inv, Route PROVE Inv'
<1> USE DEF Inv
<1>1. /\ at = "routing" /\ ~waiter /\ answer = None /\ outcome = None /\ row.status \notin Closed
      /\ UNCHANGED <<row, waiter, answer, posts, posted, need, round, excluded, preferred, judged,
                     granted, launched>>
  BY DEF Route, reviews, Asked, Unfinished, Over, TypeOK
<1>2. CASE /\ provider' \in Providers /\ at' = "executing" /\ want' = Row("executing")
           /\ outcome' = outcome
  BY <1>1, <1>2, RowIs, Open
     DEF TypeOK, PostsTyped, Routed, GateOpened, Asked, Unfinished, Over, CompletesOnResultOrApproval
<1>3. CASE at' = "returned" /\ want' = Row("failed") /\ outcome' = "failed" /\ provider' = provider
  BY <1>1, <1>3, RowIs, Open
     DEF TypeOK, PostsTyped, Routed, GateOpened, Asked, Unfinished, Over, CompletesOnResultOrApproval
<1> QED
  BY <1>2, <1>3 DEF Route, Tell, Return

LEMMA ExecuteInv == ASSUME Inv, Execute PROVE Inv'
<1> USE DEF Inv
<1>1. /\ at = "executing" /\ at' = "running" /\ launched'
      /\ UNCHANGED <<row, want, waiter, answer, posts, posted, need, round, excluded, preferred,
                     provider, judged, outcome, granted>>
  BY DEF Execute, reviews, routing
<1> QED
  BY <1>1 DEF TypeOK, PostsTyped, Routed, GateOpened, Asked, Told, Unfinished, Over, CompletesOnResultOrApproval

LEMMA TryAgainIs ==
  ASSUME Inv, at = "running", NEW next, TryAgain(next), provider' = provider
  PROVE  /\ excluded' \subseteq Providers /\ preferred' \subseteq Providers
         /\ round' \in 0 .. MaxAttempts
         /\ \/ at' = "routing" /\ want' = Row("executing") /\ outcome' = outcome
            \/ at' = "returned" /\ want' = Row("failed") /\ outcome' = "failed"
BY LocalRuntimeAssumption DEF Inv, TypeOK, Routed, TryAgain, NextRound, StartRound, Tell, Return

LEMMA JudgeInv == ASSUME Inv, Judge PROVE Inv'
<1> USE DEF Inv
<1>1. /\ at = "running" /\ ~waiter /\ answer = None /\ outcome = None /\ row.status \notin Closed
      /\ need.gate => "gate" \in granted
      /\ UNCHANGED <<row, waiter, answer, posts, posted, need, granted, launched>>
  BY DEF Judge, reviews, GateOpened, Asked, Unfinished, Over
<1>2. judged' \in [ready : BOOLEAN, review : BOOLEAN, next : Interventions]
  <2>1. PICK ready \in BOOLEAN, next \in Interventions :
          judged' = [ready |-> ready, next |-> next, review |-> need.high \/ next = "human_review"]
    BY DEF Judge
  <2>2. (need.high \/ next = "human_review") \in BOOLEAN
    OBVIOUS
  <2> QED
    BY <2>1, <2>2
<1>3. /\ excluded' \subseteq Providers /\ preferred' \subseteq Providers
      /\ round' \in 0 .. MaxAttempts /\ provider' = provider
      /\ \/ at' = "routing" /\ want' = Row("executing") /\ outcome' = None
         \/ /\ at' = "ask_result" /\ want' = Row("waiting_for_human_review")
            /\ outcome' = None
         \/ /\ at' = "returned" /\ want' = Row(outcome')
            /\ outcome' \in {"complete", "review_required", "failed"}
            /\ outcome' = "complete" => Accepted(judged')
  <2>1. CASE Accepted(judged') /\ Return("complete") /\ UNCHANGED routing
    BY <2>1 DEF Return, Tell, routing, TypeOK
  <2>2. CASE /\ IF Waits THEN Tell("ask_result", "waiting_for_human_review") /\ UNCHANGED outcome
                ELSE Return("review_required")
             /\ UNCHANGED routing
    BY <1>1, <2>2 DEF Return, Tell, routing, TypeOK
  <2>3. CASE TryAgain(judged'.next) /\ UNCHANGED provider
    <3> DEFINE next == judged'.next
    <3>1. TryAgain(next)
      BY <2>3
    <3> HIDE DEF next
    <3> QED
      BY <1>1, <2>3, <3>1, TryAgainIs
  <2>4. CASE Return("review_required") /\ UNCHANGED routing
    BY <2>4 DEF Return, Tell, routing, TypeOK
  <2> QED
    BY <2>1, <2>2, <2>3, <2>4 DEF Judge
<1>4. /\ want' \in Rows
      /\ at' # "returned" => want'.status \notin Closed
  BY <1>3, RowIs, Open
<1>5. TypeOK'
  BY <1>1, <1>2, <1>3, <1>4, Open DEF TypeOK
<1>6. PostsTyped' /\ Routed' /\ GateOpened' /\ Asked'
  BY <1>1, <1>3 DEF PostsTyped, Routed, GateOpened, Asked
<1>7. Unfinished' /\ CompletesOnResultOrApproval'
  BY <1>1, <1>3, <1>4, LocalRuntimeAssumption
     DEF Unfinished, Over, CompletesOnResultOrApproval, Accepted
<1> QED
  BY <1>5, <1>6, <1>7

LEMMA CommitInv == ASSUME Inv, Commit PROVE Inv'
BY DEF Inv, Commit, reviews, routing, TypeOK, PostsTyped, Routed, GateOpened, Asked, Told,
       Unfinished, Over, CompletesOnResultOrApproval

LEMMA ThrowInv == ASSUME Inv, Throw PROVE Inv'
<1> USE DEF Inv
<1>1. /\ at \notin {"gate", "result"} /\ at' = "threw" /\ ~waiter /\ answer = None
      /\ want' = [row EXCEPT !.status = "failed"]
      /\ UNCHANGED <<row, waiter, answer, posts, posted, need, round, excluded, preferred, provider,
                     judged, outcome, granted, launched>>
  BY DEF Throw, reviews, routing, Asked
<1>2. want' \in Rows /\ want'.status = "failed"
  BY <1>1, Open DEF TypeOK, Rows
<1> QED
  BY <1>1, <1>2
     DEF TypeOK, PostsTyped, Routed, GateOpened, Asked, Unfinished, Over, CompletesOnResultOrApproval

LEMMA ExitInv == ASSUME Inv, Exit PROVE Inv'
<1> USE DEF Inv
<1>1. /\ at' = "gone" /\ waiter' = FALSE /\ answer' = None
      /\ UNCHANGED <<row, want, posts, posted, need, round, excluded, preferred, provider, judged,
                     outcome, granted, launched>>
  BY DEF Exit, routing
<1>2. TypeOK'
  BY <1>1 DEF TypeOK
<1>3. PostsTyped' /\ Routed' /\ GateOpened' /\ Asked'
  BY <1>1 DEF PostsTyped, Routed, GateOpened, Asked
<1>4. Unfinished' /\ CompletesOnResultOrApproval'
  BY <1>1 DEF Unfinished, Over, Told, CompletesOnResultOrApproval
<1> QED
  BY <1>2, <1>3, <1>4

LEMMA RequestInv == ASSUME Inv, Post \/ Handle PROVE Inv'
<1> USE DEF Inv
<1>1. UNCHANGED <<at, row, want, need, round, excluded, preferred, provider, judged, outcome,
                  granted, launched>>
  BY DEF Post, Handle, routing
<1>2. /\ PostsTyped'
      /\ \/ waiter' = waiter /\ answer' = answer
         \/ /\ waiter' = FALSE
            /\ answer' = answer \/ (waiter /\ answer' \in [approved : BOOLEAN])
  <2>1. CASE Post
    BY <2>1 DEF Post, PostsTyped
  <2>2. CASE Handle
    <3>1. PICK m \in posts : /\ posts' = posts \ {m}
                             /\ answer' = IF waiter THEN [approved |-> m.approved] ELSE answer
      BY <2>2 DEF Handle
    <3>2. [approved |-> m.approved] \in [approved : BOOLEAN]
      BY DEF PostsTyped
    <3>3. waiter' = FALSE /\ waiter \in BOOLEAN
      BY <2>2 DEF Handle, TypeOK
    <3>4. PostsTyped'
      BY <3>1 DEF PostsTyped
    <3>5. CASE waiter
      <4>1. answer' = [approved |-> m.approved]
        BY <3>1, <3>5, Zenon
      <4> QED
        BY <3>2, <3>3, <3>4, <3>5, <4>1, Zenon
    <3>6. CASE ~waiter
      <4>1. answer' = answer
        BY <3>1, <3>6, Zenon
      <4> QED
        BY <3>3, <3>4, <4>1, Zenon
    <3> QED
      BY <3>5, <3>6
  <2> QED
    BY <2>1, <2>2
<1>3. TypeOK'
  <2>1. waiter' \in BOOLEAN /\ answer' \in {None} \cup [approved : BOOLEAN]
    BY <1>2 DEF TypeOK
  <2> QED
    BY <1>1, <2>1 DEF TypeOK
<1>4. Asked'
  BY <1>1, <1>2 DEF Asked, Told
<1> QED
  BY <1>1, <1>2, <1>3, <1>4 DEF Routed, GateOpened, Told, Unfinished, CompletesOnResultOrApproval

LEMMA NextInv == ASSUME Inv, [Next]_vars PROVE Inv'
<1>1. CASE UNCHANGED vars
  BY <1>1 DEF vars, reviews, routing, Inv, TypeOK, PostsTyped, Routed, GateOpened, Asked, Told,
              Unfinished, CompletesOnResultOrApproval
<1> QED
  BY <1>1, AssessInv, AskInv, ResumeGateInv, ResumeResultInv, RouteInv, ExecuteInv, JudgeInv,
     CommitInv, ThrowInv, ExitInv, RequestInv
     DEF Next, Progress

LEMMA Invariance == Spec => []Inv
<1>1. Inv /\ [Next]_vars => Inv'
  BY NextInv
<1> QED
  BY <1>1, InitInv, PTL DEF Spec

-----------------------------------------------------------------------------
(* The theorems.                                                           *)

(* The row and the locals of runLocalTask have their types: no more rounds *)
(* than maxAttempts, and one of the statuses the client knows.             *)
THEOREM TypeCorrect == Spec => []TypeOK
<1>1. Inv => TypeOK
  BY DEF Inv
<1> QED
  BY <1>1, Invariance, PTL

(* No executor starts before a gate that the assessment demands is         *)
(* approved (runLocalTask, humanGateRequired).                             *)
THEOREM GateFirst == Spec => []GateBeforeExecution
<1>1. Inv => GateBeforeExecution
  BY DEF Inv, GateOpened, GateBeforeExecution
<1> QED
  BY <1>1, Invariance, PTL

(* A waiter is registered only while the row shows its question: the       *)
(* update is awaited first (waitForReview).                                *)
THEOREM Shown == Spec => []WaitingIsShown
<1>1. Inv => WaitingIsShown
  BY DEF Inv, Asked, Told, WaitingIsShown
<1> QED
  BY <1>1, Invariance, PTL

(* A task completes on a result that is ready and needs no review of its   *)
(* own, or on an approval (runLocalTask, result.accepted and the review    *)
(* after it).                                                              *)
THEOREM CompletesRightly == Spec => []CompletesOnResultOrApproval
<1>1. Inv => CompletesOnResultOrApproval
  BY DEF Inv
<1> QED
  BY <1>1, Invariance, PTL

(* A stored outcome changes to "failed" and to nothing else (app.ts, the   *)
(* catch clause of the running promise).                                   *)
THEOREM OutcomeStays == Spec => OutcomeOnlyFails
<1>1. Inv /\ [Next]_vars =>
        [row.status \in Closed /\ row' # row => row'.status = "failed"]_vars
  <2>1. SUFFICES ASSUME Inv, [Next]_vars, row.status \in Closed, row' # row
                 PROVE  row'.status = "failed"
    OBVIOUS
  <2>2. Commit
    BY <2>1 DEF Next, Progress, Assess, AskGate, AskResult, WaitForReview, ResumeGate, ResumeResult,
                Route, Execute, Judge, Throw, Exit, Post, Handle, vars
  <2> QED
    BY <2>1, <2>2 DEF Commit, Inv, Unfinished
<1> QED
  BY <1>1, Invariance, PTL DEF Spec, OutcomeOnlyFails

-----------------------------------------------------------------------------
(* What runLocalTask still has to do: the stages of this round, the store  *)
(* update that is under way, and the rounds that are left.                 *)
StagesLeft == [assessing |-> 9, ask_gate |-> 8, gate |-> 7, routing |-> 6, executing |-> 5,
               running |-> 4, ask_result |-> 3, result |-> 2, returned |-> 1, threw |-> 0]

StepsLeft ==
  IF at = "gone" THEN 0
  ELSE 6 * (MaxAttempts - round) + 2 * StagesLeft[at] + (IF Told THEN 0 ELSE 1)

StepsBounded == StepsLeft \in 0 .. 6 * MaxAttempts + 19

(* Every step of the runtime, an error included, brings the task nearer to *)
(* its end, and neither a request nor the end of the process sets it back: *)
(* the loop of runLocalTask and its catch clause do not run for ever.      *)
StepsRunOut == [][/\ Progress \/ Throw => StepsLeft' < StepsLeft
                  /\ StepsLeft' <= StepsLeft]_vars

(* The rounds begin when the gate is open. *)
Started == at \in {"assessing", "ask_gate", "gate"} => round = 0

LEMMA LeftType == TypeOK => StepsBounded
<1>1. SUFFICES ASSUME TypeOK PROVE StepsBounded
  OBVIOUS
<1>2. MaxAttempts \in Nat /\ round \in 0 .. MaxAttempts
  BY <1>1, LocalRuntimeAssumption DEF TypeOK
<1>3. CASE at = "gone"
  BY <1>2, <1>3 DEF StepsBounded, StepsLeft
<1>4. CASE at # "gone"
  <2> DEFINE stages == StagesLeft[at]
             told == IF Told THEN 0 ELSE 1
  <2>1. stages \in 0 .. 9 /\ told \in 0 .. 1
    BY <1>1, <1>4 DEF TypeOK, StagesLeft
  <2>2. StepsLeft = 6 * (MaxAttempts - round) + 2 * stages + told
    BY <1>4 DEF StepsLeft
  <2> HIDE DEF stages, told
  <2> QED
    BY <1>2, <2>1, <2>2 DEF StepsBounded
<1> QED
  BY <1>3, <1>4

(* A later stage of the same round, or any stage of a later one.          *)
LEMMA Nearer ==
  ASSUME NEW m \in Int, NEW r \in Int, NEW q \in Int, NEW s \in Int, NEW z \in Int,
         NEW a \in 0 .. 1, NEW b \in 0 .. 1,
         (q = r /\ z < s) \/ (q > r /\ z <= s + 2)
  PROVE  6 * (m - q) + 2 * z + b < 6 * (m - r) + 2 * s + a
<1>1. CASE q = r /\ z < s
  BY <1>1
<1>2. CASE q > r /\ z <= s + 2
  <2>1. 6 * (m - q) <= 6 * (m - r) - 6
    BY <1>2
  <2> QED
    BY <1>2, <2>1
<1> QED
  BY <1>1, <1>2

(* The runtime comes to a later stage, or to another round.                *)
LEMMA StageLater ==
  ASSUME TypeOK, TypeOK', at # "gone", at' # "gone",
         \/ round' = round /\ StagesLeft[at'] < StagesLeft[at]
         \/ round' > round /\ StagesLeft[at'] <= StagesLeft[at] + 2
  PROVE  StepsLeft' < StepsLeft
<1> DEFINE s == StagesLeft[at]  z == StagesLeft[at']
           a == IF Told THEN 0 ELSE 1
           b == IF Told' THEN 0 ELSE 1
<1>1. s \in 0 .. 9 /\ z \in 0 .. 9 /\ a \in 0 .. 1 /\ b \in 0 .. 1
  BY DEF TypeOK, StagesLeft
<1>2. MaxAttempts \in Nat /\ round \in 0 .. MaxAttempts /\ round' \in 0 .. MaxAttempts
  BY LocalRuntimeAssumption DEF TypeOK
<1>3. /\ StepsLeft = 6 * (MaxAttempts - round) + 2 * s + a
      /\ StepsLeft' = 6 * (MaxAttempts - round') + 2 * z + b
  BY DEF StepsLeft
<1>4. (round' = round /\ z < s) \/ (round' > round /\ z <= s + 2)
  OBVIOUS
<1>5. MaxAttempts \in Int /\ round \in Int /\ round' \in Int /\ s \in Int /\ z \in Int
  BY <1>1, <1>2
<1> HIDE DEF s, z, a, b
<1>6. 6 * (MaxAttempts - round') + 2 * z + b < 6 * (MaxAttempts - round) + 2 * s + a
  BY <1>1, <1>4, <1>5, Nearer, Zenon
<1> QED
  BY <1>3, <1>6

LEMMA RuntimeAdvances ==
  ASSUME Inv, Inv', Started, (Progress /\ ~Commit) \/ Throw
  PROVE  StepsLeft' < StepsLeft /\ Started'
<1>1. TypeOK /\ TypeOK' /\ MaxAttempts \in Nat \ {0}
  BY LocalRuntimeAssumption DEF Inv
<1>2. CASE Assess
  <2>1. /\ at = "assessing" /\ round = 0
        /\ (at' = "ask_gate" /\ round' = 0) \/ (at' = "routing" /\ round' = 1)
    BY <1>2 DEF Assess, Tell, Started
  <2> QED
    BY <1>1, <2>1, StageLater DEF StagesLeft, Started
<1>3. CASE AskGate \/ AskResult
  <2>1. /\ \/ at = "ask_gate" /\ at' = "gate"
           \/ at = "ask_result" /\ at' = "result"
        /\ round' = round
    BY <1>3 DEF AskGate, AskResult, WaitForReview, routing
  <2> QED
    BY <1>1, <2>1, StageLater DEF StagesLeft, Started
<1>4. CASE ResumeGate
  <2>1. /\ at = "gate" /\ round = 0
        /\ (at' = "routing" /\ round' = 1) \/ (at' = "returned" /\ round' = round)
    BY <1>4 DEF ResumeGate, Tell, Return, Started
  <2> QED
    BY <1>1, <2>1, StageLater DEF StagesLeft, Started
<1>5. CASE Route \/ Execute \/ ResumeResult
  <2>1. /\ \/ at = "routing" /\ at' \in {"executing", "returned"}
           \/ at = "executing" /\ at' = "running"
           \/ at = "result" /\ at' = "returned"
        /\ round' = round
    BY <1>5 DEF Route, Execute, ResumeResult, Tell, Return, routing
  <2> QED
    BY <1>1, <2>1, StageLater DEF StagesLeft, Started
<1>6. CASE Judge
  <2>1. /\ at = "running"
        /\ \/ at' \in {"returned", "ask_result"} /\ round' = round
           \/ at' = "routing" /\ round' = round + 1
    <3>1. CASE \/ Accepted(judged') /\ Return("complete") /\ UNCHANGED routing
               \/ Return("review_required") /\ UNCHANGED routing
      BY <1>6, <3>1 DEF Judge, Return, Tell, routing
    <3>2. CASE /\ IF Waits THEN Tell("ask_result", "waiting_for_human_review") /\ UNCHANGED outcome
                  ELSE Return("review_required")
               /\ UNCHANGED routing
      BY <1>6, <3>2 DEF Judge, Return, Tell, routing
    <3>3. CASE NextRound
      BY <1>6, <3>3 DEF Judge, NextRound, StartRound, Return, Tell
    <3> QED
      BY <1>6, <3>1, <3>2, <3>3 DEF Judge, TryAgain
  <2>2. CASE at' \in {"returned", "ask_result"} /\ round' = round
    BY <1>1, <2>1, <2>2, StageLater DEF StagesLeft, Started
  <2>3. CASE at' = "routing" /\ round' = round + 1
    <3>1. round' > round
      BY <1>1, <2>3 DEF TypeOK
    <3> QED
      BY <1>1, <2>1, <2>3, <3>1, StageLater DEF StagesLeft, Started
  <2> QED
    BY <2>1, <2>2, <2>3
<1>7. CASE Throw
  <2>1. at \notin {"gate", "result", "threw", "gone"} /\ at' = "threw" /\ round' = round
    BY <1>7 DEF Throw, routing
  <2>2. at \in {"assessing", "ask_gate", "routing", "executing", "running", "ask_result", "returned"}
    BY <1>1, <2>1 DEF TypeOK
  <2> QED
    BY <1>1, <2>1, <2>2, StageLater DEF StagesLeft, Started
<1> QED
  BY <1>2, <1>3, <1>4, <1>5, <1>6, <1>7 DEF Progress

LEMMA OthersAdvance ==
  ASSUME Inv, Inv', Started, Commit \/ Exit \/ Post \/ Handle \/ UNCHANGED vars
  PROVE  StepsLeft' <= StepsLeft /\ (Commit => StepsLeft' < StepsLeft) /\ Started'
<1>1. StepsBounded /\ StepsBounded'
  BY LeftType, PTL DEF Inv
<1>2. StepsLeft \in Nat /\ StepsLeft' \in Nat
  BY <1>1, LocalRuntimeAssumption DEF StepsBounded
<1>3. CASE Commit
  <2>1. /\ at # "gone" /\ ~Told /\ Told' /\ UNCHANGED <<at, round>>
    BY <1>3 DEF Commit, Told, routing
  <2> DEFINE rest == 6 * (MaxAttempts - round) + 2 * StagesLeft[at]
  <2>2. rest \in Int
    BY <2>1, LocalRuntimeAssumption DEF Inv, TypeOK, StagesLeft
  <2>3. StepsLeft = rest + 1 /\ StepsLeft' = rest + 0
    BY <2>1 DEF StepsLeft
  <2> HIDE DEF rest
  <2>4. StepsLeft' < StepsLeft
    BY <2>2, <2>3
  <2> QED
    BY <1>2, <2>1, <2>4 DEF Started
<1>4. CASE Exit
  <2>1. at' = "gone" /\ ~Commit
    BY <1>4 DEF Exit, Commit
  <2>2. StepsLeft' = 0
    BY <2>1 DEF StepsLeft
  <2> QED
    BY <1>2, <2>1, <2>2 DEF Started
<1>5. CASE Post \/ Handle \/ UNCHANGED vars
  <2>1. UNCHANGED <<at, round, row, want>>
    BY <1>5 DEF Post, Handle, routing, vars
  <2>2. StepsLeft' = StepsLeft /\ (Told' <=> Told)
    BY <2>1, Zenon DEF StepsLeft, Told
  <2>3. ~Commit
    BY <2>1 DEF Commit, Told
  <2> QED
    BY <1>2, <2>1, <2>2, <2>3 DEF Started
<1> QED
  BY <1>3, <1>4, <1>5

(* The runtime takes at most six steps a round and nineteen besides, the   *)
(* store's and an error's included (runLocalTask, the catch clause).       *)
THEOREM BoundedProgress == Spec => []StepsBounded /\ StepsRunOut
<1> DEFINE Less == /\ Progress \/ Throw => StepsLeft' < StepsLeft
                   /\ StepsLeft' <= StepsLeft
<1>1. Init => Started
  BY DEF Init, Started
<1>2. Inv /\ Inv' /\ Started /\ [Next]_vars => Started'
  BY RuntimeAdvances, OthersAdvance DEF Next
<1>3. Inv /\ Inv' /\ Started /\ [Next]_vars => [Less]_vars
  <2>1. SUFFICES ASSUME Inv, Inv', Started, Next PROVE Less
    OBVIOUS
  <2>2. StepsLeft \in Nat /\ StepsLeft' \in Nat
    <3>1. StepsBounded /\ StepsBounded'
      BY <2>1, LeftType, PTL DEF Inv
    <3> QED
      BY <3>1, LocalRuntimeAssumption DEF StepsBounded
  <2>3. CASE (Progress /\ ~Commit) \/ Throw
    BY <2>1, <2>2, <2>3, RuntimeAdvances
  <2>4. CASE Commit
    BY <2>1, <2>2, <2>4, OthersAdvance
  <2>5. CASE ~Progress /\ ~Throw
    BY <2>1, <2>5, OthersAdvance DEF Next
  <2> QED
    BY <2>3, <2>4, <2>5
<1>4. Inv => StepsBounded
  BY LeftType DEF Inv
<1> QED
  BY <1>1, <1>2, <1>3, <1>4, Invariance, PTL DEF Spec, StepsRunOut

-----------------------------------------------------------------------------
(* The two ways in which runLocalTask falls short of the completion gate,  *)
(* and no others: an approval that stands in for evidence, and a review of *)
(* the task that is not asked for.                                         *)

(* When the engine or the risk calls for a review of the result.           *)
Advised == judged.review <=> need.high \/ judged.next = "human_review"

(* What a person is asked for, and what a task completes on.               *)
Judged ==
  /\ at \in {"ask_result", "result"} => Advised /\ Waits /\ NeedsReview(judged)
  /\ outcome = "complete" =>
       /\ Advised
       /\ Accepted(judged) \/ ("result" \in granted /\ Waits /\ NeedsReview(judged))

(* What a result that is not ready was, whose task completed.              *)
UnverifiedIsApproved ==
  outcome = "complete" /\ ~judged.ready =>
    /\ Waits /\ "result" \in granted /\ judged.review
    /\ judged.next = "human_review" \/ (judged.next = "accept" /\ need.high)

(* Whose result completes without a review.                                *)
UnreviewedIsAccepted ==
  outcome = "complete" /\ "result" \notin granted => judged.ready /\ ~judged.review /\ ~need.high

LEMMA JudgeJudged == ASSUME Inv, Inv', Judged, Judge PROVE Judged'
<1>1. /\ at = "running" /\ outcome # "complete" /\ need' = need /\ granted' = granted
      /\ Advised'
  <2>1. PICK ready \in BOOLEAN, next \in Interventions :
          judged' = [ready |-> ready, next |-> next,
                     review |-> need.high \/ next = "human_review"]
    BY DEF Judge
  <2>2. at = "running" /\ need' = need /\ granted' = granted /\ outcome = None
    BY DEF Judge, Inv, Unfinished, Over
  <2>3. judged'.next = next /\ judged'.review = (need.high \/ next = "human_review")
    BY <2>1
  <2> QED
    BY <2>2, <2>3, LocalRuntimeAssumption DEF Advised
<1>2. CASE Accepted(judged') /\ Return("complete")
  BY <1>1, <1>2 DEF Judged, Advised, Return, Tell
<1>3. CASE NeedsReview(judged') /\ IF Waits THEN Tell("ask_result", "waiting_for_human_review") /\ UNCHANGED outcome
                                   ELSE Return("review_required")
  BY <1>1, <1>3 DEF Judged, Advised, Return, Tell
<1>4. CASE TryAgain(judged'.next) \/ Return("review_required")
  BY <1>1, <1>4 DEF Judged, Advised, TryAgain, NextRound, StartRound, Return, Tell
<1> QED
  BY <1>2, <1>3, <1>4 DEF Judge

LEMMA JudgedStep == ASSUME Inv, Inv', Judged, [Next]_vars PROVE Judged'
<1>1. CASE Assess
  BY <1>1, LocalRuntimeAssumption DEF Assess, Judged, Advised, Tell, Inv, Unfinished, Over
<1>2. CASE AskGate \/ AskResult
  BY <1>2 DEF AskGate, AskResult, WaitForReview, routing, Judged, Advised
<1>3. CASE ResumeGate
  BY <1>3 DEF ResumeGate, Judged, Advised, Tell, Return, Inv, Unfinished, Over
<1>4. CASE Route \/ Execute \/ Commit \/ Throw \/ Exit \/ Post \/ Handle \/ UNCHANGED vars
  BY <1>4 DEF Route, Execute, Commit, Throw, Exit, Post, Handle, vars, routing, reviews,
              Judged, Advised, Tell, Return
<1>5. CASE Judge
  BY <1>5, JudgeJudged
<1>6. CASE ResumeResult
  BY <1>6 DEF ResumeResult, Judged, Advised, Tell, Return, routing
<1> QED
  BY <1>1, <1>2, <1>3, <1>4, <1>5, <1>6 DEF Next, Progress

LEMMA JudgedAlways == Spec => []Judged
<1>1. Init => Judged
  BY LocalRuntimeAssumption DEF Init, Judged
<1>2. Inv /\ Inv' /\ Judged /\ [Next]_vars => Judged'
  BY JudgedStep
<1> QED
  BY <1>1, <1>2, Invariance, PTL DEF Spec

(* A task completes on a result that is not ready only if it waits for     *)
(* reviews and one of that result was approved, which the engine sent to a *)
(* person or, at R3 and above, advised to accept (runLocalTask).           *)
THEOREM UnverifiedOnlyApproved == Spec => []UnverifiedIsApproved
<1>1. Inv /\ Judged => UnverifiedIsApproved
  BY DEF Inv, TypeOK, Judged, Advised, UnverifiedIsApproved, Accepted, NeedsReview
<1> QED
  BY <1>1, Invariance, JudgedAlways, PTL

(* So no approval stands in for evidence in a task that does not wait for  *)
(* reviews (task.waitForHumanReview).                                      *)
THEOREM EvidenceUnlessWaiting == ASSUME ~Waits PROVE Spec => []ApprovalNeedsEvidence
<1>1. Inv /\ Judged => ApprovalNeedsEvidence
  BY DEF Judged, Advised, ApprovalNeedsEvidence, Accepted
<1> QED
  BY <1>1, Invariance, JudgedAlways, PTL

(* A task that completes without a review has a result that is ready and   *)
(* asks for none, and is below R3: only below R3 can the review that the   *)
(* task was assessed to need be left out (result.accepted).                *)
THEOREM UnreviewedOnlyBelowHigh == Spec => []UnreviewedIsAccepted
<1>1. Inv /\ Judged => UnreviewedIsAccepted
  BY DEF Inv, TypeOK, Judged, Advised, UnreviewedIsAccepted, Accepted
<1> QED
  BY <1>1, Invariance, JudgedAlways, PTL
=============================================================================
