-------------------------- MODULE LiveStepControl ---------------------------
(***************************************************************************)
(* CodexLiveStepControl.updateEffort (packages/executors/src/              *)
(* live-step-control.ts): one update of a running turn's effort at a time, *)
(* published by a remote call that may fail after, before or long before   *)
(* it takes effect.  A call that finds its decision's receipt returns it,  *)
(* or throws if the effort differs, and changes nothing: such calls are    *)
(* the stuttering steps of this module.                                    *)
(***************************************************************************)
EXTENDS Integers, FiniteSets

CONSTANTS
  Decisions,    \* decision ids
  Supported,    \* capabilities.supportedEfforts of a qualified runtime
  MaxReceipts,  \* 64 in the code
  None

Requests == [decision : Decisions, effort : Supported]
Statuses == {"applied", "targetUnavailable", "unknown"}
Receipts == [effort : Supported, status : Statuses]

ASSUME LiveStepAssumption ==
  /\ MaxReceipts \in Nat \ {0} /\ IsFiniteSet(Decisions)
  /\ None \notin Requests \cup Receipts

VARIABLES
  receipts, busy, quarantined, closed,   \* the fields of the object
  flights,    \* calls of rpc that have not returned: [decision, effort]
  wire,       \* requests that the runtime has yet to receive
  (* History: *)
  sent,       \* how often rpc was called for each decision
  published,  \* decisions whose update the runtime has published
  last        \* the request sent last, or None

control == <<receipts, busy, quarantined, closed>>
vars == <<control, flights, wire, sent, published, last>>

-----------------------------------------------------------------------------
Receipted == {d \in Decisions : receipts[d] # None}

(* Faults: the checks of updateEffort that are left out or off by one. *)
AnyState == TRUE
OneTooMany == Cardinality(Receipted) <= MaxReceipts

Reconciled == ~closed /\ ~quarantined
Serialized == ~busy
WithinReceipts == Cardinality(Receipted) < MaxReceipts

UpdateEffort(d, e) ==
  /\ receipts[d] = None
  /\ Reconciled
  /\ Serialized
  /\ WithinReceipts
  /\ busy' = TRUE
  /\ LET r == [decision |-> d, effort |-> e] IN
       /\ flights' = flights \cup {r}
       /\ wire' = wire \cup {r}
       /\ last' = r
  /\ sent' = [sent EXCEPT ![d] = @ + 1]
  /\ UNCHANGED <<receipts, quarantined, closed, published>>

(* The runtime publishes the update; or the turn is gone, or the request   *)
(* is lost.                                                                *)
Arrive ==
  /\ \E r \in wire :
       /\ wire' = wire \ {r}
       /\ published' \in {published, published \cup {r.decision}}
  /\ UNCHANGED <<control, flights, sent, last>>

(* A fault: an error is taken for a refusal of the target. *)
ErrorMeansRefused(reply) == IF reply = "applied" THEN reply ELSE "targetUnavailable"

StatusOf(reply) == IF reply \in {"applied", "targetUnavailable"} THEN reply ELSE "unknown"

(* What the runtime says is true.  An error, or an answer in no known      *)
(* form, may come with the request published, lost or still on its way.    *)
CanReply(r, reply) ==
  /\ reply = "applied" => r.decision \in published
  /\ reply = "targetUnavailable" => r \notin wire /\ r.decision \notin published

Settle(r, reply) ==
  /\ r \in flights /\ CanReply(r, reply)
  /\ flights' = flights \ {r}
  /\ busy' = FALSE
  /\ quarantined' = (StatusOf(reply) = "unknown")
  /\ closed' = (StatusOf(reply) = "targetUnavailable")
  /\ receipts' = [receipts EXCEPT ![r.decision] =
                    [effort |-> r.effort, status |-> StatusOf(reply)]]
  /\ UNCHANGED <<wire, sent, published, last>>

-----------------------------------------------------------------------------
Init ==
  /\ receipts = [d \in Decisions |-> None]
  /\ busy = FALSE /\ quarantined = FALSE /\ closed = FALSE
  /\ flights = {} /\ wire = {}
  /\ sent = [d \in Decisions |-> 0] /\ published = {} /\ last = None

Next ==
  \/ \E d \in Decisions, e \in Supported : UpdateEffort(d, e)
  \/ Arrive
  \/ \E r \in flights, reply \in {"applied", "targetUnavailable", "other", "error"} :
       Settle(r, reply)

Spec == Init /\ [][Next]_vars

-----------------------------------------------------------------------------
TypeOK ==
  /\ receipts \in [Decisions -> {None} \cup Receipts]
  /\ busy \in BOOLEAN /\ quarantined \in BOOLEAN /\ closed \in BOOLEAN
  /\ flights \subseteq Requests /\ wire \subseteq Requests
  /\ sent \in [Decisions -> Nat]
  /\ published \subseteq Decisions
  /\ last \in Requests \cup {None}

(* A receipt tells the truth about its update, and "never replay blindly": *)
(* a decision is sent at most once, "applied" ones were published and ones *)
(* whose target was gone never are.                                        *)
ReceiptsMatchUse ==
  \A d \in Decisions :
    /\ sent[d] <= 1
    /\ receipts[d] # None =>
         /\ receipts[d].status = "applied" => d \in published
         /\ receipts[d].status = "targetUnavailable" => d \notin published

(* Nothing is sent after an update whose fate is unknown or whose target   *)
(* is gone ("reconcile execution before further updates").                 *)
NothingAfterUncertainty ==
  [][sent' # sent => \A d \in Receipted : receipts[d].status = "applied"]_vars

(* An update that arrives late never undoes a newer one: what the runtime  *)
(* receives is always the request that was sent last.                      *)
LatestWins == [][\A r \in wire : r \notin wire' => r = last]_vars

(* "step-update budget exhausted": counting the one in flight, never more  *)
(* updates are sent than receipts are kept.                                *)
WithinBudget == Cardinality({d \in Decisions : sent[d] > 0}) <= MaxReceipts
=============================================================================
