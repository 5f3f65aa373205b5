--------------------------- MODULE ExecutorRegistry ---------------------------
(***************************************************************************)
(* The executors a task can be routed to: ExecutionRegistry and its        *)
(* default contents (src/durable_threads/execution.py, scripted.py), and   *)
(* the adapters that turn a request into a command (providers.py).         *)
(*                                                                         *)
(* A registry is a sequence of executors in the order of their ids.        *)
(* backend is "cli" for a CliExecutionBackend of the executor's provider,  *)
(* "own" for one of a plugin, "none" for a native-only executor.           *)
(***************************************************************************)
EXTENDS Integers, Sequences, FiniteSets

(* The four adapters, and what the registry makes of one. *)
codex == [provider |-> "codex", headless |-> FALSE, structured |-> FALSE,
          persistent |-> TRUE, effort |-> TRUE]

claude == [provider |-> "claude", headless |-> TRUE, structured |-> TRUE,
           persistent |-> TRUE, effort |-> TRUE]

grok == [provider |-> "grok", headless |-> TRUE, structured |-> TRUE,
         persistent |-> TRUE, effort |-> TRUE]

cursor == [provider |-> "cursor", headless |-> TRUE, structured |-> TRUE,
           persistent |-> TRUE, effort |-> FALSE]

builtin(adapter) ==
  [id |-> adapter.provider, provider |-> adapter.provider,
   capabilities |-> {"code", "filesystem", "git"}
                      \cup (IF adapter.headless THEN {"shell"} ELSE {})
                      \cup (IF adapter.structured THEN {"structured-output"} ELSE {}),
   headless |-> adapter.headless, structured |-> adapter.structured,
   persistent |-> adapter.persistent, effort |-> adapter.effort,
   backend |-> IF adapter.headless THEN "cli" ELSE "none"]

scripted ==
  [id |-> "scripted", provider |-> "scripted",
   capabilities |-> {"code", "filesystem", "git", "shell", "structured-output"},
   headless |-> TRUE, structured |-> TRUE, persistent |-> FALSE, effort |-> TRUE,
   backend |-> "own"]

default_execution_registry ==
  <<builtin(claude), builtin(codex), builtin(cursor), builtin(grok), scripted>>

(* register refuses an id that is taken. *)
IdsUnique(registry) ==
  \A i, j \in DOMAIN registry : registry[i].id = registry[j].id => i = j

-----------------------------------------------------------------------------
(* rank and select *)

Satisfies(e, req) ==
  /\ e.provider \notin req.excluded
  /\ req.capabilities \subseteq e.capabilities
  /\ req.headless => e.headless
  /\ req.persistent => e.persistent
  /\ req.structured => e.structured
  /\ req.effort => e.effort

(* A preference that is named twice counts where it is named last. *)
Preference(provider, preferred) ==
  LET at == {i \in DOMAIN preferred : preferred[i] = provider} IN
  IF at = {} THEN 0
  ELSE 1 + Len(preferred) - (CHOOSE i \in at : \A j \in at : j <= i)

Score(e, req) ==
  100 * Preference(e.provider, req.preferred)
    + (IF e.structured THEN 5 ELSE 0) + (IF e.persistent THEN 3 ELSE 0)
    + (IF e.effort THEN 1 ELSE 0)

(* available: the places of the executors whose probe succeeds. *)
Candidates(registry, req, available) ==
  {i \in available : Satisfies(registry[i], req)}

Precedes(registry, req, i, j) ==
  \/ Score(registry[i], req) > Score(registry[j], req)
  \/ Score(registry[i], req) = Score(registry[j], req) /\ i < j

(* The places of the count best candidates; there may be none. *)
select(registry, req, available, count) ==
  LET candidates == Candidates(registry, req, available) IN
  {i \in candidates :
     Cardinality({j \in candidates : Precedes(registry, req, j, i)}) < count}

-----------------------------------------------------------------------------
(* registry.backend(id), for the executor with that id. *)
Registered(registry, id) == {e \in {registry[i] : i \in DOMAIN registry} : e.id = id}

(* A selector is [prefix, value]: the provider it is for, or "any", and    *)
(* "default", the name of a role, the name of a model, or a text that      *)
(* names no model.                                                         *)
_selector_value(provider, selector) == selector.prefix \in {"any", provider}

resolve_model(provider, selector) ==
  _selector_value(provider, selector) /\ selector.value \in {"default", "model"}

(* Only Claude gives the roles a meaning; Codex has no command. *)
build_claude(selector) ==
  _selector_value("claude", selector) /\ selector.value \in {"default", "role", "model"}
build_grok(selector) == resolve_model("grok", selector)
build_cursor(selector) == resolve_model("cursor", selector)

build_invocation(provider, selector) ==
  \/ provider = "claude" /\ build_claude(selector)
  \/ provider = "grok" /\ build_grok(selector)
  \/ provider = "cursor" /\ build_cursor(selector)

(* execute gets as far as starting something for this provider. *)
CanExecute(e, provider, selector) ==
  /\ e.backend # "none"
  /\ e.backend = "cli" => e.provider = provider /\ build_invocation(provider, selector)
=============================================================================
