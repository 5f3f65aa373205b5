------------------------------ MODULE Evidence ------------------------------
(***************************************************************************)
(* The evidence of a worker (src/durable_threads/evidence.py): what git    *)
(* reports of a checkout, what a worker reports of itself, and when the    *)
(* two support a completed task.                                           *)
(*                                                                         *)
(* A path is the sequence of its components, as split("/") returns it, so  *)
(* "/a" is <<"", "a">> and "" is <<"">>.  A checkout is [head, index,      *)
(* tree], each a function from Paths to 0 (as in the baseline, where a new *)
(* path is absent) or 1 (changed).                                         *)
(***************************************************************************)
EXTENDS Naturals, SequencesExt

CONSTANTS
  Paths,     \* the files of the checkout
  Tracked,   \* those of the baseline; the others are new
  Ignored,   \* the new ones that .gitignore hides
  Allowed,   \* task.allowed_paths: [at |-> components, star |-> a final /*]
  Unsafe     \* paths that a worker may claim and that are none

ASSUME EvidenceAssumption ==
  /\ Tracked \subseteq Paths /\ Ignored \subseteq Paths \ Tracked
  /\ \A p \in Paths \cup Unsafe : p # << >>
  /\ \A a \in Allowed : a.star \in BOOLEAN

NoEvidence == [status |-> "invalid_evidence", changed |-> {}]

-----------------------------------------------------------------------------
(* git_changed_paths *)

Unchanged == [p \in Paths |-> 0]

ChangedIn(a, b) == {p \in Paths : a[p] # b[p]}

(* git diff --name-only <from>: of the paths git knows, here or there. *)
Diff(c, from) ==
  {p \in ChangedIn(c.tree, from) : p \in Tracked \/ from[p] = 1 \/ c.index[p] = 1}

(* git ls-files --others --exclude-standard *)
Untracked(c) == {p \in Paths \ (Tracked \cup Ignored) : c.index[p] = 0 /\ c.tree[p] = 1}

(* A fault: only what git diff prints. *)
DiffOnly(c, pinned) == Diff(c, IF pinned THEN Unchanged ELSE c.head)

(* pinned: a base_ref is given, the commit of the baseline. *)
git_changed_paths(c, pinned) ==
  Diff(c, IF pinned THEN Unchanged ELSE c.head) \cup ChangedIn(c.index, c.head) \cup Untracked(c)

-----------------------------------------------------------------------------
(* _path_matches: the path itself, or below it; fnmatch's * also matches a /. *)
PathMatches(path, allowed) ==
  /\ IsPrefix(allowed.at, path)
  /\ allowed.star => Len(path) > Len(allowed.at)

IsUnsafe(path) == path[1] = "" \/ path = <<".">> \/ ".." \in Range(path)

(* _validate_paths raises for any other. *)
ValidPaths(paths) ==
  /\ Allowed # {}
  /\ \A p \in paths : ~IsUnsafe(p) /\ \E a \in Allowed : PathMatches(p, a)

-----------------------------------------------------------------------------
(* What a worker prints: a JSON line with one of the keys, or headings in  *)
(* plain text, or nothing.  lists: those of its lists that are there.      *)
Outputs ==
  [form : {"empty", "json", "text"},
   status : {"complete", "blocked", "failed", "other"},
   provider : {"valid", "invalid", "missing"},
   lists : SUBSET {"changed", "checks", "concerns"},
   changed : SUBSET (Paths \cup Unsafe),
   checks : {"none", "passed", "unsuccessful"},
   concerns : BOOLEAN]

(* parse_worker_result: a list that JSON does not have is an error, where  *)
(* text just has no values; an empty JSON list of concerns means none.     *)
ParseFails(out) ==
  \/ out.form = "empty"
  \/ out.form = "json" /\ out.lists # {"changed", "checks", "concerns"}
  \/ out.status = "other"

Parsed(out) ==
  [status |-> out.status, provider |-> out.provider,
   changed |-> IF "changed" \in out.lists THEN out.changed ELSE {},
   checks |-> IF "checks" \in out.lists THEN out.checks ELSE "none",
   concerns |-> out.form = "json" \/ ("concerns" \in out.lists /\ out.concerns)]

(* validate_evidence raises for any other. *)
Validated(e, actual) ==
  /\ e.provider = "valid"
  /\ ValidPaths(e.changed)
  /\ e.status = "complete" => e.checks = "passed" /\ e.concerns
  /\ ValidPaths(actual)
  /\ e.changed = actual

(* All that parse_worker_result can return. *)
Evidence == {Parsed(out) : out \in {o \in Outputs : ~ParseFails(o)}}

(* verify_execution_activity: every error becomes an answer. *)
Verdict(e, actual) ==
  IF Validated(e, actual) THEN [status |-> e.status, changed |-> e.changed] ELSE NoEvidence

(* The answers to any output at all. *)
Verdicts(actual) == {NoEvidence} \cup {Verdict(e, actual) : e \in Evidence}
=============================================================================
