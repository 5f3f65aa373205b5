------------------------- MODULE MCExecutionAttempt -------------------------
EXTENDS ExecutionAttempt

(* One tracked file inside the allowed paths, a new one outside of them and a   *)
(* new one that is ignored; claims that leave the checkout or name all of it.   *)
inside == <<"src", "app">>
outside == <<"notes">>
hidden == <<"src", "cache">>
AllPaths == {inside, outside, hidden}
TrackedPaths == {inside}
IgnoredPaths == {hidden}
AllowedPaths == {[at |-> <<"src">>, star |-> TRUE], [at |-> <<"docs">>, star |-> FALSE]}
UnsafePaths == {<<"">>, <<".">>, <<"src", "..", "notes">>}
=============================================================================
