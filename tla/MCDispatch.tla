----------------------------- MODULE MCDispatch -----------------------------
(* Instances of Dispatch for TLC.  Commands, tasks, providers and sessions *)
(* are model values that no definition tells apart, so states that differ  *)
(* by a permutation of them are one (not in the run that checks liveness). *)
EXTENDS Dispatch, TLC

Identities ==
  Permutations(Procs) \cup Permutations(Tasks)
    \cup Permutations(Providers) \cup Permutations(Sessions)

(* All but the history that neither a step nor a property of the run that  *)
(* uses this view reads.                                                   *)
FileView == <<tasks, lock, pc, tx, snap, job, started>>
=============================================================================
