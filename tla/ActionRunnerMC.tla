--------------------------- MODULE ActionRunnerMC ---------------------------
(* One host; manual requests are interchangeable.  upgrade stands for qup's  *)
(* apply, destructive and run in the privileged helper; list for a           *)
(* read-only action.                                                         *)
EXTENDS ActionRunner, TLC

Symmetry == Permutations(Requests \ Scheduled)
=============================================================================
