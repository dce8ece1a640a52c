----------------------------- MODULE MCTaskRun -----------------------------
(* Bounded instances of TaskRun for TLC.                                  *)
EXTENDS TaskRun, TLC

\* The texts are interchangeable: no definition names one of them.
Symmetry == Permutations(Text)
=============================================================================
