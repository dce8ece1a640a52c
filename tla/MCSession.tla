----------------------------- MODULE MCSession ------------------------------
(* A bounded instance of Session for TLC.                                  *)
EXTENDS Session, TLC

\* The users are interchangeable.
Symmetry == Permutations(Users)
=============================================================================
