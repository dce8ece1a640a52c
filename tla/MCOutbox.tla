------------------------------ MODULE MCOutbox ------------------------------
(* A bounded instance of Outbox for TLC.                                   *)
EXTENDS Outbox, TLC

\* The users are interchangeable.
Symmetry == Permutations(Users)
=============================================================================
