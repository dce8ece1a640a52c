------------------------------ MODULE Delivery ------------------------------
(***************************************************************************)
(* What Firestore promises for writes: each user has a queue; a write that *)
(* has been accepted stays in it until the server has decided about it,    *)
(* committing or refusing it, and the server is not asked about a write    *)
(* before it has decided about the user's earlier ones.  Nothing is said   *)
(* of streams, batches, retries or restarts.                               *)
(***************************************************************************)
EXTENDS Naturals, Sequences

CONSTANTS
  Users,        \* who writes
  Writes        \* the writes they may make

VARIABLES
  accepted,     \* the writes that have entered a queue
  pending,      \* each user's queue
  decided       \* the writes the server has committed or refused

vars == <<accepted, pending, decided>>

Init ==
  /\ accepted = {}
  /\ pending = [u \in Users |-> <<>>]
  /\ decided = {}

\* A write enters its user's queue, durably.
Accept(u, w) ==
  /\ w \notin accepted
  /\ accepted' = accepted \cup {w}
  /\ pending' = [pending EXCEPT ![u] = Append(@, w)]
  /\ UNCHANGED decided

\* The server decides about a write all of whose predecessors it has decided
\* about.
Decide(u, i) ==
  /\ \A j \in 1..(i - 1) : pending[u][j] \in decided
  /\ decided' = decided \cup {pending[u][i]}
  /\ UNCHANGED <<accepted, pending>>

\* The oldest write leaves the queue once it is decided.
Settle(u) ==
  /\ pending[u] # <<>>
  /\ Head(pending[u]) \in decided
  /\ pending' = [pending EXCEPT ![u] = Tail(@)]
  /\ UNCHANGED <<accepted, decided>>

Next ==
  \E u \in Users :
    \/ \E w \in Writes : Accept(u, w)
    \/ \E i \in 1..Len(pending[u]) : Decide(u, i)
    \/ Settle(u)

Spec == Init /\ [][Next]_vars
=============================================================================
