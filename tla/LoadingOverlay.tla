--------------------------- MODULE LoadingOverlay ---------------------------
(***************************************************************************)
(* ActivityIndicator.swift: the loading cover.  Each screen puts it on its *)
(* own view, but the variable that names it is one for all screens, and    *)
(* hideLoading looks at it only when its block runs on the main queue.     *)
(* Operators on a record o:                                                *)
(*   covers    how many covers are on each view                            *)
(*   blur      the view the last cover was made for, NoView before any     *)
(*             (blurView)                                                  *)
(*   attached  whether that cover still has a superview                    *)
(* The indicator is a subview of the cover and goes with it.               *)
(***************************************************************************)
EXTENDS Naturals

CONSTANT NoView

NoOverlay(views) == [covers |-> [v \in views |-> 0], blur |-> NoView, attached |-> FALSE]

Covered(o, v) == o.covers[v] > 0

\* Mutant: a view that has a cover gets another one.
ShowAnother(o, v) ==
  [covers |-> [o.covers EXCEPT ![v] = @ + 1], blur |-> v, attached |-> TRUE]

\* showLoadingAdded(to: v): nothing when the view already has a cover.
ShowLoadingAdded(o, v) ==
  IF Covered(o, v) THEN o
  ELSE [covers |-> [o.covers EXCEPT ![v] = @ + 1], blur |-> v, attached |-> TRUE]

\* hideLoading queues its block unless no cover was ever made.
Hides(o) == o.blur # NoView

\* The block: the last cover made is removed, if it has not been already.
RemoveCover(o) ==
  IF o.attached
  THEN [o EXCEPT !.covers[o.blur] = @ - 1, !.attached = FALSE]
  ELSE o
=============================================================================
