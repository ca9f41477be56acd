---------------------------- MODULE MCReconciler ----------------------------
(* reconcile() started on every device of a small instance.               *)
EXTENDS Reconciler

CONSTANTS v1, v2

\* Lengths of the sketch headers; recovery does not look at them.
MCHeaderLength == [f \in Firmware |-> IF f = Golden THEN 1 ELSE IF f \in Live THEN 2 ELSE 3]
=============================================================================
