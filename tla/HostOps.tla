------------------------------ MODULE HostOps -------------------------------
(***************************************************************************)
(* What unoq_ota/host.py does to the pair (live_dir, live_dir.previous),   *)
(* one whole call at a time.  HostTree takes the calls apart into single   *)
(* directory operations and is checked against these operators; Agent      *)
(* uses them as its host step.                                             *)
(***************************************************************************)
EXTENDS Common

CONSTANTS
  Trees,    \* complete host trees, named by the payload they come from
  Torn      \* a directory holding part of a tree

ASSUME TreesAssumption == Nothing \notin Trees /\ Torn \notin Trees /\ Nothing # Torn

Dirs == Trees \cup {Nothing, Torn}
HostPairs == [live: Dirs, previous: Dirs]

\* apply_host_tree, complete.
Swapped(h, tree) == [live |-> tree, previous |-> h.live]

\* rollback_host_tree, complete.
Unswapped(h) ==
  IF h.previous = Nothing THEN h ELSE [live |-> h.previous, previous |-> Nothing]

\* _apply_host_if_present answering False: the payload did not extract, or
\* the restarted host unit is not active; both are followed by a rollback.
HostFailures(h, tree) == {Unswapped(h), Unswapped(Swapped(h, tree))}

\* The pair after a crash somewhere in between: in the swap, or in either of
\* the two rollbacks.
HostCrashes(h, tree) ==
  {h, [h EXCEPT !.previous = Torn], [h EXCEPT !.previous = Nothing],
   [live |-> Nothing, previous |-> h.live], Swapped(h, tree),
   [live |-> Nothing, previous |-> h.previous]} \cup HostFailures(h, tree)
=============================================================================
