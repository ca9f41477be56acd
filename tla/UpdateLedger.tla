---------------------------- MODULE UpdateLedger ----------------------------
(***************************************************************************)
(* What the update state machine promises about a device's history,        *)
(* without any of its machinery: a version's image is written at most      *)
(* Budget times and never once the version is banned; a ban is for good;   *)
(* what is committed was written, is not banned, and is newer than         *)
(* everything committed before.                                            *)
(***************************************************************************)
EXTENDS Naturals

CONSTANTS Versions, Budget, Nothing

VARIABLES
  written,      \* how often each version's image went to the target
  banned,
  committed,    \* the version last committed, or Nothing
  sequence      \* its sequence number

ledger == <<written, banned, committed, sequence>>

Init ==
  /\ written = [v \in Versions |-> 0]
  /\ banned = {}
  /\ committed = Nothing
  /\ sequence = 0

Write(v) ==
  /\ v \notin banned /\ written[v] < Budget
  /\ written' = [written EXCEPT ![v] = @ + 1]
  /\ UNCHANGED <<banned, committed, sequence>>

Ban(v) == banned' = banned \cup {v} /\ UNCHANGED <<written, committed, sequence>>

Commit(v) ==
  /\ v \notin banned /\ written[v] > 0
  /\ committed' = v /\ sequence' \in Nat /\ sequence' > sequence
  /\ UNCHANGED <<written, banned>>

Next == \E v \in Versions : Write(v) \/ Ban(v) \/ Commit(v)

Spec == Init /\ [][Next]_ledger
=============================================================================
