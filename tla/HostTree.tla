------------------------------ MODULE HostTree ------------------------------
(***************************************************************************)
(* unoq_ota/host.py and Agent._apply_host_if_present: the coupled host     *)
(* payload.  A directory is Nothing, a complete tree, or Torn (part of a   *)
(* tree: an extraction or a recursive removal that did not finish).  One   *)
(* step is one directory operation, so a crash, or an error from the       *)
(* filesystem, falls between any two of them.                              *)
(*                                                                         *)
(* Definitions whose name ends in _mut are mutations: plausible slips in   *)
(* the code, used to confirm that a property notices them.                 *)
(***************************************************************************)
EXTENDS HostOps

CONSTANT HostFaults     \* {"extract", "disk", "health", "crash"} or fewer of them

VARIABLES
  dir,      \* the directories live_dir, .next, .previous and .failed
  hpc,      \* the next directory operation; "idle" between updates
  payload,  \* the tree in the staged archive
  before,   \* history: live_dir and .previous when this update began
  outcome,  \* how the last update ended: applied, undone, crashed
  mishaps   \* history: the faults met since this update began

hvars == <<dir, hpc, payload, before, outcome, mishaps>>

Places == {"live", "next", "previous", "failed"}

Steps == {"idle", "clean_next", "extract", "drop_previous", "park_live", "install",
          "joint_check", "undo", "park_failed", "restore", "drop_failed"}

\* The type of the host side; from the extraction to the rename into place,
\* .next holds the complete payload.
HostTypeOK ==
  /\ dir \in [Places -> Dirs]
  /\ hpc \in Steps
  /\ payload \in Trees
  /\ before \in HostPairs
  /\ outcome \in {"none", "applied", "undone", "crashed"}
  /\ mishaps \in SUBSET {"extract", "disk", "health", "crash"}
  /\ hpc \in {"drop_previous", "park_live", "install"} => dir["next"] = payload

Pair == [live |-> dir["live"], previous |-> dir["previous"]]

HostInit ==
  /\ \E tree \in Trees \cup {Nothing} :
       dir = [p \in Places |-> IF p = "live" THEN tree ELSE Nothing]
  /\ hpc = "idle" /\ outcome = "none" /\ mishaps = {}
  /\ payload \in Trees
  /\ before = Pair

\* The directory d becomes x, and the next operation is step.
Set(d, x) == dir' = [dir EXCEPT ![d] = x]
Move(d, e) == dir' = [dir EXCEPT ![e] = dir[d], ![d] = Nothing]
Go(step) == hpc' = step /\ UNCHANGED <<payload, before, outcome, mishaps>>
Settle(result) == hpc' = "idle" /\ outcome' = result /\ UNCHANGED <<payload, before>>

\* An exception inside the try block of _apply_host_if_present.
Raise(fault) ==
  /\ fault \in HostFaults /\ mishaps' = mishaps \cup {fault}
  /\ hpc' = "undo" /\ UNCHANGED <<payload, before, outcome>>

\* A rename refused by the filesystem leaves both names as they are.
RenameFails == UNCHANGED dir /\ Raise("disk")

\* A removal that is refused has deleted some of the tree.
RemovalFails(d) == dir[d] # Nothing /\ Set(d, Torn) /\ Raise("disk")

-----------------------------------------------------------------------------
\* apply_host_tree.

Begin(tree) ==
  /\ hpc = "idle"
  /\ hpc' = "clean_next" /\ payload' = tree /\ before' = Pair
  /\ outcome' = "none" /\ mishaps' = {}
  /\ UNCHANGED dir

CleanNext ==
  /\ hpc = "clean_next"
  /\ (Set("next", Nothing) /\ Go("extract")) \/ RemovalFails("next")

Extract_mut ==
  /\ hpc = "extract"
  /\ \/ Set("next", payload) /\ Go("drop_previous")
     \/ "extract" \in HostFaults /\ Set("next", Torn) /\ Go("drop_previous")

\* A tar that does not extract, or a member that is refused, removes .next
\* and raises; an exception the handlers do not name, or a removal that is
\* refused, leaves it part filled.
Extract ==
  /\ hpc = "extract"
  /\ \/ Set("next", payload) /\ Go("drop_previous")
     \/ (UNCHANGED dir \/ Set("next", Torn)) /\ Raise("extract")

DropPrevious ==
  /\ hpc = "drop_previous"
  /\ (Set("previous", Nothing) /\ Go("park_live")) \/ RemovalFails("previous")

ParkLive_mut ==
  /\ hpc = "park_live"
  /\ Set("live", Nothing) /\ Go("install")

\* An existing live directory moves aside; a first install has none, and
\* .previous is gone by now.
ParkLive ==
  /\ hpc = "park_live"
  /\ (Move("live", "previous") /\ Go("install")) \/ RenameFails

Install ==
  /\ hpc = "install"
  /\ (Move("next", "live") /\ Go("joint_check")) \/ RenameFails

JointCheck_mut ==
  /\ hpc = "joint_check"
  /\ UNCHANGED <<dir, mishaps>>
  /\ Settle("undone") \/ Settle("applied")

\* Restart the host unit and ask whether it is active.
JointCheck ==
  /\ hpc = "joint_check"
  /\ UNCHANGED dir
  /\ (Settle("applied") /\ UNCHANGED mishaps) \/ Raise("health")

-----------------------------------------------------------------------------
\* rollback_host_tree; what it raises is logged and swallowed.

GiveUp == "disk" \in HostFaults /\ mishaps' = mishaps \cup {"disk"} /\ Settle("undone")

Undo ==
  /\ hpc = "undo"
  /\ \/ dir["previous"] = Nothing /\ UNCHANGED <<dir, mishaps>> /\ Settle("undone")
     \/ dir["previous"] # Nothing /\ Set("failed", Nothing) /\ Go("park_failed")
     \/ dir["previous"] # Nothing /\ dir["failed"] # Nothing /\ Set("failed", Torn) /\ GiveUp

ParkFailed ==
  /\ hpc = "park_failed"
  /\ (Move("live", "failed") /\ Go("restore")) \/ (UNCHANGED dir /\ GiveUp)

Restore_mut ==
  /\ hpc = "restore"
  /\ Set("live", dir["previous"]) /\ Go("drop_failed")

Restore ==
  /\ hpc = "restore"
  /\ (Move("previous", "live") /\ Go("drop_failed")) \/ (UNCHANGED dir /\ GiveUp)

DropFailed ==
  /\ hpc = "drop_failed"
  /\ \/ Set("failed", Nothing) /\ UNCHANGED mishaps /\ Settle("undone")
     \/ dir["failed"] # Nothing /\ Set("failed", Torn) /\ GiveUp

\* The directory an operation is in the middle of filling or removing.
Busy == CASE hpc \in {"clean_next", "extract"} -> {"next"}
          [] hpc = "drop_previous" -> {"previous"}
          [] hpc \in {"undo", "drop_failed"} -> {"failed"}
          [] OTHER -> {}

\* The process or the board stops.  A directory being filled or removed is
\* left torn; the renames are atomic.
Crash ==
  /\ "crash" \in HostFaults /\ hpc # "idle"
  /\ UNCHANGED dir \/ \E d \in Busy : (hpc = "extract" \/ dir[d] # Nothing) /\ Set(d, Torn)
  /\ mishaps' = mishaps \cup {"crash"} /\ Settle("crashed")

HostNext ==
  \/ \E tree \in Trees : Begin(tree)
  \/ CleanNext \/ Extract \/ DropPrevious \/ ParkLive \/ Install \/ JointCheck
  \/ Undo \/ ParkFailed \/ Restore \/ DropFailed
  \/ Crash

HostSpec == HostInit /\ [][HostNext]_hvars

-----------------------------------------------------------------------------
\* What an undone update leaves live when only the joint health check, which
\* comes after the swap, went wrong: exactly the tree from before.
Clean == mishaps \cap {"extract", "disk"} = {}

UndoRestores ==
  (Clean /\ outcome = "undone" /\ before.live # Nothing) => dir["live"] = before.live

\* Whatever the moment of a crash, the tree that was live when the update
\* began is still on disk, complete, under one of the names.
AncestorSurvives ==
  (Clean /\ before.live # Nothing) => \E d \in Places : dir[d] = before.live

\* "never a mix" (host.py:47): no crash puts part of a tree under live_dir.
LiveIsNeverTorn == (Clean /\ before.live # Torn) => dir["live"] # Torn

\* The one-call view of HostOps is what the directory operations add up to,
\* crashes included: the update agent's host step rests on it.
AddsUp ==
  "disk" \notin mishaps =>
    /\ outcome = "applied" => Pair = Swapped(before, payload)
    /\ outcome = "undone" => Pair \in HostFailures(before, payload)
    /\ outcome = "crashed" => Pair \in HostCrashes(before, payload)

\* host.py:46-47: "A crash mid-apply leaves either the old tree or the new
\* tree under *live_dir*".
CrashLeavesATree ==
  (outcome = "crashed" /\ before.live \in Trees) => dir["live"] \in {before.live, payload}

\* README.md:37: "MCU and host are one transaction: if either side fails
\* health, both roll back", so an undone host side is the one from before.
UndoneIsBefore ==
  (outcome = "undone" /\ before.live \in Trees) => dir["live"] = before.live
=============================================================================
