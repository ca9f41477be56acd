----------------------------- MODULE Reconciler -----------------------------
(***************************************************************************)
(* unoq_ota/reconciler.py: boot-time recovery.  One run of reconcile() is  *)
(* a scan of the candidates; a step is one health check or one candidate's *)
(* load and flash.  It reads neither state.json nor anything the agent     *)
(* keeps in memory: the only variables below are the device's and its own. *)
(*                                                                         *)
(* Definitions whose name ends in _mut are mutations: plausible slips in   *)
(* the code, used to confirm that a property notices them.                 *)
(***************************************************************************)
EXTENDS Device, Sequences

VARIABLES
  rpc,      \* "initial", "try", "check" or "done"; "off" once systemd moved on
  rcand,    \* index of the candidate under trial
  rresult,  \* the ReconcileResult: healthy, action, image
  trouble   \* history: the faults that have occurred in this recovery

rvars == <<rpc, rcand, rresult, trouble>>

Results == [healthy: BOOLEAN, action: {"none", "reflashed", "exhausted"},
            image: Names \cup {Nothing}]

ReconcilerTypeOK ==
  /\ rpc \in {"initial", "try", "check", "done", "off"}
  /\ rcand \in 1..(Len(CANDIDATES) + 1)
  /\ rpc = "check" => rcand \in 1..Len(CANDIDATES)
  /\ rresult \in Results \cup {Nothing}
  /\ rpc = "done" => rresult \in Results
  /\ trouble \in SUBSET {"flash", "health", "read"}

Finish(healthy, action, image) ==
  /\ rpc' = "done"
  /\ rresult' = [healthy |-> healthy, action |-> action, image |-> image]
  /\ UNCHANGED rcand

\* A live sketch the health check did not see.
Missed(reported) ==
  trouble' = IF reported = Nothing /\ Alive(mcu) THEN trouble \cup {"health"} ELSE trouble

-----------------------------------------------------------------------------
InitialCheck_mut ==
  /\ rpc = "initial"
  /\ rpc' = "try" /\ UNCHANGED <<rcand, rresult, trouble, mcu, images>>

\* Something is alive: leave it alone, whatever it is.
InitialCheck ==
  /\ rpc = "initial"
  /\ \E reported \in WaitAlive(mcu) :
       /\ Missed(reported)
       /\ \/ reported # Nothing /\ Finish(TRUE, "none", Nothing)
          \/ reported = Nothing /\ rpc' = "try" /\ UNCHANGED <<rcand, rresult>>
  /\ UNCHANGED <<mcu, images>>

NextCandidate_mut == rpc' = "try" /\ UNCHANGED <<rcand, rresult>>

NextCandidate == rpc' = "try" /\ rcand' = rcand + 1 /\ UNCHANGED rresult

\* The candidate is absent, load() refuses it, or it cannot be read.
SkipCandidate_mut ==
  /\ rpc = "try" /\ rcand <= Len(CANDIDATES)
  /\ ~Loadable(images[CANDIDATES[rcand]])
  /\ IF images[CANDIDATES[rcand]] = Nothing
       THEN NextCandidate ELSE Finish(FALSE, "exhausted", Nothing)
  /\ UNCHANGED <<mcu, images, trouble>>

SkipCandidate ==
  /\ rpc = "try" /\ rcand <= Len(CANDIDATES)
  /\ \/ ~Loadable(images[CANDIDATES[rcand]]) /\ UNCHANGED trouble
     \/ "read" \in Faults /\ trouble' = trouble \cup {"read"}
  /\ NextCandidate
  /\ UNCHANGED <<mcu, images>>

FlashCandidate_mut ==
  /\ rpc = "try" /\ rcand <= Len(CANDIDATES)
  /\ LET img == images[CANDIDATES[rcand]] IN
       /\ Loadable(img)
       /\ \/ mcu' = Written(img) /\ UNCHANGED trouble
          \/ mcu' \in FailedWrite(mcu, img) /\ trouble' = trouble \cup {"flash"}
       /\ rpc' = "check" /\ UNCHANGED <<rcand, rresult>>
  /\ UNCHANGED images

FlashCandidate ==
  /\ rpc = "try" /\ rcand <= Len(CANDIDATES)
  /\ LET img == images[CANDIDATES[rcand]] IN
       /\ Loadable(img)
       /\ \/ mcu' = Written(img) /\ rpc' = "check" /\ UNCHANGED <<rcand, rresult, trouble>>
          \/ /\ mcu' \in FailedWrite(mcu, img) /\ trouble' = trouble \cup {"flash"}
             /\ NextCandidate
  /\ UNCHANGED images

CheckCandidate_mut ==
  /\ rpc = "check"
  /\ Finish(TRUE, "reflashed", CANDIDATES[rcand])
  /\ UNCHANGED <<mcu, images, trouble>>

CheckCandidate_slip_mut ==
  /\ rpc = "check"
  /\ \E reported \in WaitAlive(mcu) :
       \/ /\ reported # Nothing /\ UNCHANGED <<rcand, trouble>>
          /\ rpc' = "done" /\ rresult' = [healthy |-> TRUE, action |-> "none", image |-> Nothing]
       \/ Missed(reported) /\ rpc' = "try" /\ rcand' = rcand + 2 /\ UNCHANGED rresult
  /\ UNCHANGED <<mcu, images>>

CheckCandidate ==
  /\ rpc = "check"
  /\ \E reported \in WaitAlive(mcu) :
       /\ Missed(reported)
       /\ \/ reported # Nothing /\ Finish(TRUE, "reflashed", CANDIDATES[rcand])
          \/ reported = Nothing /\ NextCandidate
  /\ UNCHANGED <<mcu, images>>

Exhausted ==
  /\ rpc = "try" /\ rcand > Len(CANDIDATES)
  /\ Finish(FALSE, "exhausted", Nothing)
  /\ UNCHANGED <<mcu, images, trouble>>

ReconcileNext ==
  InitialCheck \/ SkipCandidate \/ FlashCandidate \/ CheckCandidate \/ Exhausted

\* What the unit is like when systemd starts it at boot.
Started == rpc = "initial" /\ rcand = 1 /\ rresult = Nothing /\ trouble = {}

-----------------------------------------------------------------------------
(***************************************************************************)
(* reconcile() on its own, started on any device whatsoever: whatever an   *)
(* interrupted update, a power cut or a stranger's upload left behind.     *)
(***************************************************************************)
ReconcileInit == DeviceTypeOK /\ Started

ReconcileVars == <<mcu, images, rpc, rcand, rresult, trouble>>

ReconcileSpec == ReconcileInit /\ [][ReconcileNext]_ReconcileVars

FairReconcileSpec == ReconcileSpec /\ WF_ReconcileVars(ReconcileNext)

-----------------------------------------------------------------------------
\* The type of everything a recovery touches.
ReconcileTypeOK == DeviceTypeOK /\ ReconcilerTypeOK

\* The claim of the module's first line, "this is what makes bricking
\* impossible": when the golden image is sound and the SWD link and the disk
\* held, a finished recovery leaves live firmware on the target, however the
\* other images are damaged and however often the health check misses a live
\* sketch on the way.
GoldenIsSound == images["golden"] = Whole(Golden) /\ Golden \in Live

NeverLeftDead ==
  (rpc = "done" /\ GoldenIsSound /\ trouble \subseteq {"health"}) => Alive(mcu)

\* A result that claims health is true of the target, also when writes and
\* reads fail on the way: cli.py turns it into the journal entry and the exit
\* code of the boot unit.
HealthyIsTrue == (rpc = "done" /\ rresult.healthy) => Alive(mcu)

\* "reflashed" names the image that is running, not one that was tried and
\* passed over.
NamesTheImage ==
  (rpc = "done" /\ rresult.action = "reflashed") => mcu = Written(images[rresult.image])

\* Recovery never writes over live firmware it has been able to see (a missed
\* health line hides it, and so does a write that took effect and reported
\* failure): an IDE upload or a committed update survives every boot.
SparesTheLiving ==
  [][(mcu' # mcu /\ trouble \subseteq {"read"}) => ~Alive(mcu)]_ReconcileVars

\* With nothing going wrong, the image restored is the first usable one in
\* the order current, previous, golden: never an older one than necessary.
Usable(n) == Loadable(images[n]) /\ images[n].ver \in Live

RestoresNewest ==
  (rpc = "done" /\ trouble = {} /\ rresult.action # "none") =>
    rresult.image = IF Usable("current") THEN "current"
                    ELSE IF Usable("previous") THEN "previous"
                    ELSE IF Usable("golden") THEN "golden" ELSE Nothing

\* Every recovery comes to an end, so the agent behind it in systemd's order
\* does start.
RecoveryEnds == <>(rpc = "done")
=============================================================================
