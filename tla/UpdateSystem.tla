---------------------------- MODULE UpdateSystem ----------------------------
(***************************************************************************)
(* The board: the update agent, the boot reconciler and the device they    *)
(* share.  systemd orders unoq-ota-reconcile.service before                *)
(* unoq-ota.service, so after every power cut the agent waits for the      *)
(* reconciler; an agent that merely dies is restarted without it           *)
(* (Restart=always).  The other actors are the power supply, whoever       *)
(* uploads a sketch with the IDE, and a state.json that stops parsing.     *)
(***************************************************************************)
EXTENDS Agent, Reconciler

vars == <<mcu, images, st, staged, shost, host, pc, upd, no_flash, cand, had_current,
          report, burns, proven, rpc, rcand, rresult, trouble>>

\* A board as provisioned: the golden image is installed and running.
Init ==
  /\ AgentInit
  /\ mcu = Written(Whole(Golden))
  /\ images = [n \in Names |-> IF n = "golden" THEN Whole(Golden) ELSE Nothing]
  /\ Started

AgentPoll == rpc = "off" /\ (\E m \in Manifests : Poll(m)) /\ UNCHANGED rvars

AgentIdles == rpc = "off" /\ EmptyPoll /\ UNCHANGED rvars

AgentStep == rpc = "off" /\ CycleStep /\ UNCHANGED rvars

BootStep == ReconcileNext /\ UNCHANGED agentvars

\* The oneshot unit has finished, well or not: systemd starts the agent.
StartAgent ==
  /\ rpc = "done" /\ rpc' = "off" /\ rcand' = 1 /\ rresult' = Nothing /\ trouble' = {}
  /\ UNCHANGED <<agentvars, mcu, images>>

\* The process is killed, or an exception escapes run_once: several loads of
\* state.json are not guarded, so an unreadable one ends the cycle anywhere.
AgentDies ==
  /\ "crash" \in Faults /\ rpc = "off" /\ pc # "idle"
  /\ Dying /\ mcu' \in HalfWritten
  /\ UNCHANGED rvars

\* The target is reset with the board, so a halted core runs again.
PowerLoss ==
  /\ "power" \in Faults
  /\ Dying
  /\ \E m \in HalfWritten \cup
       (IF rpc = "try" /\ rcand <= Len(CANDIDATES)
          THEN IF Loadable(images[CANDIDATES[rcand]])
                 THEN Interrupted(mcu, images[CANDIDATES[rcand]]) ELSE {}
          ELSE {}) : mcu' = [m EXCEPT !.halted = FALSE]
  /\ rpc' = "initial" /\ rcand' = 1 /\ rresult' = Nothing /\ trouble' = {}

IdeUpload ==
  /\ "ide" \in Faults
  /\ mcu' = Written(Whole(Foreign))
  /\ UNCHANGED <<agentvars, images, rvars>>

StateLost ==
  /\ "state_loss" \in Faults
  /\ st' = DefaultState
  /\ UNCHANGED <<staged, shost, host, pc, upd, no_flash, cand, had_current, report,
                 burns, proven, mcu, images, rvars>>

Next == AgentPoll \/ AgentIdles \/ AgentStep \/ BootStep \/ StartAgent
        \/ AgentDies \/ PowerLoss \/ IdeUpload \/ StateLost

Spec == Init /\ [][Next]_vars

-----------------------------------------------------------------------------
\* The type of the whole board.
TypeOK == DeviceTypeOK /\ AgentTypeOK /\ ReconcilerTypeOK

\* DESIGN.md:304 "a persisted attempt counter (hard cap: 2)": over any number
\* of polls, crashes, power cuts and reboots, an update writes its version to
\* the flash no more often than attempts are on record, and never above the
\* cap.  Without it a version that always fails wears the flash out.  Writes
\* of a recovery image, by a rollback or at boot, are not attempts and are
\* not counted.
FlashBudget ==
  \A v \in Versions : burns[v] <= st.attempts[v] /\ st.attempts[v] <= MAX_ATTEMPTS

\* What the agent is about to write is what a trusted manifest for this board
\* describes, byte for byte, whatever the link delivered and however often
\* the cycle was interrupted before.
OnlyVerifiedIsFlashed ==
  pc = "flash" => upd.trusted /\ upd.fits /\ Loadable(staged) /\ staged = upd.sketch

\* The images recovery reaches for first have each run on this board and
\* passed their health check: no crash, drift or failed copy lets an unproven
\* image into current.bin or previous.bin.
CandidatesAreProven ==
  \A n \in {"current", "previous"} : images[n] # Nothing => images[n] \in proven

\* reconciler.py:1: "This is what makes bricking impossible."  On a board that
\* is updated, interrupted and cut off its power at any moment, over any
\* number of boots, a recovery whose link and disk held leaves live firmware
\* as long as the factory image is live, or whatever somebody's IDE put there.
NeverBricked ==
  (rpc = "done" /\ Golden \in Live /\ trouble \subseteq {"health"}) =>
    Alive(mcu) \/ mcu = Written(Whole(Foreign))

\* agent.py:3: "State is written before each hardware-touching transition":
\* while the agent writes the target, state.json says so.
WriteAhead ==
  /\ pc = "flash" => st.phase = "flashing" /\ st.attempts[upd.version] > 0
  /\ pc \in {"restore", "recheck"} => st.phase = "rolling_back" /\ upd.version \in st.poisoned

\* An unsigned manifest leaves no mark: no attempt, no watermark, nothing on
\* the target, and no poison that the attempt cap had not already decided
\* (a state.json that is lost at that moment takes everything with it).
UnsignedIsHarmless ==
  [][(upd # Nothing /\ ~upd.trusted /\ ~StateLost) =>
       /\ st'.attempts = st.attempts
       /\ st'.sequence = st.sequence
       /\ st'.last_verified_sequence = st.last_verified_sequence
       /\ st'.poisoned = st.poisoned \/ st.attempts[upd.version] >= MAX_ATTEMPTS
       /\ burns' = burns]_vars

\* ROLLED_BACK is never a wish: when it is reported the target runs live
\* firmware that is not the failed version.
RolledBackIsTrue ==
  [][(report' = "rolled_back" /\ report # "rolled_back") =>
       Alive(mcu) /\ mcu.flash.ver # upd.version]_vars

\* COMMITTED means that both halves agree: current.bin is the image the update
\* described, under its own version, and runs on the target (unless somebody
\* used the IDE in between); the live host tree is the one shipped with it.
CommitAgrees ==
  [][(report' = "committed" /\ report # "committed") =>
       /\ images["current"] = upd.sketch /\ images["current"].ver = upd.version
       /\ mcu = Written(images["current"]) \/ "ide" \in Faults
       /\ upd.host # Nothing => host.live = upd.host]_vars

\* The detailed machine keeps the promises of UpdateLedger.
Ledger == INSTANCE UpdateLedger WITH
  Budget <- MAX_ATTEMPTS, written <- burns, banned <- st.poisoned,
  committed <- st.committed_version, sequence <- st.sequence

KeepsLedger == Ledger!Spec

-----------------------------------------------------------------------------
(***************************************************************************)
(* Fairness: `unoq-ota run` polls in an endless loop and a cycle that has  *)
(* begun goes on unless the process dies; systemd runs the boot unit and   *)
(* then starts the agent.  A source that has an update does not hide it    *)
(* for ever.  Nothing is assumed of faults.                                *)
(***************************************************************************)
Fairness ==
  /\ WF_vars(AgentPoll) /\ WF_vars(AgentStep)
  /\ WF_vars(BootStep) /\ WF_vars(StartAgent)

FairSpec == Spec /\ Fairness

\* DESIGN.md:305-307 names what the cap and the poison list are for: without
\* them there is "an infinite flash-rollback-reoffer loop".  There is none:
\* however long the server keeps offering, and through any number of crashes
\* and power cuts, the agent's writes come to an end.
NoEndlessLoop == <>[](pc \notin {"flash", "restore", "recheck"})

\* Once crashes, power cuts and download failures stop, every version on
\* offer ends up committed or poisoned: no update is retried for ever and
\* none is forgotten.  This is of trusted manifests, on a board whose gates,
\* clock and disk do not hold updates back: an unsigned one stays neither.
Disturbance == AgentDies \/ PowerLoss \/ (pc \in {"download", "download_host"} /\ pc' = "abandon")

Settled == \A m \in Manifests :
             m.version \in st.poisoned \/ st.sequence >= m.sequence

EveryUpdateSettles == <>[][~Disturbance]_vars => <>Settled

-----------------------------------------------------------------------------
(* Statements of the documentation that the code does not keep.            *)

\* DESIGN.md:304-305: a version "lands on a poisoned list when it fails".
\* So the committed version, which passed its health check, is not on it.
CommittedIsNotPoisoned == st.committed_version \notin st.poisoned

\* DESIGN.md:449, repeated failures: "Stops trying, reports, stays on last
\* good".
StaysOnLastGood ==
  (pc = "idle" /\ rpc = "off" /\ report = "rejected" /\ st.phase = "rejected") => Alive(mcu)

=============================================================================
