-------------------------- MODULE Provenance_proofs --------------------------
(***************************************************************************)
(* What reaches the microcontroller and the recovery images, for every set *)
(* of versions and manifests and under every fault of the model, lost      *)
(* saves and a lost state.json included.                                   *)
(***************************************************************************)
EXTENDS UpdateSystem_proofs

(***************************************************************************)
(* The inductive invariant: verification's verdict stays true of the       *)
(* staged files until the commit; between the write and the health check   *)
(* the target holds the staged image or what the IDE put there; once the   *)
(* check has passed, the staged image is the version it claims to be.      *)
(***************************************************************************)
Vetting == {"verified", "gate", "attempt", "arm", "flash", "flashed", "health", "host",
            "commit", "commit_current", "commit_save"}
Signed == Vetting \cup {"condemn", "unstage", "stamp", "stamped", "rollback", "condemn_failed",
                        "restore", "recheck"}
Proving == {"flashed", "health"}
Passing == {"host", "commit", "commit_current", "commit_save"}
Committing == {"commit", "commit_current", "commit_save"}

Alone == rpc # "off" => pc = "idle"
Trusted == pc \in Signed => upd.trusted
Vetted == pc \in Vetting =>
            /\ upd.fits /\ Loadable(staged) /\ staged = upd.sketch
            /\ upd.host # Nothing => shost = upd.host
OnTarget == mcu = Written(staged) \/ ("ide" \in Faults /\ mcu = Written(Whole(Foreign)))
UnderTest == pc \in Proving => OnTarget
Passed == pc \in Passing => OnTarget /\ staged \in proven /\ staged.ver = upd.version
HostSwapped == pc \in Committing => (upd.host # Nothing => host.live = upd.host)
Kept == pc = "commit_save" => images["current"] = staged

ProvInv == /\ TypeOK /\ Alone /\ Trusted /\ Vetted /\ UnderTest /\ Passed /\ HostSwapped /\ Kept
           /\ CandidatesAreProven

-----------------------------------------------------------------------------
\* The steps before and after the vetted part of a cycle, and its end.
LEMMA OutsideSteps ==
  ASSUME ProvInv, TypeOK', UNCHANGED <<images, proven>>,
         pc' \notin Vetting, pc' \in Signed => pc \in Signed /\ upd' = upd,
         rpc' # "off" => pc' = "idle"
  PROVE  ProvInv'
<1>1. pc' \notin Proving /\ pc' \notin Passing /\ pc' \notin Committing /\ pc' # "commit_save"
  BY DEF Vetting, Proving, Passing, Committing
<1>2. Trusted'
  BY DEF ProvInv, Trusted
<1>3. CandidatesAreProven'
  BY DEF ProvInv, CandidatesAreProven
<1>4. QED
  BY <1>1, <1>2, <1>3 DEF ProvInv, Alone, Vetted, UnderTest, Passed, HostSwapped, Kept

\* The steps that move on inside it and touch only state.json and the report.
LEMMA InsideSteps ==
  ASSUME ProvInv, TypeOK', UNCHANGED <<images, proven, mcu, staged, shost, host, upd, rpc>>,
         pc # "idle", pc \in Vetting,
         pc' \in Proving => pc \in Proving, pc' \in Passing => pc \in Passing,
         pc' \in Committing => pc \in Committing, pc' # "commit_save"
  PROVE  ProvInv'
<1>1. Trusted' /\ Vetted'
  BY DEF ProvInv, Trusted, Vetted, Signed, Loadable
<1>2. CandidatesAreProven'
  BY DEF ProvInv, CandidatesAreProven
<1>3. Alone' /\ UnderTest' /\ Passed' /\ HostSwapped' /\ Kept'
  BY DEF ProvInv, Alone, UnderTest, Passed, HostSwapped, Kept, OnTarget
<1>4. QED
  BY <1>1, <1>2, <1>3 DEF ProvInv

LEMMA VerifyUpdateKeeps ==
  ASSUME ProvInv, TypeOK', VerifyUpdate, UNCHANGED rpc
  PROVE  ProvInv'
<1>1. /\ UNCHANGED <<images, proven, mcu, staged, shost, host, upd>>
      /\ rpc = "off"
  BY DEF VerifyUpdate, files, locals, history, ProvInv, Alone
<1>2. PICK verdict \in Verdicts(upd, staged, shost, st.sequence) :
        \/ verdict = "ok" /\ pc' \in {"unstage", "verified"}
        \/ verdict \in Poisonable /\ pc' = "condemn"
        \/ pc' = "abandon"
  BY DEF VerifyUpdate
<1>3. Trusted'
  BY <1>1, <1>2, VerdictIsSound DEF Trusted, Signed, Vetting
<1>4. Vetted'
  <2> SUFFICES ASSUME pc' \in Vetting PROVE Vetted'
    BY DEF Vetted
  <2>1. verdict = "ok"
    BY <1>2 DEF Vetting
  <2>2. upd.fits /\ Loadable(staged) /\ staged = upd.sketch /\ (upd.host # Nothing => shost = upd.host)
    BY <2>1, VerdictIsSound
  <2>3. QED
    BY <1>1, <2>2 DEF Vetted, Loadable
<1>5. CandidatesAreProven'
  BY <1>1 DEF ProvInv, CandidatesAreProven
<1>6. Alone' /\ UnderTest' /\ Passed' /\ HostSwapped' /\ Kept'
  BY <1>1, <1>2 DEF Alone, UnderTest, Passed, HostSwapped, Kept, Proving, Passing, Committing
<1>7. QED
  BY <1>3, <1>4, <1>5, <1>6 DEF ProvInv

\* A drift finding only ever drops current.bin.
LEMMA CheckDriftKeeps ==
  ASSUME ProvInv, TypeOK', CheckDrift, UNCHANGED rpc
  PROVE  ProvInv'
<1>1. /\ UNCHANGED <<proven, staged, shost, host, upd>> /\ rpc = "off"
      /\ pc = "gate" /\ pc' = "attempt"
  BY DEF CheckDrift, files, locals, history, ProvInv, Alone
<1>2. Trusted' /\ Vetted'
  BY <1>1 DEF ProvInv, Trusted, Vetted, Signed, Vetting, Loadable
<1>3. images \in [Names -> Images \cup {Nothing}] /\ "current" \in Names /\ "previous" \in Names
  BY DEF ProvInv, TypeOK, DeviceTypeOK, Names
<1>4. images' = images \/ images' = [images EXCEPT !["current"] = Nothing]
  BY DEF CheckDrift, Discard
<1>5. CandidatesAreProven'
  BY <1>1, <1>3, <1>4 DEF ProvInv, CandidatesAreProven
<1>6. Alone' /\ UnderTest' /\ Passed' /\ HostSwapped' /\ Kept'
  BY <1>1 DEF Alone, UnderTest, Passed, HostSwapped, Kept, Proving, Passing, Committing
<1>7. QED
  BY <1>2, <1>5, <1>6 DEF ProvInv
LEMMA FlashKeeps ==
  ASSUME ProvInv, TypeOK', Flash, UNCHANGED rpc
  PROVE  ProvInv'
<1>1. /\ UNCHANGED <<images, proven, staged, shost, host, upd>> /\ rpc = "off"
      /\ pc = "flash"
      /\ (mcu' = Written(staged) /\ pc' = "flashed") \/ pc' = "abandon"
  BY DEF Flash, files, locals, ProvInv, Alone
<1>2. Trusted' /\ Vetted'
  BY <1>1 DEF ProvInv, Trusted, Vetted, Signed, Vetting, Loadable
<1>3. CandidatesAreProven'
  BY <1>1 DEF ProvInv, CandidatesAreProven
<1>4. UnderTest'
  BY <1>1 DEF UnderTest, OnTarget, Proving, Written
<1>5. Alone' /\ Passed' /\ HostSwapped' /\ Kept'
  BY <1>1 DEF Alone, Passed, HostSwapped, Kept, Passing, Committing
<1>6. QED
  BY <1>2, <1>3, <1>4, <1>5 DEF ProvInv

\* The version asked for is what the target reports only if the staged image
\* is on it: the IDE's sketch reports another.
LEMMA CheckHealthKeeps ==
  ASSUME ProvInv, TypeOK', CheckHealth, UNCHANGED rpc
  PROVE  ProvInv'
<1>1. /\ UNCHANGED <<images, mcu, staged, shost, host, upd>> /\ rpc = "off" /\ pc = "health"
  BY DEF CheckHealth, files, locals, ProvInv, Alone
<1>2. PICK reported \in WaitAlive(mcu) :
        IF reported = upd.version
          THEN pc' = "host" /\ proven' = proven \cup {mcu.flash}
          ELSE pc' = "rollback" /\ UNCHANGED proven
  BY DEF CheckHealth
<1>3. upd \in Manifests /\ mcu \in Mcus /\ upd.version \in Versions
  BY <1>1, ManifestFields DEF ProvInv, TypeOK, AgentTypeOK, DeviceTypeOK
<1>4. upd.version # Nothing /\ upd.version # Foreign
  BY <1>3, NothingIsNoVersion, DeviceAssumption
<1>5. OnTarget
  BY <1>1 DEF ProvInv, UnderTest, Proving
<1>6. ASSUME reported = upd.version PROVE mcu.flash = staged /\ staged.ver = upd.version
  <2>1. mcu.flash.ver = upd.version
    BY <1>3, <1>4, <1>6, HealthIsHonest
  <2>2. mcu # Written(Whole(Foreign))
    BY <1>4, <2>1 DEF Written, Whole
  <2>3. mcu = Written(staged)
    BY <1>5, <2>2 DEF OnTarget
  <2>4. QED
    BY <2>1, <2>3 DEF Written
<1>7. Passed'
  BY <1>1, <1>2, <1>5, <1>6 DEF Passed, OnTarget, Passing
<1>8. Trusted' /\ Vetted'
  BY <1>1, <1>2 DEF ProvInv, Trusted, Vetted, Signed, Vetting, Loadable
<1>9. CandidatesAreProven'
  <2>1. proven \subseteq proven'
    BY <1>2
  <2>2. QED
    BY <1>1, <2>1 DEF ProvInv, CandidatesAreProven
<1>10. Alone' /\ UnderTest' /\ HostSwapped' /\ Kept'
  BY <1>1, <1>2 DEF Alone, UnderTest, HostSwapped, Kept, Proving, Committing
<1>11. QED
  BY <1>7, <1>8, <1>9, <1>10 DEF ProvInv

LEMMA ApplyHostKeeps ==
  ASSUME ProvInv, TypeOK', ApplyHost, UNCHANGED rpc
  PROVE  ProvInv'
<1>1. /\ UNCHANGED <<images, proven, mcu, staged, shost, upd>> /\ rpc = "off" /\ pc = "host"
      /\ pc' \in {"commit", "rollback"}
      /\ pc' = "commit" /\ upd.host # Nothing => host' = Swapped(host, shost)
  BY DEF ApplyHost, files, locals, history, ProvInv, Alone
<1>2. Trusted' /\ Vetted'
  BY <1>1 DEF ProvInv, Trusted, Vetted, Signed, Vetting, Loadable
<1>3. upd.host # Nothing => shost = upd.host
  BY <1>1 DEF ProvInv, Vetted, Vetting
<1>4. HostSwapped'
  BY <1>1, <1>3 DEF HostSwapped, Committing, Swapped
<1>5. CandidatesAreProven'
  BY <1>1 DEF ProvInv, CandidatesAreProven
<1>6. Alone' /\ UnderTest' /\ Passed' /\ Kept'
  BY <1>1 DEF ProvInv, Alone, UnderTest, Passed, Kept, Proving, Passing, OnTarget
<1>7. QED
  BY <1>2, <1>4, <1>5, <1>6 DEF ProvInv

\* The commit copies: previous.bin from current.bin, current.bin from staged.
LEMMA CopyingStepsKeep ==
  ASSUME ProvInv, TypeOK', KeepPrevious \/ ReplaceCurrent, UNCHANGED rpc
  PROVE  ProvInv'
<1>1. /\ UNCHANGED <<proven, mcu, staged, shost, host, upd>> /\ rpc = "off"
      /\ pc \in {"commit", "commit_current"}
      /\ pc' \in {"commit_current", "commit_save", "abandon"}
  BY DEF KeepPrevious, ReplaceCurrent, CopyFails, files, history, ProvInv, Alone
<1>2. images \in [Names -> Images \cup {Nothing}] /\ "current" \in Names /\ "previous" \in Names
  BY DEF ProvInv, TypeOK, DeviceTypeOK, Names
<1>3. \/ UNCHANGED images /\ pc' # "commit_save"
      \/ /\ images["current"] # Nothing /\ pc' # "commit_save"
         /\ images' = [images EXCEPT !["previous"] = images["current"]]
      \/ images' = [images EXCEPT !["current"] = staged]
  BY DEF KeepPrevious, ReplaceCurrent, CopyFails
<1>4. Trusted' /\ Vetted'
  BY <1>1 DEF ProvInv, Trusted, Vetted, Signed, Vetting, Loadable
<1>5. UnderTest' /\ Passed' /\ HostSwapped' /\ Alone'
  BY <1>1 DEF ProvInv, Alone, UnderTest, Passed, HostSwapped, Proving, Passing, Committing, OnTarget
<1>6. staged \in proven
  BY <1>1 DEF ProvInv, Passed, Passing
<1>7. CandidatesAreProven'
  BY <1>1, <1>2, <1>3, <1>6 DEF ProvInv, CandidatesAreProven
<1>8. Kept'
  BY <1>1, <1>2, <1>3 DEF Kept
<1>9. QED
  BY <1>4, <1>5, <1>7, <1>8 DEF ProvInv

\* The other steps of a cycle.
LEMMA OtherStepsKeep ==
  ASSUME ProvInv, TypeOK', UNCHANGED rpc,
         \/ Refuse \/ Refused \/ UpToDate \/ Defer \/ HoldFetch \/ BeginDownload \/ Download \/ DownloadHost
         \/ DownloadFails \/ Abandon \/ BeginVerify \/ Condemn \/ Unstage \/ Stamp \/ Stamped
         \/ Hold \/ Commit \/ BeginRollback \/ CondemnFailed \/ SkipImage \/ RestoreImage
         \/ Recheck \/ NothingRestored
  PROVE  ProvInv'
<1>0. pc # "idle" /\ UNCHANGED <<images, proven>>
  BY DEF Refuse, Refused, UpToDate, Defer, HoldFetch, BeginDownload, Download, DownloadHost, DownloadFails,
     Abandon, BeginVerify, Condemn, Unstage, Stamp, Stamped, Hold, Commit, BeginRollback,
     CondemnFailed, SkipImage, RestoreImage, Recheck, NothingRestored, Acceptable, history
<1>1. rpc' = "off"
  BY <1>0 DEF ProvInv, Alone
<1>2. CASE pc' = "idle"
  BY <1>0, <1>2, OutsideSteps DEF Vetting, Signed
<1>3. CASE Refuse \/ BeginDownload \/ Download \/ DownloadHost \/ DownloadFails \/ BeginVerify \/ Condemn
  <2>1. pc' \in {"refused", "download", "download_host", "downloaded", "abandon", "verify"}
    BY <1>3 DEF Refuse, BeginDownload, Download, DownloadHost, DownloadFails, BeginVerify, Condemn, Enter
  <2>2. QED
    BY <1>0, <1>1, <2>1, OutsideSteps DEF Vetting, Signed
<1>4. CASE (Unstage /\ pc' = "stamp") \/ (Stamp /\ pc' = "stamped") \/ BeginRollback \/ CondemnFailed
           \/ SkipImage \/ RestoreImage
  <2>1. /\ pc \in {"unstage", "stamp", "rollback", "condemn_failed", "restore"}
        /\ pc' \in {"stamp", "stamped", "condemn_failed", "restore", "recheck"}
    BY <1>4 DEF Unstage, Stamp, BeginRollback, CondemnFailed, SkipImage, RestoreImage, Enter, TryNext
  <2>2. upd' = upd
    BY <1>4, <2>1 DEF Unstage, Stamp, Return, BeginRollback, CondemnFailed, SkipImage, RestoreImage,
       TryNext, locals
  <2>3. QED
    BY <1>0, <1>1, <2>1, <2>2, OutsideSteps DEF Vetting, Signed
<1>5. CASE Recheck /\ pc' # "idle"
  <2>1. pc = "recheck" /\ pc' = "restore" /\ upd' = upd
    BY <1>5 DEF Recheck, End, Return, TryNext
  <2>2. QED
    BY <1>0, <1>1, <2>1, OutsideSteps DEF Vetting, Signed
<1>6. Refused \/ UpToDate \/ Defer \/ HoldFetch \/ Abandon \/ Stamped \/ Hold \/ Commit \/ NothingRestored => pc' = "idle"
  BY DEF Refused, UpToDate, Defer, HoldFetch, Abandon, Stamped, Hold, Commit, NothingRestored, End, Return
<1>7. (Unstage => pc' \in {"idle", "stamp"}) /\ (Stamp => pc' \in {"idle", "stamped"})
  BY DEF Unstage, Stamp, Return
<1>8. QED
  BY <1>2, <1>3, <1>4, <1>5, <1>6, <1>7

LEMMA PhaseStepsKeep ==
  ASSUME ProvInv, TypeOK', UNCHANGED rpc, Stage \/ RecordFlashAttempt \/ Arm \/ BeginHealth
  PROVE  ProvInv'
<1>1. /\ UNCHANGED <<images, proven, mcu, staged, shost, host, upd>>
      /\ \/ pc \in {"verified", "attempt", "arm"} /\ pc' \in {"gate", "arm", "flash"}
         \/ pc = "flashed" /\ pc' = "health"
  BY DEF Stage, RecordFlashAttempt, Arm, BeginHealth, Enter, files, locals, history
<1>2. QED
  BY <1>1, InsideSteps DEF Vetting, Proving, Passing, Committing

LEMMA CycleKeepsProvenance ==
  ASSUME ProvInv, TypeOK', UNCHANGED rpc, CycleStep
  PROVE  ProvInv'
BY OtherStepsKeep, PhaseStepsKeep, VerifyUpdateKeeps, CheckDriftKeeps, FlashKeeps, CheckHealthKeeps,
   ApplyHostKeeps, CopyingStepsKeep DEF CycleStep

LEMMA BoardKeepsProvenance == ProvInv /\ [Next]_vars => ProvInv'
<1> SUFFICES ASSUME ProvInv, [Next]_vars PROVE ProvInv'
  OBVIOUS
<1>0. TypeOK'
  <2>1. CASE Next
    BY <2>1, BoardStepIsTyped DEF ProvInv
  <2>2. CASE UNCHANGED vars
    BY <2>2 DEF ProvInv, vars, TypeOK, DeviceTypeOK, AgentTypeOK, ReconcilerTypeOK
  <2>3. QED
    BY <2>1, <2>2
<1>1. CASE AgentPoll
  <2>1. pc' = "screen" /\ UNCHANGED <<images, proven, rpc>> /\ rpc = "off"
    BY <1>1 DEF AgentPoll, Poll, history, rvars
  <2>2. QED
    BY <1>0, <2>1, OutsideSteps DEF Vetting, Signed
<1>2. CASE AgentStep
  BY <1>0, <1>2, CycleKeepsProvenance DEF AgentStep, rvars
<1>3. CASE BootStep
  <2>1. rpc # "off"
    BY <1>3 DEF BootStep, ReconcileNext, InitialCheck, SkipCandidate, FlashCandidate, CheckCandidate,
       Exhausted
  <2>2. pc' = "idle" /\ UNCHANGED proven
    BY <1>3, <2>1 DEF BootStep, agentvars, ProvInv, Alone
  <2>3. UNCHANGED images
    BY <1>3 DEF BootStep, ReconcileNext, InitialCheck, SkipCandidate, FlashCandidate, CheckCandidate,
       Exhausted
  <2>4. QED
    BY <1>0, <2>2, <2>3, OutsideSteps DEF Vetting, Signed
<1>4. CASE StartAgent
  <2>1. pc' = "idle" /\ UNCHANGED <<images, proven>>
    BY <1>4 DEF StartAgent, agentvars, ProvInv, Alone
  <2>2. QED
    BY <1>0, <2>1, OutsideSteps DEF Vetting, Signed
<1>5. CASE AgentDies \/ PowerLoss
  <2>1. pc' = "idle" /\ UNCHANGED <<images, proven>>
    BY <1>5 DEF AgentDies, PowerLoss, Dying, Return
  <2>2. QED
    BY <1>0, <2>1, OutsideSteps DEF Vetting, Signed
<1>6. CASE IdeUpload
  <2>1. /\ UNCHANGED <<images, proven, staged, shost, host, upd, pc, rpc>>
        /\ "ide" \in Faults /\ mcu' = Written(Whole(Foreign))
    BY <1>6 DEF IdeUpload, agentvars, rvars
  <2>2. OnTarget'
    BY <2>1 DEF OnTarget, Written
  <2>3. UnderTest' /\ Passed'
    BY <2>1, <2>2 DEF ProvInv, UnderTest, Passed
  <2>4. Alone' /\ Trusted' /\ Vetted' /\ HostSwapped' /\ Kept'
    BY <2>1 DEF ProvInv, Alone, Trusted, Vetted, HostSwapped, Kept, Loadable
  <2>5. CandidatesAreProven'
    BY <2>1 DEF ProvInv, CandidatesAreProven
  <2>6. QED
    BY <1>0, <2>3, <2>4, <2>5 DEF ProvInv
<1>7. CASE AgentIdles \/ StateLost \/ UNCHANGED vars
  <2>1. UNCHANGED <<images, mcu, proven, staged, shost, host, upd, pc, rpc>>
    BY <1>7 DEF AgentIdles, EmptyPoll, files, locals, history, StateLost, rvars, vars
  <2>2. Alone' /\ Trusted' /\ Vetted' /\ HostSwapped' /\ Kept' /\ UnderTest' /\ Passed'
    BY <2>1 DEF ProvInv, Alone, Trusted, Vetted, HostSwapped, Kept, Loadable, UnderTest, Passed, OnTarget
  <2>3. CandidatesAreProven'
    BY <2>1 DEF ProvInv, CandidatesAreProven
  <2>4. QED
    BY <1>0, <2>2, <2>3 DEF ProvInv
<1>8. QED
  BY <1>1, <1>2, <1>3, <1>4, <1>5, <1>6, <1>7 DEF Next

LEMMA ProvenanceInit == Init => ProvInv
<1> SUFFICES ASSUME Init PROVE ProvInv
  OBVIOUS
<1>1. TypeOK
  BY BoardInitIsTyped
<1>2. pc = "idle" /\ images["current"] = Nothing /\ images["previous"] = Nothing
  BY DEF Init, AgentInit, Names
<1>3. QED
  BY <1>1, <1>2 DEF ProvInv, Alone, Trusted, Vetted, HostSwapped, Kept, UnderTest, Passed,
     CandidatesAreProven, Vetting, Signed, Proving, Passing, Committing

LEMMA ProvenanceHolds == Spec => []ProvInv
BY ProvenanceInit, BoardKeepsProvenance, PTL DEF Spec

\* What the agent writes to the microcontroller is what a trusted manifest
\* for this board describes, whatever the link delivered and the store lost.
THEOREM FlashedIsVerified == Spec => []OnlyVerifiedIsFlashed
<1>1. ProvInv => OnlyVerifiedIsFlashed
  BY DEF ProvInv, Trusted, Vetted, Signed, Vetting, OnlyVerifiedIsFlashed
<1>2. QED
  BY <1>1, ProvenanceHolds, PTL

\* Nothing enters current.bin or previous.bin that has not run on this board
\* and reported its version.
THEOREM RecoveryImagesAreProven == Spec => []CandidatesAreProven
<1>1. ProvInv => CandidatesAreProven
  BY DEF ProvInv
<1>2. QED
  BY <1>1, ProvenanceHolds, PTL
-----------------------------------------------------------------------------
\* A step that changes the report is the agent's: nobody else writes it.
LEMMA ReportersAre ==
  ASSUME [Next]_vars, report' # report, report' # Nothing
  PROVE  CycleStep
<1>1. report' = report \/ report' = Nothing \/ CycleStep
  BY DEF Next, vars, AgentPoll, Poll, AgentIdles, EmptyPoll, AgentStep, BootStep, StartAgent, AgentDies, PowerLoss, Dying,
     IdeUpload, StateLost, agentvars
<1>2. QED
  BY <1>1

LEMMA CommitReports ==
  ASSUME CycleStep, report' # report, report' = "committed"
  PROVE  Commit
BY DEF CycleStep, Refuse, Refused, UpToDate, Defer, HoldFetch, BeginDownload, Download, DownloadHost,
   DownloadFails, Abandon, BeginVerify, VerifyUpdate, Condemn, Unstage, Stamp, Stamped, Stage, Hold,
   CheckDrift, RecordFlashAttempt, Arm, Flash, BeginHealth, CheckHealth, ApplyHost, KeepPrevious,
   ReplaceCurrent, BeginRollback, CondemnFailed, SkipImage, RestoreImage, Recheck, NothingRestored, End

LEMMA RollbackReports ==
  ASSUME CycleStep, report' # report, report' = "rolled_back"
  PROVE  Recheck
BY DEF CycleStep, Refuse, Refused, UpToDate, Defer, HoldFetch, BeginDownload, Download, DownloadHost,
   DownloadFails, Abandon, BeginVerify, VerifyUpdate, Condemn, Unstage, Stamp, Stamped, Stage, Hold,
   CheckDrift, RecordFlashAttempt, Arm, Flash, BeginHealth, CheckHealth, ApplyHost, KeepPrevious,
   ReplaceCurrent, Commit, BeginRollback, CondemnFailed, SkipImage, RestoreImage, NothingRestored, End

\* A COMMITTED report is true of both halves of the update.
THEOREM CommitsAgree == Spec => CommitAgrees
<1>1. ProvInv /\ [Next]_vars =>
        [(report' = "committed" /\ report # "committed") =>
           /\ images["current"] = upd.sketch /\ images["current"].ver = upd.version
           /\ mcu = Written(images["current"]) \/ "ide" \in Faults
           /\ upd.host # Nothing => host.live = upd.host]_vars
  <2> SUFFICES ASSUME ProvInv, [Next]_vars, report' = "committed", report # "committed"
               PROVE  /\ images["current"] = upd.sketch /\ images["current"].ver = upd.version
                      /\ mcu = Written(images["current"]) \/ "ide" \in Faults
                      /\ upd.host # Nothing => host.live = upd.host
    OBVIOUS
  <2>1. pc = "commit_save"
    <3>1. "committed" # Nothing
      BY NothingIsNoStatus DEF Status
    <3>2. QED
      BY <3>1, ReportersAre, CommitReports DEF Commit
  <2>2. QED
    BY <2>1 DEF ProvInv, Vetted, Vetting, Passed, Passing, OnTarget, HostSwapped, Committing, Kept
<1>2. QED
  BY <1>1, ProvenanceHolds, PTL DEF Spec, CommitAgrees
\* A ROLLED_BACK report is true of the target.
THEOREM RollbacksAreTrue == Spec => RolledBackIsTrue
<1>1. ProvInv /\ [Next]_vars =>
        [(report' = "rolled_back" /\ report # "rolled_back") =>
           Alive(mcu) /\ mcu.flash.ver # upd.version]_vars
  <2> SUFFICES ASSUME ProvInv, [Next]_vars, report' = "rolled_back", report # "rolled_back"
               PROVE  Alive(mcu) /\ mcu.flash.ver # upd.version
    OBVIOUS
  <2>1. Recheck
    <3>1. "rolled_back" # Nothing
      BY NothingIsNoStatus DEF Status
    <3>2. QED
      BY <3>1, ReportersAre, RollbackReports
  <2>2. PICK reported \in WaitAlive(mcu) : Restored(reported)
    BY <2>1 DEF Recheck
  <2>3. mcu \in Mcus
    BY DEF ProvInv, TypeOK, DeviceTypeOK
  <2>4. QED
    BY <2>2, <2>3, HealthIsHonest DEF Restored
<1>2. QED
  BY <1>1, ProvenanceHolds, PTL DEF Spec, RolledBackIsTrue

\* The fields of state.json that bear witness against a version.
SameRecord == /\ st'.attempts = st.attempts /\ st'.poisoned = st.poisoned
              /\ st'.sequence = st.sequence
              /\ st'.last_verified_sequence = st.last_verified_sequence

LEMMA PhaseLeavesRecord ==
  ASSUME st \in State, NEW p, Persist(SetPhase(st, p))
  PROVE  SameRecord
<1>1. CASE st' = st
  BY <1>1 DEF SameRecord
<1>2. CASE st' = SetPhase(st, p)
  BY <1>2 DEF SameRecord, SetPhase, State
<1>3. QED
  BY <1>1, <1>2 DEF Persist

\* Before a signature is checked only the screen writes to the record, and
\* it poisons only what is poisoned or has used up its attempts.
LEMMA UnsignedStep ==
  ASSUME ProvInv, Next, ~upd.trusted, ~StateLost
  PROVE  /\ burns' = burns
         /\ SameRecord \/ (Refuse /\ Persist(Poison(st, upd.version)))
<1>0. st \in State
  BY DEF ProvInv, TypeOK, AgentTypeOK
<1>1. pc \notin Signed
  BY DEF ProvInv, Trusted
<1>2. CASE AgentPoll \/ AgentIdles \/ BootStep \/ StartAgent \/ IdeUpload
  BY <1>2 DEF AgentPoll, Poll, AgentIdles, EmptyPoll, BootStep, StartAgent, IdeUpload, agentvars, history, SameRecord
<1>3. CASE AgentDies \/ PowerLoss
  BY <1>1, <1>3 DEF AgentDies, PowerLoss, Dying, SameRecord, Signed, Vetting
<1>4. CASE CycleStep
  <2>1. \/ Refuse \/ Refused \/ UpToDate \/ Defer \/ HoldFetch \/ BeginDownload \/ Download \/ DownloadHost
        \/ DownloadFails \/ Abandon \/ BeginVerify \/ VerifyUpdate
    BY <1>1, <1>4 DEF CycleStep, Condemn, Unstage, Stamp, Stamped, Stage, Hold, CheckDrift,
       RecordFlashAttempt, Arm, Flash, BeginHealth, CheckHealth, ApplyHost, KeepPrevious,
       ReplaceCurrent, Commit, BeginRollback, CondemnFailed, SkipImage, RestoreImage, Recheck,
       NothingRestored, Signed, Vetting
  <2>2. burns' = burns
    BY <2>1 DEF Refuse, Refused, UpToDate, Defer, HoldFetch, BeginDownload, Download, DownloadHost,
       DownloadFails, Abandon, BeginVerify, VerifyUpdate, history
  <2>3. CASE Refuse
    BY <2>2, <2>3 DEF Refuse
  <2>4. CASE UpToDate \/ Download \/ DownloadHost \/ DownloadFails
    BY <2>2, <2>4 DEF UpToDate, Download, DownloadHost, DownloadFails, SameRecord
  <2>5. CASE Refused \/ Defer \/ HoldFetch \/ Abandon \/ BeginDownload \/ BeginVerify
    BY <1>0, <2>2, <2>5, PhaseLeavesRecord DEF Refused, Defer, HoldFetch, Abandon, BeginDownload, BeginVerify,
       End, Enter
  <2>6. CASE VerifyUpdate
    <3>1. UNCHANGED st \/ \E verdict \in Verdicts(upd, staged, shost, st.sequence) : verdict \in Poisonable
      BY <2>6 DEF VerifyUpdate
    <3>2. UNCHANGED st
      BY <3>1, VerdictIsSound
    <3>3. QED
      BY <2>2, <3>2 DEF SameRecord
  <2>7. QED
    BY <2>1, <2>3, <2>4, <2>5, <2>6
<1>5. QED
  BY <1>2, <1>3, <1>4 DEF Next, AgentStep

\* A manifest nobody trusted signed leaves no mark on the record.
THEOREM UnsignedLeavesNoMark == Spec => UnsignedIsHarmless
<1>1. ProvInv /\ [Next]_vars =>
        [(upd # Nothing /\ ~upd.trusted /\ ~StateLost) =>
           /\ st'.attempts = st.attempts
           /\ st'.sequence = st.sequence
           /\ st'.last_verified_sequence = st.last_verified_sequence
           /\ st'.poisoned = st.poisoned \/ st.attempts[upd.version] >= MAX_ATTEMPTS
           /\ burns' = burns]_vars
  <2> SUFFICES ASSUME ProvInv, Next, ~upd.trusted, ~StateLost
               PROVE  /\ st'.attempts = st.attempts
                      /\ st'.sequence = st.sequence
                      /\ st'.last_verified_sequence = st.last_verified_sequence
                      /\ st'.poisoned = st.poisoned \/ st.attempts[upd.version] >= MAX_ATTEMPTS
                      /\ burns' = burns
    OBVIOUS
  <2>1. CASE SameRecord
    BY <2>1, UnsignedStep DEF SameRecord
  <2>2. CASE Refuse /\ Persist(Poison(st, upd.version))
    <3>1. st \in State
      BY DEF ProvInv, TypeOK, AgentTypeOK
    <3>2. /\ Poison(st, upd.version).attempts = st.attempts
          /\ Poison(st, upd.version).sequence = st.sequence
          /\ Poison(st, upd.version).last_verified_sequence = st.last_verified_sequence
          /\ Poison(st, upd.version).poisoned = st.poisoned \cup {upd.version}
      BY <3>1 DEF Poison, State
    <3>3. upd.version \in st.poisoned \/ st.attempts[upd.version] >= MAX_ATTEMPTS
      BY <2>2 DEF Refuse, Refusable, IsPoisoned, AttemptsFor
    <3>4. st' = st \/ st' = Poison(st, upd.version)
      BY <2>2 DEF Persist
    <3>5. burns' = burns
      BY UnsignedStep
    <3>6. QED
      BY <3>2, <3>3, <3>4, <3>5
  <2>3. QED
    BY <2>1, <2>2, UnsignedStep
<1>2. QED
  BY <1>1, ProvenanceHolds, PTL DEF Spec, UnsignedIsHarmless
=============================================================================
