---------------------------- MODULE Ledger_proofs ----------------------------
(***************************************************************************)
(* The attempt cap, the poison list and the write-ahead rule, for every    *)
(* set of versions and manifests and through crashes, power cuts and       *)
(* failures of every kind but one: state.json itself keeps what is saved   *)
(* in it.                                                                  *)
(***************************************************************************)
EXTENDS UpdateSystem_proofs

\* No save is lost and state.json is never unreadable.
SavesHold == "store" \notin Faults /\ "state_loss" \notin Faults

(***************************************************************************)
(* The inductive invariant.  A version that has passed the screen stays    *)
(* acceptable until it is condemned or committed; an attempt is still to   *)
(* be had until it is recorded, and recorded but not used until the write. *)
(***************************************************************************)
Pending == {"download", "download_host", "downloaded", "verify", "unstage", "stamp", "stamped",
            "verified", "gate", "attempt", "arm", "flash", "flashed", "health", "host",
            "commit", "commit_current", "commit_save"}
Unspent == {"download", "download_host", "downloaded", "verify", "verified", "gate", "attempt"}
Flashed == {"flashed", "health", "host", "commit", "commit_current", "commit_save"}
RollingBack == {"condemn_failed", "restore", "recheck"}

Fresh == pc \in Pending => upd.version \notin st.poisoned /\ st.sequence < upd.sequence
Spare == pc \in Unspent => st.attempts[upd.version] < MAX_ATTEMPTS
Armed == pc \in {"arm", "flash"} => burns[upd.version] < st.attempts[upd.version]
Burned == pc \in Flashed => burns[upd.version] > 0
Phased == /\ pc = "flash" => st.phase = "flashing"
          /\ pc \in RollingBack => st.phase = "rolling_back"
          /\ pc \in {"restore", "recheck"} => upd.version \in st.poisoned

LedgerInv == TypeOK /\ FlashBudget /\ Fresh /\ Spare /\ Armed /\ Burned /\ Phased

-----------------------------------------------------------------------------
\* With saves that hold, Persist is an assignment.
LEMMA PersistSaves ==
  ASSUME SavesHold, NEW s, Persist(s)
  PROVE  st' = s
BY DEF SavesHold, Persist

LEMMA PhaseFields ==
  ASSUME NEW s \in State, NEW p
  PROVE  /\ SetPhase(s, p).attempts = s.attempts
         /\ SetPhase(s, p).poisoned = s.poisoned
         /\ SetPhase(s, p).sequence = s.sequence
         /\ SetPhase(s, p).committed_version = s.committed_version
         /\ SetPhase(s, p).phase = p
BY DEF State, SetPhase

LEMMA PoisonFields ==
  ASSUME NEW s \in State, NEW v
  PROVE  /\ Poison(s, v).attempts = s.attempts
         /\ Poison(s, v).poisoned = s.poisoned \cup {v}
         /\ Poison(s, v).sequence = s.sequence
         /\ Poison(s, v).committed_version = s.committed_version
         /\ Poison(s, v).phase = s.phase
BY DEF State, Poison

LEMMA AttemptFields ==
  ASSUME NEW s \in State, NEW v \in Versions
  PROVE  /\ RecordAttempt(s, v).attempts = [s.attempts EXCEPT ![v] = s.attempts[v] + 1]
         /\ RecordAttempt(s, v).poisoned = s.poisoned
         /\ RecordAttempt(s, v).sequence = s.sequence
         /\ RecordAttempt(s, v).committed_version = s.committed_version
         /\ RecordAttempt(s, v).phase = s.phase
BY DEF State, RecordAttempt

\* The step leaves the ledger and the attempts alone.
Kept == /\ st'.attempts = st.attempts /\ st'.poisoned = st.poisoned
        /\ st'.sequence = st.sequence /\ st'.committed_version = st.committed_version
        /\ burns' = burns

\* What every step has to show.
StepIsSound == LedgerInv' /\ [Ledger!Next]_(Ledger!ledger)

LEMMA KeptIsStutter == Kept => [Ledger!Next]_(Ledger!ledger)
BY DEF Kept, Ledger!ledger

\* A step that keeps the ledger and ends the cycle, or moves on in it without
\* claiming more than held before.
LEMMA QuietEnd ==
  ASSUME LedgerInv, TypeOK', Kept, pc' = "idle"
  PROVE  StepIsSound
<1>1. FlashBudget'
  BY DEF LedgerInv, FlashBudget, Kept
<1>2. QED
  BY <1>1, KeptIsStutter DEF StepIsSound, LedgerInv, Fresh, Spare, Armed, Burned, Phased, Pending,
     Unspent, Flashed, RollingBack

LEMMA QuietStep ==
  ASSUME LedgerInv, TypeOK', Kept, UNCHANGED upd,
         pc' \in Pending => pc \in Pending,
         pc' \in Unspent => pc \in Unspent,
         pc' \in Flashed => pc \in Flashed,
         pc' \in {"arm", "flash"} => pc \in {"arm", "flash"},
         pc' = "flash" => st'.phase = "flashing",
         pc' \in RollingBack => st'.phase = "rolling_back",
         pc' \in {"restore", "recheck"} => pc \in {"restore", "recheck"}
  PROVE  StepIsSound
<1>1. FlashBudget'
  BY DEF LedgerInv, FlashBudget, Kept
<1>2. Fresh' /\ Spare' /\ Armed' /\ Burned' /\ Phased'
  BY DEF LedgerInv, Fresh, Spare, Armed, Burned, Phased, Kept
<1>3. QED
  BY <1>1, <1>2, KeptIsStutter DEF StepIsSound, LedgerInv
-----------------------------------------------------------------------------
\* A cycle's last step, when it records a phase.
LEMMA EndKeeps ==
  ASSUME SavesHold, LedgerInv, TypeOK', NEW status, NEW phase, End(status, phase), burns' = burns
  PROVE  StepIsSound
<1>1. st' = SetPhase(st, phase) /\ pc' = "idle"
  BY PersistSaves DEF End, Return
<1>2. Kept
  BY <1>1, PhaseFields DEF Kept, LedgerInv, TypeOK, AgentTypeOK
<1>3. QED
  BY <1>1, <1>2, QuietEnd

LEMMA EndingStepsKeep ==
  ASSUME SavesHold, LedgerInv, TypeOK',
         Refused \/ UpToDate \/ Defer \/ HoldFetch \/ Abandon \/ Stamped \/ Hold \/ NothingRestored
  PROVE  StepIsSound
<1>1. CASE UpToDate \/ Hold
  <2>1. Kept /\ pc' = "idle"
    BY <1>1 DEF UpToDate, Hold, Return, Kept, history
  <2>2. QED
    BY <2>1, QuietEnd
<1>2. CASE Refused \/ Defer \/ HoldFetch \/ Abandon \/ Stamped \/ NothingRestored
  BY <1>2, EndKeeps DEF Refused, Defer, HoldFetch, Abandon, Stamped, NothingRestored, history
<1>3. QED
  BY <1>1, <1>2

\* A phase recorded on the way.
LEMMA EnterKeeps ==
  ASSUME SavesHold, LedgerInv, NEW phase, NEW next, Enter(phase, next), UNCHANGED history
  PROVE  Kept /\ st'.phase = phase /\ pc' = next
<1>1. st' = SetPhase(st, phase) /\ pc' = next
  BY PersistSaves DEF Enter
<1>2. QED
  BY <1>1, PhaseFields DEF Kept, LedgerInv, TypeOK, AgentTypeOK, history

\* The version passes the screen: it has an attempt left and is newer.
LEMMA BeginDownloadKeeps ==
  ASSUME SavesHold, LedgerInv, TypeOK', BeginDownload
  PROVE  StepIsSound
<1>1. Kept /\ pc' = "download" /\ UNCHANGED upd
  BY EnterKeeps DEF BeginDownload, locals
<1>2. st \in State /\ upd \in Manifests
  BY DEF BeginDownload, Acceptable, LedgerInv, TypeOK, AgentTypeOK
<1>3. upd.version \in Versions /\ upd.sequence \in Nat
  BY <1>2, ManifestFields
<1>4. st.attempts[upd.version] < MAX_ATTEMPTS /\ upd.version \notin st.poisoned
  BY <1>2, <1>3 DEF BeginDownload, Acceptable, Refusable, IsPoisoned, AttemptsFor, MAX_ATTEMPTS, State
<1>5. st.sequence < upd.sequence
  BY <1>2, <1>3 DEF BeginDownload, Acceptable, Watermark, State
<1>6. FlashBudget'
  BY <1>1 DEF LedgerInv, FlashBudget, Kept
<1>7. Fresh' /\ Spare' /\ Armed' /\ Burned' /\ Phased'
  BY <1>1, <1>4, <1>5 DEF Fresh, Spare, Armed, Burned, Phased, Kept, Flashed, RollingBack
<1>8. QED
  BY <1>1, <1>6, <1>7, KeptIsStutter DEF StepIsSound, LedgerInv

LEMMA EnteringStepsKeep ==
  ASSUME SavesHold, LedgerInv, TypeOK', BeginVerify \/ Stage \/ Arm \/ BeginHealth \/ BeginRollback
  PROVE  StepIsSound
<1> USE DEF Pending, Unspent, Flashed, RollingBack
<1>1. CASE BeginVerify
  <2>1. Kept /\ pc' = "verify" /\ pc = "downloaded" /\ UNCHANGED upd
    BY <1>1, EnterKeeps DEF BeginVerify, locals
  <2>2. QED
    BY <2>1, QuietStep
<1>2. CASE Stage
  <2>1. Kept /\ pc' = "gate" /\ pc = "verified" /\ UNCHANGED upd
    BY <1>2, EnterKeeps DEF Stage, locals
  <2>2. QED
    BY <2>1, QuietStep
<1>3. CASE Arm
  <2>1. Kept /\ st'.phase = "flashing" /\ pc' = "flash" /\ pc = "arm" /\ UNCHANGED upd
    BY <1>3, EnterKeeps DEF Arm, locals
  <2>2. QED
    BY <2>1, QuietStep
<1>4. CASE BeginHealth
  <2>1. Kept /\ pc' = "health" /\ pc = "flashed" /\ UNCHANGED upd
    BY <1>4, EnterKeeps DEF BeginHealth, locals
  <2>2. QED
    BY <2>1, QuietStep
<1>5. CASE BeginRollback
  <2>1. Kept /\ st'.phase = "rolling_back" /\ pc' = "condemn_failed" /\ UNCHANGED upd
    BY <1>5, EnterKeeps DEF BeginRollback, locals
  <2>2. QED
    BY <2>1, QuietStep
<1>6. QED
  BY <1>1, <1>2, <1>3, <1>4, <1>5

\* The steps that leave state.json alone.
LEMMA SilentStepsKeep ==
  ASSUME SavesHold, LedgerInv, TypeOK',
         \/ Download \/ DownloadHost \/ DownloadFails \/ Unstage \/ CheckDrift
         \/ CheckHealth \/ ApplyHost \/ KeepPrevious \/ ReplaceCurrent
         \/ SkipImage \/ RestoreImage
  PROVE  StepIsSound
<1> USE DEF Pending, Unspent, Flashed, RollingBack
<1>1. UNCHANGED <<st, upd>> /\ burns' = burns
  BY DEF Download, DownloadHost, DownloadFails, Unstage, UnlinkFails, SavesHold, CheckDrift,
     CheckHealth, ApplyHost,
     KeepPrevious, ReplaceCurrent, SkipImage, RestoreImage, TryNext, locals, history
<1>2. Kept
  BY <1>1 DEF Kept
<1>3. CASE Download \/ DownloadHost \/ DownloadFails
  <2>1. /\ pc \in {"download", "download_host"}
        /\ pc' \in {"download_host", "downloaded", "abandon"}
    BY <1>3 DEF Download, DownloadHost, DownloadFails
  <2>2. QED
    BY <1>1, <1>2, <2>1, QuietStep
<1>4. CASE Unstage \/ CheckDrift
  <2>1. (pc = "unstage" /\ pc' = "stamp") \/ (pc = "gate" /\ pc' = "attempt")
    BY <1>4 DEF Unstage, UnlinkFails, SavesHold, CheckDrift
  <2>2. QED
    BY <1>1, <1>2, <2>1, QuietStep
<1>5. CASE CheckHealth \/ ApplyHost
  <2>1. pc \in {"health", "host"} /\ pc' \in {"host", "rollback", "commit"}
    BY <1>5 DEF CheckHealth, ApplyHost
  <2>2. QED
    BY <1>1, <1>2, <2>1, QuietStep
<1>6. CASE KeepPrevious \/ ReplaceCurrent
  <2>1. pc \in {"commit", "commit_current"} /\ pc' \in {"commit_current", "commit_save", "abandon"}
    BY <1>6 DEF KeepPrevious, ReplaceCurrent, CopyFails
  <2>2. QED
    BY <1>1, <1>2, <2>1, QuietStep
<1>7. CASE SkipImage \/ RestoreImage
  <2>1. pc = "restore" /\ pc' \in {"restore", "recheck"}
    BY <1>7 DEF SkipImage, RestoreImage, TryNext
  <2>2. st'.phase = "rolling_back"
    BY <1>1, <2>1 DEF LedgerInv, Phased
  <2>3. QED
    BY <1>1, <1>2, <2>1, <2>2, QuietStep
<1>8. QED
  BY <1>3, <1>4, <1>5, <1>6, <1>7
-----------------------------------------------------------------------------
\* A version is banned: by the screen, by verification or by a failed update.
LEMMA PoisoningStepsKeep ==
  ASSUME SavesHold, LedgerInv, TypeOK', Refuse \/ Condemn \/ CondemnFailed
  PROVE  StepIsSound
<1>1. /\ st' = Poison(st, upd.version) /\ UNCHANGED upd /\ burns' = burns
      /\ pc \in {"screen", "condemn", "condemn_failed"}
      /\ pc' \in {"refused", "restore"} /\ (pc' = "restore" => pc = "condemn_failed")
  BY PersistSaves DEF Refuse, Condemn, CondemnFailed, locals, history
<1>2. st \in State /\ upd \in Manifests
  BY <1>1 DEF LedgerInv, TypeOK, AgentTypeOK
<1>3. upd.version \in Versions
  BY <1>2, ManifestFields
<1>4. /\ st'.attempts = st.attempts /\ st'.poisoned = st.poisoned \cup {upd.version}
      /\ st'.sequence = st.sequence /\ st'.committed_version = st.committed_version
      /\ st'.phase = st.phase
  BY <1>1, <1>2, PoisonFields
<1>5. FlashBudget'
  BY <1>1, <1>4 DEF LedgerInv, FlashBudget
<1>6. Fresh' /\ Spare' /\ Armed' /\ Burned' /\ Phased'
  BY <1>1, <1>4 DEF LedgerInv, Fresh, Spare, Armed, Burned, Phased, Pending, Unspent, Flashed,
     RollingBack
<1>7. Ledger!Ban(upd.version)
  BY <1>1, <1>4 DEF Ledger!Ban
<1>8. Ledger!Next
  BY <1>3, <1>7 DEF Ledger!Next
<1>9. QED
  BY <1>5, <1>6, <1>8 DEF StepIsSound, LedgerInv

\* An attempt is recorded: before a write, or for an update found defective.
LEMMA AttemptKeeps ==
  ASSUME LedgerInv, TypeOK', st' = RecordAttempt(st, upd.version),
         pc \in Unspent, pc' \in {"arm", "condemn"}, pc' = "arm" => pc = "attempt",
         UNCHANGED upd, burns' = burns
  PROVE  StepIsSound
<1> DEFINE v == upd.version
<1>1. st \in State /\ upd \in Manifests /\ burns \in [Versions -> 0..(MAX_ATTEMPTS + 1)]
  BY DEF LedgerInv, TypeOK, AgentTypeOK, Unspent
<1>2. v \in Versions /\ st.attempts \in [Versions -> Nat]
  BY <1>1, ManifestFields DEF State
<1>3. /\ st'.attempts = [st.attempts EXCEPT ![v] = st.attempts[v] + 1]
      /\ st'.poisoned = st.poisoned /\ st'.sequence = st.sequence
      /\ st'.committed_version = st.committed_version
  BY <1>1, <1>2, AttemptFields
<1>4. st.attempts[v] < MAX_ATTEMPTS /\ burns[v] <= st.attempts[v]
  BY <1>2 DEF LedgerInv, Spare, FlashBudget
<1>5. FlashBudget'
  <2> SUFFICES ASSUME NEW w \in Versions
               PROVE  burns[w] <= st'.attempts[w] /\ st'.attempts[w] <= MAX_ATTEMPTS
    BY DEF FlashBudget
  <2>1. burns[w] <= st.attempts[w] /\ st.attempts[w] <= MAX_ATTEMPTS /\ burns[w] \in Nat
    BY <1>1 DEF LedgerInv, FlashBudget
  <2>2. QED
    BY <1>2, <1>3, <1>4, <2>1 DEF MAX_ATTEMPTS
<1>6. pc' = "arm" => burns'[upd'.version] < st'.attempts[upd'.version]
  BY <1>1, <1>2, <1>3, <1>4
<1>7. pc \in Pending
  BY DEF Unspent, Pending
<1>8. Fresh' /\ Spare' /\ Armed' /\ Burned' /\ Phased'
  BY <1>3, <1>6, <1>7 DEF LedgerInv, Fresh, Spare, Armed, Burned, Phased, Unspent, Flashed, RollingBack
<1>9. UNCHANGED Ledger!ledger
  BY <1>3 DEF Ledger!ledger
<1>10. QED
  BY <1>5, <1>8, <1>9 DEF StepIsSound, LedgerInv

LEMMA CountingStepsKeep ==
  ASSUME SavesHold, LedgerInv, TypeOK', VerifyUpdate \/ RecordFlashAttempt
  PROVE  StepIsSound
<1>1. CASE RecordFlashAttempt
  <2>1. /\ st' = RecordAttempt(st, upd.version) /\ pc = "attempt" /\ pc' = "arm"
        /\ UNCHANGED upd /\ burns' = burns
    BY <1>1, PersistSaves DEF RecordFlashAttempt, locals, history
  <2>2. QED
    BY <2>1, AttemptKeeps DEF Unspent
<1>2. CASE VerifyUpdate
  <2>1. pc = "verify" /\ UNCHANGED upd /\ burns' = burns
    BY <1>2 DEF VerifyUpdate, locals, history
  <2>2. \/ pc' \in {"unstage", "verified", "abandon"} /\ UNCHANGED st
        \/ pc' = "condemn" /\ st' = RecordAttempt(st, upd.version)
    BY <1>2, PersistSaves DEF VerifyUpdate
  <2>3. CASE pc' \in {"unstage", "verified", "abandon"} /\ UNCHANGED st
    <3>1. Kept
      BY <2>1, <2>3 DEF Kept
    <3>2. QED
      BY <2>1, <2>3, <3>1, QuietStep DEF Pending, Unspent, Flashed, RollingBack
  <2>4. CASE pc' = "condemn" /\ st' = RecordAttempt(st, upd.version)
    BY <2>1, <2>4, AttemptKeeps DEF Unspent
  <2>5. QED
    BY <2>2, <2>3, <2>4
<1>3. QED
  BY <1>1, <1>2

\* A write uses up the attempt recorded for it, whether it completes or the
\* power fails in the middle.
LEMMA BurnKeeps ==
  ASSUME LedgerInv, TypeOK', pc = "flash", Burn(upd.version), UNCHANGED st,
         \/ pc' \in {"flashed", "abandon"} /\ UNCHANGED upd
         \/ pc' = "idle"
  PROVE  StepIsSound
<1> DEFINE v == upd.version
<1>1. st \in State /\ upd \in Manifests /\ burns \in [Versions -> 0..(MAX_ATTEMPTS + 1)]
  BY DEF LedgerInv, TypeOK, AgentTypeOK
<1>2. v \in Versions /\ st.attempts \in [Versions -> Nat]
  BY <1>1, ManifestFields DEF State
<1>3. /\ burns[v] < st.attempts[v] /\ st.attempts[v] <= MAX_ATTEMPTS /\ v \notin st.poisoned
      /\ st.sequence < upd.sequence
  BY <1>2 DEF LedgerInv, Armed, FlashBudget, Fresh, Pending
<1>4. burns[v] < MAX_ATTEMPTS /\ burns[v] \in Nat
  BY <1>1, <1>2, <1>3 DEF MAX_ATTEMPTS
<1>5. burns' = [burns EXCEPT ![v] = burns[v] + 1]
  <2>1. burns[v] <= MAX_ATTEMPTS
    BY <1>4 DEF MAX_ATTEMPTS
  <2>2. QED
    BY <1>1, <1>2, <2>1 DEF Burn
<1>6. FlashBudget'
  <2> SUFFICES ASSUME NEW w \in Versions
               PROVE  burns'[w] <= st.attempts[w] /\ st.attempts[w] <= MAX_ATTEMPTS
    BY DEF FlashBudget
  <2>1. burns[w] <= st.attempts[w] /\ st.attempts[w] <= MAX_ATTEMPTS
    BY DEF LedgerInv, FlashBudget
  <2>2. QED
    BY <1>1, <1>2, <1>3, <1>4, <1>5, <2>1
<1>7. burns'[v] > 0
  BY <1>1, <1>2, <1>4, <1>5
<1>8. Fresh' /\ Spare' /\ Armed' /\ Burned' /\ Phased'
  <2>1. CASE pc' \in {"flashed", "abandon"} /\ UNCHANGED upd
    BY <1>3, <1>7, <2>1 DEF Fresh, Spare, Armed, Burned, Phased, Unspent, Flashed, RollingBack
  <2>2. CASE pc' = "idle"
    BY <2>2 DEF Fresh, Spare, Armed, Burned, Phased, Unspent, Pending, Flashed, RollingBack
  <2>3. QED
    BY <2>1, <2>2
<1>9. Ledger!Write(v)
  BY <1>3, <1>4, <1>5 DEF Ledger!Write
<1>10. Ledger!Next
  BY <1>2, <1>9 DEF Ledger!Next
<1>11. QED
  BY <1>6, <1>8, <1>10 DEF StepIsSound, LedgerInv

\* A commit is of a version that was written, is not banned, and is newer.
LEMMA CommitKeeps ==
  ASSUME SavesHold, LedgerInv, TypeOK', Commit
  PROVE  StepIsSound
<1>1. st' = CommitState /\ pc = "commit_save" /\ pc' = "idle" /\ burns' = burns
  BY PersistSaves DEF Commit, Return, history
<1>2. st \in State /\ upd \in Manifests
  BY <1>1 DEF LedgerInv, TypeOK, AgentTypeOK
<1>3. upd.version \in Versions /\ upd.sequence \in Nat
  BY <1>2, ManifestFields
<1>4. /\ st'.attempts = st.attempts /\ st'.poisoned = st.poisoned
      /\ st'.sequence = upd.sequence /\ st'.committed_version = upd.version
  BY <1>1, <1>2 DEF CommitState, State
<1>5. /\ upd.version \notin st.poisoned /\ st.sequence < upd.sequence
      /\ burns[upd.version] > 0
  BY <1>1 DEF LedgerInv, Fresh, Pending, Burned, Flashed
<1>6. FlashBudget'
  BY <1>1, <1>4 DEF LedgerInv, FlashBudget
<1>7. Fresh' /\ Spare' /\ Armed' /\ Burned' /\ Phased'
  BY <1>1 DEF Fresh, Spare, Armed, Burned, Phased, Unspent, Pending, Flashed, RollingBack
<1>8. st.sequence \in Nat
  BY <1>2 DEF State
<1>9. Ledger!Commit(upd.version)
  BY <1>1, <1>3, <1>4, <1>5, <1>8 DEF Ledger!Commit
<1>10. Ledger!Next
  BY <1>3, <1>9 DEF Ledger!Next
<1>11. QED
  BY <1>6, <1>7, <1>10 DEF StepIsSound, LedgerInv

LEMMA RecheckKeeps ==
  ASSUME SavesHold, LedgerInv, TypeOK', Recheck
  PROVE  StepIsSound
<1>1. pc = "recheck" /\ burns' = burns
  BY DEF Recheck, history
<1>2. CASE End("rolled_back", "rolled_back")
  BY <1>1, <1>2, EndKeeps
<1>3. CASE TryNext /\ UNCHANGED <<st, report>>
  <2>1. Kept /\ pc' = "restore" /\ UNCHANGED <<st, upd>>
    BY <1>1, <1>3 DEF Kept, TryNext
  <2>2. st'.phase = "rolling_back"
    BY <1>1, <2>1 DEF LedgerInv, Phased, RollingBack
  <2>3. QED
    BY <1>1, <2>1, <2>2, QuietStep DEF Pending, Unspent, Flashed, RollingBack
<1>4. QED
  BY <1>2, <1>3 DEF Recheck

LEMMA StampKeeps ==
  ASSUME SavesHold, LedgerInv, TypeOK', Stamp
  PROVE  StepIsSound
<1>1. /\ st' = [st EXCEPT !.last_verified_sequence = upd.sequence] /\ pc = "stamp"
      /\ pc' = "stamped" /\ UNCHANGED upd /\ burns' = burns
  BY DEF Stamp, SavesHold, locals, history
<1>2. st \in State
  BY DEF LedgerInv, TypeOK, AgentTypeOK
<1>3. Kept
  BY <1>1, <1>2 DEF Kept, State
<1>4. QED
  BY <1>1, <1>3, QuietStep DEF Pending, Unspent, Flashed, RollingBack

-----------------------------------------------------------------------------
\* A process that dies in the middle of a write has used an attempt; one that
\* dies anywhere else has not touched the ledger.
LEMMA DyingKeeps ==
  ASSUME LedgerInv, TypeOK', Dying
  PROVE  StepIsSound
<1>1. pc' = "idle" /\ UNCHANGED st
  BY DEF Dying, Return
<1>2. CASE pc = "flash"
  BY <1>1, <1>2, BurnKeeps DEF Dying
<1>3. CASE pc # "flash"
  <2>1. Kept
    BY <1>1, <1>3 DEF Dying, Kept
  <2>2. QED
    BY <1>1, <2>1, QuietEnd
<1>4. QED
  BY <1>2, <1>3

LEMMA CycleStepKeeps ==
  ASSUME SavesHold, LedgerInv, TypeOK', CycleStep
  PROVE  StepIsSound
<1>1. CASE Flash
  <2>1. /\ pc = "flash" /\ Burn(upd.version) /\ UNCHANGED <<st, upd>>
        /\ pc' \in {"flashed", "abandon"}
    BY <1>1 DEF Flash, locals
  <2>2. QED
    BY <2>1, BurnKeeps
<1>2. CASE ~Flash
  BY <1>2, EndingStepsKeep, BeginDownloadKeeps, EnteringStepsKeep, SilentStepsKeep,
     PoisoningStepsKeep, CountingStepsKeep, CommitKeeps, RecheckKeeps, StampKeeps DEF CycleStep
<1>3. QED
  BY <1>1, <1>2

LEMMA BoardStepKeeps ==
  ASSUME SavesHold, LedgerInv, Next
  PROVE  StepIsSound
<1>0. TypeOK'
  BY BoardStepIsTyped DEF LedgerInv
<1>1. CASE AgentPoll
  <2>1. Kept /\ pc' = "screen"
    BY <1>1 DEF AgentPoll, Poll, Kept, history
  <2>2. FlashBudget'
    BY <2>1 DEF LedgerInv, FlashBudget, Kept
  <2>3. Fresh' /\ Spare' /\ Armed' /\ Burned' /\ Phased'
    BY <2>1 DEF Fresh, Spare, Armed, Burned, Phased, Unspent, Pending, Flashed, RollingBack
  <2>4. QED
    BY <1>0, <2>1, <2>2, <2>3, KeptIsStutter DEF StepIsSound, LedgerInv
<1>2. CASE AgentStep
  BY <1>0, <1>2, CycleStepKeeps DEF AgentStep
<1>3. CASE AgentIdles \/ BootStep \/ StartAgent \/ IdeUpload
  <2>1. UNCHANGED <<st, burns, pc, upd>>
    BY <1>3 DEF AgentIdles, EmptyPoll, locals, history, BootStep, StartAgent, IdeUpload, agentvars
  <2>2. Kept
    BY <2>1 DEF Kept
  <2>3. (pc = "flash" => st'.phase = "flashing") /\ (pc \in RollingBack => st'.phase = "rolling_back")
    BY <2>1 DEF LedgerInv, Phased
  <2>4. QED
    BY <1>0, <2>1, <2>2, <2>3, QuietStep
<1>4. CASE AgentDies \/ PowerLoss
  BY <1>0, <1>4, DyingKeeps DEF AgentDies, PowerLoss
<1>5. CASE StateLost
  BY <1>5 DEF StateLost, SavesHold
<1>6. QED
  BY <1>1, <1>2, <1>3, <1>4, <1>5 DEF Next

LEMMA LedgerInit == Init => LedgerInv
<1> SUFFICES ASSUME Init PROVE LedgerInv
  OBVIOUS
<1>1. TypeOK
  BY BoardInitIsTyped
<1>2. pc = "idle" /\ burns = [v \in Versions |-> 0] /\ st.attempts = [v \in Versions |-> 0]
  BY DEF Init, AgentInit, DefaultState
<1>3. FlashBudget
  BY <1>2 DEF FlashBudget, MAX_ATTEMPTS
<1>4. QED
  BY <1>1, <1>2, <1>3 DEF LedgerInv, Fresh, Spare, Armed, Burned, Phased, Unspent, Pending,
     Flashed, RollingBack

LEMMA LedgerStep ==
  SavesHold /\ LedgerInv /\ [Next]_vars => LedgerInv' /\ [Ledger!Next]_(Ledger!ledger)
<1> SUFFICES ASSUME SavesHold, LedgerInv, [Next]_vars
             PROVE  LedgerInv' /\ [Ledger!Next]_(Ledger!ledger)
  OBVIOUS
<1>1. CASE Next
  BY <1>1, BoardStepKeeps DEF StepIsSound
<1>2. CASE UNCHANGED vars
  <2>1. UNCHANGED <<st, burns, pc, upd>>
    BY <1>2 DEF vars
  <2>2. TypeOK'
    BY <1>2 DEF LedgerInv, vars, TypeOK, DeviceTypeOK, AgentTypeOK, ReconcilerTypeOK
  <2>3. Kept
    BY <2>1 DEF Kept
  <2>4. (pc = "flash" => st'.phase = "flashing") /\ (pc \in RollingBack => st'.phase = "rolling_back")
    BY <2>1 DEF LedgerInv, Phased
  <2>5. QED
    BY <2>1, <2>2, <2>3, <2>4, QuietStep DEF StepIsSound
<1>3. QED
  BY <1>1, <1>2

\* DESIGN.md's hard cap: as long as state.json keeps what is saved, no
\* sequence of polls, failures, crashes and power cuts writes a version's
\* image more often than attempts were recorded, or more than twice.
THEOREM FlashBudgetHolds == SavesHold /\ Spec => []FlashBudget
<1>1. LedgerInv => FlashBudget
  BY DEF LedgerInv
<1>2. SavesHold => SavesHold'
  BY DEF SavesHold
<1>3. QED
  BY <1>1, <1>2, LedgerInit, LedgerStep, PTL DEF Spec
\* State is on disk before the hardware is touched: while a write is under
\* way state.json says "flashing" and counts an attempt for the version, and
\* while a rollback is under way it says so and has the version poisoned.
THEOREM WriteAheadHolds == SavesHold /\ Spec => []WriteAhead
<1>1. LedgerInv => WriteAhead
  <2> SUFFICES ASSUME LedgerInv PROVE WriteAhead
    OBVIOUS
  <2>1. pc = "flash" => st.attempts[upd.version] > 0
    <3> SUFFICES ASSUME pc = "flash" PROVE st.attempts[upd.version] > 0
      OBVIOUS
    <3>1. upd \in Manifests /\ st \in State /\ burns \in [Versions -> 0..(MAX_ATTEMPTS + 1)]
      BY DEF LedgerInv, TypeOK, AgentTypeOK
    <3>2. upd.version \in Versions
      BY <3>1, ManifestFields
    <3>3. burns[upd.version] \in Nat /\ st.attempts[upd.version] \in Nat
      BY <3>1, <3>2 DEF State, MAX_ATTEMPTS
    <3>4. QED
      BY <3>3 DEF LedgerInv, Armed
  <2>2. QED
    BY <2>1 DEF LedgerInv, Phased, RollingBack, WriteAhead
<1>2. SavesHold => SavesHold'
  BY DEF SavesHold
<1>3. QED
  BY <1>1, <1>2, LedgerInit, LedgerStep, PTL DEF Spec

\* The board implements UpdateLedger: with saves that hold, every step of the
\* detailed machine is a write within budget of a version that is not banned,
\* a ban, a commit of something written, newer and not banned, or nothing the
\* ledger can see.
THEOREM LedgerImplemented == SavesHold /\ Spec => KeepsLedger
<1>1. Init => Ledger!Init
  BY DEF Init, AgentInit, DefaultState, Ledger!Init
<1>2. SavesHold => SavesHold'
  BY DEF SavesHold
<1>3. QED
  BY <1>1, <1>2, LedgerInit, LedgerStep, PTL DEF Spec, KeepsLedger, Ledger!Spec
=============================================================================
