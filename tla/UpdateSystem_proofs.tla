------------------------- MODULE UpdateSystem_proofs -------------------------
(***************************************************************************)
(* Type correctness of the board, for every set of versions, manifests and *)
(* faults.                                                                 *)
(***************************************************************************)
EXTENDS UpdateSystem, Reconciler_proofs

\* The operations of StateStore yield states.
LEMMA StateOps ==
  ASSUME NEW s \in State, NEW v \in Versions
  PROVE  /\ RecordAttempt(s, v) \in State
         /\ Poison(s, v) \in State
         /\ \A p \in Phase : SetPhase(s, p) \in State
<1>1. RecordAttempt(s, v) \in State
  <2>1. [s.attempts EXCEPT ![v] = @ + 1] \in [Versions -> Nat]
    BY DEF State
  <2>2. \A f \in [Versions -> Nat] : [s EXCEPT !.attempts = f] \in State
    BY DEF State
  <2>3. RecordAttempt(s, v) = [s EXCEPT !.attempts = [s.attempts EXCEPT ![v] = @ + 1]]
    BY DEF RecordAttempt
  <2>4. QED
    BY <2>1, <2>2, <2>3
<1>2. Poison(s, v) \in State
  BY DEF State, Poison
<1>3. \A p \in Phase : SetPhase(s, p) \in State
  BY DEF State, SetPhase
<1>4. QED
  BY <1>1, <1>2, <1>3

LEMMA DefaultIsState == DefaultState \in State
BY DEF DefaultState, State, Phase

\* A save that succeeds or is swallowed leaves a state behind.
LEMMA PersistIsTyped ==
  ASSUME NEW s \in State, st \in State, Persist(s)
  PROVE  st' \in State
BY DEF Persist

\* Whatever a phase is set to on the way is a state.
LEMMA PhaseIsTyped ==
  ASSUME st \in State, NEW p \in Phase, Persist(SetPhase(st, p))
  PROVE  st' \in State
<1>1. SetPhase(st, p) \in State
  BY DEF State, SetPhase
<1>2. QED
  BY <1>1, PersistIsTyped

\* The half of the type that a returning cycle re-establishes.
LEMMA ReturnIsTyped ==
  ASSUME Return,
         st' \in State, staged' \in Images \cup {Nothing}, shost' \in Dirs, host' \in HostPairs,
         report' \in Status \cup {Nothing},
         burns' \in [Versions -> 0..(MAX_ATTEMPTS + 1)], proven' \in SUBSET Images
  PROVE  AgentTypeOK'
<1>1. /\ pc' = "idle" /\ upd' = Nothing /\ no_flash' = FALSE /\ cand' = 1 /\ had_current' = FALSE
      /\ 1 \in 1..(Len(CANDIDATES) + 1) /\ "idle" \in PCs
  BY CandidateNames DEF Return, PCs
<1>2. QED
  BY <1>1 DEF AgentTypeOK

LEMMA EndIsTyped ==
  ASSUME AgentTypeOK, NEW status \in Status, NEW phase \in Phase, End(status, phase),
         UNCHANGED <<files, host, history>>
  PROVE  AgentTypeOK'
<1>1. st' \in State
  BY PhaseIsTyped DEF End, AgentTypeOK
<1>2. QED
  BY <1>1, ReturnIsTyped DEF End, AgentTypeOK, files, history

\* A step on the way that touches only state.json, the report and pc.
LEMMA AdvanceIsTyped ==
  ASSUME AgentTypeOK, upd \in Manifests, st' \in State, pc' \in PCs \ {"recheck"},
         report' \in Status \cup {Nothing}, UNCHANGED <<files, host, locals, history>>,
         pc' \in {"verified", "gate", "attempt", "arm", "flash", "flashed", "health",
                  "host", "commit", "commit_current", "commit_save"} => staged \in Images
  PROVE  AgentTypeOK'
BY DEF AgentTypeOK, files, locals, history

\* The flash counter of a version stays within its range.
LEMMA BurnIsTyped ==
  ASSUME AgentTypeOK, NEW v \in Versions, Burn(v)
  PROVE  burns' \in [Versions -> 0..(MAX_ATTEMPTS + 1)]
BY DEF AgentTypeOK, Burn, MAX_ATTEMPTS

LEMMA ManifestFields ==
  ASSUME NEW m \in Manifests
  PROVE  /\ m.version \in Versions /\ m.sequence \in Nat /\ m.sketch \in Images
         /\ m.host \in Trees \cup {Nothing}
BY ManifestsAssumption DEF Manifest

\* A saved phase change, with or without a report, on the way.
LEMMA EnterIsTyped ==
  ASSUME AgentTypeOK, upd \in Manifests, NEW phase \in Phase, NEW next \in PCs \ {"recheck"},
         Enter(phase, next), report' \in Status \cup {Nothing},
         UNCHANGED <<files, host, locals, history>>,
         next \in {"verified", "gate", "attempt", "arm", "flash", "flashed", "health",
                   "host", "commit", "commit_current", "commit_save"} => staged \in Images
  PROVE  AgentTypeOK'
<1>1. st' \in State /\ pc' = next
  BY PhaseIsTyped DEF Enter, AgentTypeOK
<1>2. QED
  BY <1>1, AdvanceIsTyped

\* What a swap or a failed one makes of the host pair.
LEMMA HostPairsAreTyped ==
  ASSUME NEW h \in HostPairs, NEW tree \in Dirs
  PROVE  /\ Swapped(h, tree) \in HostPairs
         /\ \A x \in HostFailures(h, tree) : x \in HostPairs
         /\ \A x \in HostCrashes(h, tree) : x \in HostPairs
<1>1. \A a, b \in Dirs : [live |-> a, previous |-> b] \in HostPairs
  BY DEF HostPairs
<1>2. h.live \in Dirs /\ h.previous \in Dirs /\ Nothing \in Dirs /\ Torn \in Dirs
  BY DEF HostPairs, Dirs
<1>3. Swapped(h, tree) \in HostPairs
  BY <1>1, <1>2 DEF Swapped
<1>4. \A g \in HostPairs : Unswapped(g) \in HostPairs
  <2> SUFFICES ASSUME NEW g \in HostPairs PROVE Unswapped(g) \in HostPairs
    OBVIOUS
  <2>1. g.previous \in Dirs
    BY DEF HostPairs
  <2>2. QED
    BY <1>1, <1>2, <2>1 DEF Unswapped
<1>5. \A x \in HostFailures(h, tree) : x \in HostPairs
  BY <1>3, <1>4 DEF HostFailures
<1>6. [h EXCEPT !.previous = Torn] \in HostPairs /\ [h EXCEPT !.previous = Nothing] \in HostPairs
  BY <1>2 DEF HostPairs
<1>7. /\ [live |-> Nothing, previous |-> h.live] \in HostPairs
      /\ [live |-> Nothing, previous |-> h.previous] \in HostPairs
  BY <1>1, <1>2
<1>8. QED
  BY <1>3, <1>5, <1>6, <1>7 DEF HostCrashes

\* A passing verdict has passed every check: the digests pin the staged files
\* to the manifest.  Only a manifest with a good signature is ever condemned.
LEMMA VerdictIsSound ==
  ASSUME NEW m, NEW sketch, NEW tree, NEW seq, NEW verdict \in Verdicts(m, sketch, tree, seq)
  PROVE  /\ verdict = "ok" =>
              /\ m.trusted /\ m.fits /\ Loadable(sketch) /\ sketch = m.sketch
              /\ m.host # Nothing => tree = m.host
         /\ verdict \in Poisonable => m.trusted
BY DEF Verdicts, Poisonable, Then, VerifySignature, VerifyWindow, VerifySequence, VerifyTarget,
   VerifyPayloads, VerifyDigest, LoadVerdict

\* The steps that end a cycle.
LEMMA EndingStepsAreTyped ==
  ASSUME DeviceTypeOK, AgentTypeOK,
         Refused \/ UpToDate \/ Defer \/ HoldFetch \/ Abandon \/ Stamped \/ Hold \/ NothingRestored \/ Commit
  PROVE  AgentTypeOK' /\ DeviceTypeOK'
<1> USE DEF Phase, Status
<1>0. DeviceTypeOK'
  BY DEF Refused, UpToDate, Defer, HoldFetch, Abandon, Stamped, Hold, NothingRestored, Commit, DeviceTypeOK
<1>1. CASE Refused
  BY <1>0, <1>1, EndIsTyped DEF Refused
<1>2. CASE UpToDate
  <2>1. /\ staged' \in {staged, Nothing} /\ shost' \in {shost, Nothing}
        /\ report' \in {report, "verified"} /\ Return /\ UNCHANGED <<st, host, history>>
    BY <1>2 DEF UpToDate, Unlink, UnlinkFails, files
  <2>2. QED
    BY <1>0, <2>1, ReturnIsTyped DEF AgentTypeOK, Dirs, history
<1>3. CASE Defer \/ HoldFetch
  BY <1>0, <1>3, EndIsTyped DEF Defer, HoldFetch
<1>4. CASE Abandon
  BY <1>0, <1>4, EndIsTyped DEF Abandon
<1>5. CASE Stamped
  BY <1>0, <1>5, EndIsTyped DEF Stamped
<1>6. CASE Hold
  BY <1>0, <1>6, ReturnIsTyped DEF Hold, AgentTypeOK, files, history
<1>7. CASE NothingRestored
  BY <1>0, <1>7, EndIsTyped DEF NothingRestored
<1>8. CASE Commit
  <2>1. upd \in Manifests /\ st \in State
    BY <1>8 DEF Commit, AgentTypeOK
  <2>2. CommitState \in State
    <3>1. upd.version \in Versions /\ upd.sequence \in Nat
      BY <2>1, ManifestFields
    <3>2. \A p, c \in Versions \cup {Nothing}, n \in Nat :
            [st EXCEPT !.previous_version = p, !.committed_version = c, !.sequence = n,
                       !.phase = "committed"] \in State
      BY <2>1 DEF State
    <3>3. (IF had_current THEN st.committed_version ELSE st.previous_version)
             \in Versions \cup {Nothing}
      BY <2>1 DEF State
    <3>4. CommitState =
            [st EXCEPT !.previous_version = IF had_current THEN st.committed_version
                                                           ELSE st.previous_version,
                       !.committed_version = upd.version, !.sequence = upd.sequence,
                       !.phase = "committed"]
      BY <2>1 DEF CommitState, State
    <3>5. QED
      BY <3>1, <3>2, <3>3, <3>4
  <2>3. st' \in State
    BY <1>8, <2>1, <2>2, PersistIsTyped DEF Commit
  <2>4. QED
    BY <1>0, <1>8, <2>3, ReturnIsTyped DEF Commit, AgentTypeOK, files, history
<1>9. QED
  BY <1>1, <1>2, <1>3, <1>4, <1>5, <1>6, <1>7, <1>8
\* The steps that change only state.json, the report and pc.
LEMMA SavingStepsAreTyped ==
  ASSUME DeviceTypeOK, AgentTypeOK,
         \/ Refuse \/ BeginDownload \/ BeginVerify \/ VerifyUpdate \/ Condemn \/ Stage
         \/ RecordFlashAttempt \/ Arm \/ BeginHealth \/ BeginRollback \/ CondemnFailed
  PROVE  AgentTypeOK' /\ DeviceTypeOK'
<1> USE DEF Phase, Status, PCs
<1>0. DeviceTypeOK'
  BY DEF Refuse, BeginDownload, BeginVerify, VerifyUpdate, Condemn, Stage,
     RecordFlashAttempt, Arm, BeginHealth, BeginRollback, CondemnFailed, DeviceTypeOK
<1>a. pc # "idle"
  BY DEF Refuse, BeginDownload, Acceptable, BeginVerify, VerifyUpdate, Condemn, Stage,
     RecordFlashAttempt, Arm, BeginHealth, BeginRollback, CondemnFailed
<1>b. upd \in Manifests /\ st \in State /\ report \in Status \cup {Nothing}
  BY <1>a DEF AgentTypeOK
<1>c. /\ RecordAttempt(st, upd.version) \in State
      /\ Poison(st, upd.version) \in State
  BY <1>b, ManifestFields, StateOps
<1>d. Persist(Poison(st, upd.version)) \/ Persist(RecordAttempt(st, upd.version)) => st' \in State
  BY <1>b, <1>c, PersistIsTyped
<1>1. CASE Refuse
  BY <1>0, <1>1, <1>b, <1>d, AdvanceIsTyped DEF Refuse
<1>2. CASE BeginDownload
  BY <1>0, <1>2, <1>b, EnterIsTyped DEF BeginDownload
<1>3. CASE BeginVerify
  BY <1>0, <1>3, <1>b, EnterIsTyped DEF BeginVerify
<1>4. CASE VerifyUpdate
  <2>1. PICK verdict \in Verdicts(upd, staged, shost, st.sequence) :
          \/ /\ verdict = "ok" /\ pc' = IF no_flash THEN "unstage" ELSE "verified"
             /\ UNCHANGED st
          \/ pc' = "condemn" /\ Persist(RecordAttempt(st, upd.version))
          \/ pc' = "abandon" /\ UNCHANGED st
    BY <1>4 DEF VerifyUpdate
  <2>2. st' \in State /\ pc' \in {"unstage", "verified", "condemn", "abandon"}
    BY <2>1, <1>b, <1>d
  <2>3. pc' = "verified" => staged \in Images
    <3>1. pc' = "verified" => "ok" \in Verdicts(upd, staged, shost, st.sequence)
      BY <2>1
    <3>2. "ok" \in Verdicts(upd, staged, shost, st.sequence) => Loadable(staged)
      BY VerdictIsSound
    <3>3. QED
      BY <3>1, <3>2 DEF Loadable, AgentTypeOK
  <2>4. UNCHANGED <<files, host, locals, history>> /\ UNCHANGED report
    BY <1>4 DEF VerifyUpdate
  <2>5. QED
    BY <1>0, <1>b, <2>2, <2>3, <2>4, AdvanceIsTyped
<1>5. CASE Condemn
  BY <1>0, <1>5, <1>b, <1>d, AdvanceIsTyped DEF Condemn
<1>6. CASE Stage
  BY <1>0, <1>6, <1>b, EnterIsTyped DEF Stage, AgentTypeOK
<1>7. CASE RecordFlashAttempt
  BY <1>0, <1>7, <1>b, <1>d, AdvanceIsTyped DEF RecordFlashAttempt, AgentTypeOK
<1>8. CASE Arm
  BY <1>0, <1>8, <1>b, EnterIsTyped DEF Arm, AgentTypeOK
<1>9. CASE BeginHealth
  BY <1>0, <1>9, <1>b, EnterIsTyped DEF BeginHealth, AgentTypeOK
<1>10. CASE BeginRollback
  BY <1>0, <1>10, <1>b, EnterIsTyped DEF BeginRollback
<1>11. CASE CondemnFailed
  BY <1>0, <1>11, <1>b, <1>d, AdvanceIsTyped DEF CondemnFailed
<1>12. QED
  BY <1>1, <1>2, <1>3, <1>4, <1>5, <1>6, <1>7, <1>8, <1>9, <1>10, <1>11

\* The steps that fetch, unstage or stamp.
LEMMA FileStepsAreTyped ==
  ASSUME DeviceTypeOK, AgentTypeOK,
         Download \/ DownloadHost \/ DownloadFails \/ Unstage \/ Stamp
  PROVE  AgentTypeOK' /\ DeviceTypeOK'
<1> USE DEF PCs
<1>0. DeviceTypeOK'
  BY DEF Download, DownloadHost, DownloadFails, Unstage, Stamp, DeviceTypeOK
<1>a. pc # "idle"
  BY DEF Download, DownloadHost, DownloadFails, Unstage, Stamp
<1>b. upd \in Manifests
  BY <1>a DEF AgentTypeOK
<1>c. upd.sketch \in Images /\ upd.host \in Trees \cup {Nothing} /\ upd.sequence \in Nat
  BY <1>b, ManifestFields
<1>d. Partial(upd.sketch.ver) \in Images
  BY <1>c DEF Images, Partial
<1>1. CASE Download
  <2>1. staged' \in Images /\ pc' \in {"downloaded", "download_host"}
        /\ UNCHANGED <<st, shost, host, locals, report, history>>
    BY <1>1, <1>c DEF Download
  <2>2. QED
    BY <1>0, <1>b, <2>1 DEF AgentTypeOK, locals, history
<1>2. CASE DownloadHost
  <2>1. shost' \in Dirs /\ pc' = "downloaded"
        /\ UNCHANGED <<st, staged, host, locals, report, history>>
    BY <1>2, <1>c DEF DownloadHost, Dirs
  <2>2. QED
    BY <1>0, <1>b, <2>1 DEF AgentTypeOK, locals, history
<1>3. CASE DownloadFails
  <2>1. staged' \in Images \cup {Nothing} /\ shost' \in Dirs /\ pc' = "abandon"
        /\ UNCHANGED <<st, host, locals, report, history>>
    BY <1>3, <1>d DEF DownloadFails, Leftovers, Dirs, AgentTypeOK
  <2>2. QED
    BY <1>0, <1>b, <2>1 DEF AgentTypeOK, locals, history
<1>4. CASE Unstage
  <2>1. staged' \in {staged, Nothing} /\ shost' \in {shost, Nothing}
        /\ UNCHANGED <<st, host, report, history>>
    BY <1>4 DEF Unstage, Unlink, UnlinkFails, files
  <2>2. CASE pc' = "stamp" /\ UNCHANGED locals
    BY <1>0, <1>b, <2>1, <2>2 DEF AgentTypeOK, Dirs, locals, history
  <2>3. CASE Return
    BY <1>0, <2>1, <2>3, ReturnIsTyped DEF AgentTypeOK, Dirs, history
  <2>4. QED
    BY <1>4, <2>2, <2>3 DEF Unstage
<1>5. CASE Stamp
  <2>1. [st EXCEPT !.last_verified_sequence = upd.sequence] \in State
    BY <1>c DEF AgentTypeOK, State
  <2>2. st' \in State /\ UNCHANGED <<files, host, report, history>>
    BY <1>5, <2>1 DEF Stamp, AgentTypeOK
  <2>3. CASE pc' = "stamped" /\ UNCHANGED locals
    BY <1>0, <1>b, <2>2, <2>3, AdvanceIsTyped DEF AgentTypeOK
  <2>4. CASE Return
    BY <1>0, <2>2, <2>4, ReturnIsTyped DEF AgentTypeOK, files, history
  <2>5. QED
    BY <1>5, <2>3, <2>4 DEF Stamp
<1>6. QED
  BY <1>1, <1>2, <1>3, <1>4, <1>5
\* The steps that touch the target, the host tree or the recovery images.
LEMMA DeviceStepsAreTyped ==
  ASSUME DeviceTypeOK, AgentTypeOK,
         CheckDrift \/ Flash \/ CheckHealth \/ ApplyHost \/ KeepPrevious \/ ReplaceCurrent
  PROVE  AgentTypeOK' /\ DeviceTypeOK'
<1> USE DEF PCs
<1>a. /\ pc \in {"gate", "flash", "health", "host", "commit", "commit_current"}
  BY DEF CheckDrift, Flash, CheckHealth, ApplyHost, KeepPrevious, ReplaceCurrent
<1>b. upd \in Manifests /\ staged \in Images /\ mcu \in Mcus
      /\ images \in [Names -> Images \cup {Nothing}]
  BY <1>a DEF AgentTypeOK, DeviceTypeOK
<1>c. \A img \in Images \cup {Nothing} : \A n \in Names :
        [images EXCEPT ![n] = img] \in [Names -> Images \cup {Nothing}]
  BY <1>b
<1>d. "current" \in Names /\ "previous" \in Names
  BY DEF Names
<1>1. CASE CheckDrift
  <2>1. \A m \in Preamble(mcu) : m \in Mcus
    BY <1>b DEF Mcus, Preamble, Running, Halted
  <2>2. mcu' \in Mcus
    <3>1. mcu' \in Preamble(mcu)
      BY <1>1 DEF CheckDrift, HeaderRead, FailedRead, Preamble
    <3>2. QED
      BY <2>1, <3>1
  <2>3. images' \in [Names -> Images \cup {Nothing}]
    BY <1>1, <1>b, <1>c, <1>d DEF CheckDrift, Discard
  <2>4. AgentTypeOK'
    BY <1>1, <1>b, AdvanceIsTyped DEF CheckDrift, AgentTypeOK
  <2>5. QED
    BY <2>2, <2>3, <2>4 DEF DeviceTypeOK
<1>2. CASE Flash
  <2>1. mcu' \in Mcus
    BY <1>2, <1>b, WritesAreTyped DEF Flash
  <2>2. burns' \in [Versions -> 0..(MAX_ATTEMPTS + 1)]
    BY <1>2, <1>b, ManifestFields, BurnIsTyped DEF Flash
  <2>3. pc' \in {"flashed", "abandon"}
    BY <1>2 DEF Flash
  <2>4. AgentTypeOK'
    BY <1>2, <1>b, <2>2, <2>3 DEF Flash, AgentTypeOK, files, locals
  <2>5. QED
    BY <1>2, <2>1, <2>4 DEF Flash, DeviceTypeOK
<1>3. CASE CheckHealth
  <2>0. DeviceTypeOK'
    BY <1>3 DEF CheckHealth, DeviceTypeOK
  <2>1. PICK reported \in WaitAlive(mcu) :
          IF reported = upd.version
            THEN pc' = "host" /\ proven' = proven \cup {mcu.flash}
            ELSE pc' = "rollback" /\ UNCHANGED proven
    BY <1>3 DEF CheckHealth
  <2>2. reported = upd.version => mcu.flash \in Images
    <3>1. upd.version # Nothing
      BY <1>b, ManifestFields, NothingIsNoVersion
    <3>2. reported = upd.version => Alive(mcu)
      BY <1>b, <3>1, HealthIsHonest
    <3>3. QED
      BY <1>b, <3>2 DEF Alive, Mcus
  <2>3. proven' \in SUBSET Images /\ pc' \in {"host", "rollback"}
    BY <2>1, <2>2 DEF AgentTypeOK
  <2>4. UNCHANGED <<st, files, host, locals, report, burns>>
    BY <1>3 DEF CheckHealth
  <2>5. AgentTypeOK'
    BY <1>b, <2>3, <2>4 DEF AgentTypeOK, files, locals
  <2>6. QED
    BY <2>0, <2>5
<1>4. CASE ApplyHost
  <2>0. DeviceTypeOK'
    BY <1>4 DEF ApplyHost, DeviceTypeOK
  <2>1. host' \in HostPairs /\ pc' \in {"commit", "rollback"}
    BY <1>4, HostPairsAreTyped DEF ApplyHost, AgentTypeOK
  <2>2. UNCHANGED <<st, files, locals, report, history>>
    BY <1>4 DEF ApplyHost
  <2>3. AgentTypeOK'
    BY <1>b, <2>1, <2>2 DEF AgentTypeOK, files, locals, history
  <2>4. QED
    BY <2>0, <2>3
<1>5. CASE KeepPrevious
  <2>1. images' \in [Names -> Images \cup {Nothing}]
    BY <1>5, <1>b, <1>c, <1>d DEF KeepPrevious, CopyFails
  <2>2. had_current' \in BOOLEAN /\ pc' \in {"commit_current", "abandon"}
    BY <1>5 DEF KeepPrevious, CopyFails, AgentTypeOK
  <2>3. UNCHANGED <<st, files, host, upd, no_flash, cand, report, history, mcu>>
    BY <1>5 DEF KeepPrevious
  <2>4. AgentTypeOK'
    BY <1>b, <2>2, <2>3 DEF AgentTypeOK, files, history
  <2>5. QED
    BY <1>b, <2>1, <2>3, <2>4 DEF DeviceTypeOK
<1>6. CASE ReplaceCurrent
  <2>1. images' \in [Names -> Images \cup {Nothing}]
    BY <1>6, <1>b, <1>c, <1>d DEF ReplaceCurrent, CopyFails
  <2>2. had_current' \in BOOLEAN /\ pc' \in {"commit_save", "abandon"}
    BY <1>6 DEF ReplaceCurrent, CopyFails, AgentTypeOK
  <2>3. UNCHANGED <<st, files, host, upd, no_flash, cand, report, history, mcu>>
    BY <1>6 DEF ReplaceCurrent
  <2>4. AgentTypeOK'
    BY <1>b, <2>2, <2>3 DEF AgentTypeOK, files, history
  <2>5. QED
    BY <1>b, <2>1, <2>3, <2>4 DEF DeviceTypeOK
<1>7. QED
  BY <1>1, <1>2, <1>3, <1>4, <1>5, <1>6

\* The next rollback candidate, or one past the last.
LEMMA TryNextIsTyped ==
  ASSUME AgentTypeOK, upd \in Manifests, cand \in 1..3, TryNext,
         UNCHANGED <<st, files, host, report, history>>
  PROVE  AgentTypeOK'
<1>1. cand' \in 1..(Len(CANDIDATES) + 1) /\ pc' = "restore"
      /\ UNCHANGED <<upd, no_flash, had_current>>
  BY CandidateNames DEF TryNext
<1>2. QED
  BY <1>1 DEF AgentTypeOK, files, history, PCs

LEMMA RollbackStepsAreTyped ==
  ASSUME DeviceTypeOK, AgentTypeOK, SkipImage \/ RestoreImage \/ Recheck
  PROVE  AgentTypeOK' /\ DeviceTypeOK'
<1>a. pc \in {"restore", "recheck"}
  BY DEF SkipImage, RestoreImage, Recheck
<1>b. cand \in 1..3 /\ upd \in Manifests
  BY <1>a, CandidateNames DEF SkipImage, RestoreImage, Recheck, AgentTypeOK
<1>1. CASE SkipImage
  BY <1>1, <1>b, TryNextIsTyped DEF SkipImage, DeviceTypeOK
<1>2. CASE RestoreImage
  <2>1. Candidate \in Images
    BY <1>2, <1>b, CandidateNames DEF RestoreImage, Candidate, Loadable, DeviceTypeOK
  <2>2. DeviceTypeOK'
    BY <1>2, <2>1, WritesAreTyped DEF RestoreImage, DeviceTypeOK
  <2>3. UNCHANGED <<st, files, host, report, history>>
    BY <1>2 DEF RestoreImage
  <2>4. CASE pc' = "recheck" /\ UNCHANGED locals
    BY <1>b, <2>2, <2>3, <2>4, CandidateNames DEF AgentTypeOK, files, locals, history, PCs
  <2>5. CASE TryNext
    BY <1>b, <2>2, <2>3, <2>5, TryNextIsTyped
  <2>6. QED
    BY <1>2, <2>2, <2>4, <2>5 DEF RestoreImage
<1>3. CASE Recheck
  <2>1. DeviceTypeOK' /\ UNCHANGED <<files, host, history>>
    BY <1>3 DEF Recheck, DeviceTypeOK
  <2>2. CASE End("rolled_back", "rolled_back")
    BY <2>1, <2>2, EndIsTyped DEF Phase, Status
  <2>3. CASE TryNext /\ UNCHANGED <<st, report>>
    BY <1>b, <2>1, <2>3, TryNextIsTyped
  <2>4. QED
    BY <1>3, <2>1, <2>2, <2>3 DEF Recheck
<1>4. QED
  BY <1>1, <1>2, <1>3

LEMMA CycleStepIsTyped ==
  ASSUME DeviceTypeOK, AgentTypeOK, CycleStep
  PROVE  AgentTypeOK' /\ DeviceTypeOK'
BY EndingStepsAreTyped, SavingStepsAreTyped, FileStepsAreTyped, DeviceStepsAreTyped,
   RollbackStepsAreTyped DEF CycleStep

\* What a dying process leaves behind.
LEMMA DyingIsTyped ==
  ASSUME DeviceTypeOK, AgentTypeOK, Dying
  PROVE  AgentTypeOK'
<1>1. pc # "idle" => upd \in Manifests
  BY DEF AgentTypeOK
<1>2. pc # "idle" => Partial(upd.sketch.ver) \in Images
  BY <1>1, ManifestFields DEF Images, Partial
<1>3. staged' \in Images \cup {Nothing}
  BY <1>2 DEF Dying, Leftovers, AgentTypeOK
<1>4. shost' \in Dirs
  BY DEF Dying, Leftovers, AgentTypeOK, Dirs
<1>5. host' \in HostPairs
  BY HostPairsAreTyped DEF Dying, AgentTypeOK
<1>6. burns' \in [Versions -> 0..(MAX_ATTEMPTS + 1)]
  BY <1>1, ManifestFields, BurnIsTyped DEF Dying, AgentTypeOK
<1>7. QED
  BY <1>3, <1>4, <1>5, <1>6, ReturnIsTyped DEF Dying, AgentTypeOK

LEMMA HalfWrittenIsTyped ==
  ASSUME DeviceTypeOK, AgentTypeOK
  PROVE  \A m \in HalfWritten : m \in Mcus
<1>1. CASE pc = "flash"
  <2>1. staged \in Images
    BY <1>1 DEF AgentTypeOK
  <2>2. QED
    BY <1>1, <2>1, WritesAreTyped DEF HalfWritten, DeviceTypeOK
<1>2. CASE pc = "restore" /\ cand <= Len(CANDIDATES)
  <2>1. Loadable(Candidate) => Candidate \in Images
    BY <1>2, CandidateNames DEF Candidate, Loadable, DeviceTypeOK, AgentTypeOK
  <2>2. QED
    BY <1>2, <2>1, WritesAreTyped DEF HalfWritten, DeviceTypeOK
<1>3. CASE pc = "gate"
  <2>1. \A m \in Preamble(mcu) : m \in Mcus
    BY DEF Preamble, Running, Halted, DeviceTypeOK, Mcus
  <2>2. HalfWritten = IF images["current"] # Nothing THEN Preamble(mcu) ELSE {mcu}
    BY <1>3 DEF HalfWritten
  <2>3. QED
    BY <2>1, <2>2 DEF DeviceTypeOK
<1>4. CASE pc \notin {"flash", "gate"} /\ ~(pc = "restore" /\ cand <= Len(CANDIDATES))
  BY <1>4 DEF HalfWritten, DeviceTypeOK
<1>5. QED
  BY <1>1, <1>2, <1>3, <1>4

\* Every step of the board keeps its variables in their types.
LEMMA BoardStepIsTyped ==
  ASSUME TypeOK, Next
  PROVE  TypeOK'
<1> USE DEF TypeOK
<1>0. 1 \in 1..(Len(CANDIDATES) + 1)
  BY CandidateNames
<1>1. CASE AgentPoll
  <2>1. PICK m \in Manifests : Poll(m)
    BY <1>1 DEF AgentPoll
  <2>2. AgentTypeOK'
    BY <2>1, ModesAssumption DEF Poll, AgentTypeOK, PCs, files, history
  <2>3. QED
    BY <1>1, <2>1, <2>2 DEF AgentPoll, Poll, rvars, DeviceTypeOK, ReconcilerTypeOK
<1>2. CASE AgentStep
  BY <1>2, CycleStepIsTyped DEF AgentStep, rvars, ReconcilerTypeOK
<1>3. CASE BootStep
  <2>1. DeviceTypeOK' /\ ReconcilerTypeOK'
    BY <1>3, ReconcileStepIsTyped DEF BootStep
  <2>2. QED
    BY <1>3, <2>1 DEF BootStep, agentvars, AgentTypeOK
<1>4. CASE StartAgent
  BY <1>0, <1>4 DEF StartAgent, agentvars, AgentTypeOK, DeviceTypeOK, ReconcilerTypeOK
<1>5. CASE AgentDies
  <2>1. AgentTypeOK'
    BY <1>5, DyingIsTyped DEF AgentDies
  <2>2. mcu' \in Mcus /\ UNCHANGED images
    BY <1>5, HalfWrittenIsTyped DEF AgentDies, Dying
  <2>3. QED
    BY <1>5, <2>1, <2>2 DEF AgentDies, rvars, DeviceTypeOK, ReconcilerTypeOK
<1>6. CASE PowerLoss
  <2>1. AgentTypeOK' /\ UNCHANGED images
    BY <1>6, DyingIsTyped DEF PowerLoss, Dying
  <2>2. (rpc = "try" /\ rcand <= Len(CANDIDATES) /\ Loadable(images[CANDIDATES[rcand]])) =>
          \A m \in Interrupted(mcu, images[CANDIDATES[rcand]]) : m \in Mcus
    BY CandidateNames, WritesAreTyped DEF DeviceTypeOK, ReconcilerTypeOK, Loadable
  <2>3. \E m \in Mcus : mcu' = [m EXCEPT !.halted = FALSE]
    BY <1>6, <2>2, HalfWrittenIsTyped DEF PowerLoss
  <2>4. mcu' \in Mcus
    BY <2>3 DEF Mcus
  <2>5. ReconcilerTypeOK'
    BY <1>0, <1>6 DEF PowerLoss, ReconcilerTypeOK
  <2>6. QED
    BY <2>1, <2>4, <2>5 DEF DeviceTypeOK
<1>7. CASE IdeUpload
  <2>1. Whole(Foreign) \in Images
    BY DEF Whole, Images, Firmware
  <2>2. mcu' \in Mcus
    BY <1>7, <2>1 DEF IdeUpload, Written, Mcus
  <2>3. QED
    BY <1>7, <2>2 DEF IdeUpload, agentvars, rvars, AgentTypeOK, DeviceTypeOK, ReconcilerTypeOK
<1>8. CASE StateLost
  BY <1>8, DefaultIsState DEF StateLost, rvars, AgentTypeOK, DeviceTypeOK, ReconcilerTypeOK
<1>9. CASE AgentIdles
  BY <1>9 DEF AgentIdles, EmptyPoll, rvars, files, locals, history, AgentTypeOK, DeviceTypeOK,
     ReconcilerTypeOK
<1>10. QED
  BY <1>1, <1>2, <1>3, <1>4, <1>5, <1>6, <1>7, <1>8, <1>9 DEF Next

LEMMA BoardInitIsTyped == Init => TypeOK
<1> SUFFICES ASSUME Init PROVE TypeOK
  OBVIOUS
<1>1. Whole(Golden) \in Images
  BY DEF Whole, Images, Firmware
<1>2. DeviceTypeOK
  <2>1. mcu \in Mcus
    BY <1>1 DEF Init, Written, Mcus
  <2>2. QED
    BY <1>1, <2>1 DEF Init, DeviceTypeOK
<1>3. ReconcilerTypeOK
  BY CandidateNames DEF Init, Started, ReconcilerTypeOK
<1>4. AgentTypeOK
  <2>1. host \in HostPairs
    BY DEF Init, AgentInit, HostPairs, Dirs
  <2>2. burns \in [Versions -> 0..(MAX_ATTEMPTS + 1)]
    BY DEF Init, AgentInit, MAX_ATTEMPTS
  <2>3. cand \in 1..(Len(CANDIDATES) + 1) /\ st \in State
    BY DefaultIsState, CandidateNames DEF Init, AgentInit
  <2>4. QED
    BY <2>1, <2>2, <2>3 DEF Init, AgentInit, AgentTypeOK, PCs, Dirs
<1>5. QED
  BY <1>2, <1>3, <1>4 DEF TypeOK

\* The board's variables stay in their types through every interleaving of
\* agent, boot recovery, crashes, power cuts, IDE uploads and a lost
\* state.json.
THEOREM BoardTyping == Spec => []TypeOK
<1>1. TypeOK /\ [Next]_vars => TypeOK'
  <2>1. TypeOK /\ UNCHANGED vars => TypeOK'
    BY DEF TypeOK, vars, DeviceTypeOK, AgentTypeOK, ReconcilerTypeOK
  <2>2. QED
    BY <2>1, BoardStepIsTyped
<1>2. QED
  BY <1>1, BoardInitIsTyped, PTL DEF Spec

-----------------------------------------------------------------------------
(***************************************************************************)
(* Boot recovery on the board.  It starts again after every power cut, on  *)
(* whatever the agent and the cut left; what it relies on besides is that  *)
(* golden.bin, which nothing but recovery and rollback reads, is still the *)
(* factory image.                                                          *)
(***************************************************************************)
GoldenStays == images["golden"] = Whole(Golden)

Inhabited == Alive(mcu) \/ mcu = Written(Whole(Foreign))

\* Once golden is on the target something runs there, up to the end.
Revived ==
  (Golden \in Live /\ trouble \subseteq {"health"} /\
     (rpc = "done" \/ (rpc = "check" /\ rcand = 3) \/ (rpc = "try" /\ rcand = 4))) => Inhabited

BootInv == TypeOK /\ GoldenStays /\ AtFirst /\ Revived

\* The agent writes current.bin and previous.bin, never golden.bin.
LEMMA CycleSparesGolden ==
  ASSUME TypeOK, CycleStep
  PROVE  images'["golden"] = images["golden"]
<1>0. images \in [Names -> Images \cup {Nothing}]
  BY DEF TypeOK, DeviceTypeOK
<1>1. CASE CheckDrift \/ KeepPrevious \/ ReplaceCurrent
  BY <1>0, <1>1 DEF CheckDrift, Discard, KeepPrevious, ReplaceCurrent, CopyFails, Names
<1>2. CASE UNCHANGED images
  BY <1>2
<1>3. (CheckDrift \/ KeepPrevious \/ ReplaceCurrent) \/ UNCHANGED images
  BY DEF CycleStep, Refuse, Refused, UpToDate, Defer, HoldFetch, BeginDownload, Download, DownloadHost,
     DownloadFails, Abandon, BeginVerify, VerifyUpdate, Condemn, Unstage, Stamp, Stamped, Stage, Hold,
     RecordFlashAttempt, Arm, Flash, BeginHealth, CheckHealth, ApplyHost, Commit, BeginRollback,
     CondemnFailed, SkipImage, RestoreImage, Recheck, NothingRestored
<1>4. QED
  BY <1>1, <1>2, <1>3

LEMMA RecoveryStepRevives ==
  ASSUME BootInv, ReconcileNext
  PROVE  GoldenStays' /\ AtFirst' /\ Revived'
<1>0. mcu \in Mcus /\ rcand \in 1..4 /\ Len(CANDIDATES) = 3
  BY CandidateNames DEF BootInv, TypeOK, DeviceTypeOK, ReconcilerTypeOK
<1>1. GoldenStays'
  <2>1. UNCHANGED images
    BY DEF ReconcileNext, InitialCheck, SkipCandidate, FlashCandidate, CheckCandidate, Exhausted
  <2>2. QED
    BY <2>1 DEF BootInv, GoldenStays
<1>2. Whole(Golden) \in Images /\ Loadable(Whole(Golden)) /\ Whole(Golden).ver = Golden
  <2>1. Whole(Golden) \in Images /\ Whole(Golden).whole = TRUE /\ Whole(Golden).ver = Golden
    BY DEF Whole, Images, Firmware
  <2>2. QED
    BY <2>1, NothingIsNoImage DEF Loadable
<1>3. CASE InitialCheck
  <2>1. PICK reported \in WaitAlive(mcu) :
          \/ reported # Nothing /\ Finish(TRUE, "none", Nothing)
          \/ reported = Nothing /\ rpc' = "try" /\ UNCHANGED <<rcand, rresult>>
    BY <1>3 DEF InitialCheck
  <2>2. UNCHANGED mcu /\ rcand = 1
    BY <1>3 DEF InitialCheck, BootInv, AtFirst
  <2>3. CASE reported # Nothing /\ Finish(TRUE, "none", Nothing)
    BY <1>0, <1>1, <2>2, <2>3, HealthIsHonest DEF Finish, AtFirst, Revived, Inhabited
  <2>4. CASE rpc' = "try" /\ UNCHANGED <<rcand, rresult>>
    BY <1>1, <2>2, <2>4 DEF AtFirst, Revived
  <2>5. QED
    BY <2>1, <2>3, <2>4
<1>4. CASE SkipCandidate
  <2>1. rpc' = "try" /\ rcand' = rcand + 1
    BY <1>4 DEF SkipCandidate, NextCandidate
  <2>2. rcand = 3 => "read" \in trouble'
    BY <1>2, <1>4, CandidateNames DEF SkipCandidate, BootInv, GoldenStays
  <2>3. QED
    BY <1>0, <1>1, <2>1, <2>2 DEF AtFirst, Revived
<1>5. CASE FlashCandidate
  <2>1. CASE mcu' = Written(images[CANDIDATES[rcand]]) /\ rpc' = "check" /\ UNCHANGED <<rcand, rresult, trouble>>
    <3>1. rcand = 3 /\ Golden \in Live => Alive(mcu')
      BY <1>2, <2>1, WrittenRuns, CandidateNames DEF BootInv, GoldenStays
    <3>2. QED
      BY <1>1, <2>1, <3>1 DEF AtFirst, Revived, Inhabited
  <2>2. CASE trouble' = trouble \cup {"flash"} /\ NextCandidate
    BY <1>1, <2>2 DEF NextCandidate, AtFirst, Revived
  <2>3. QED
    BY <1>5, <2>1, <2>2 DEF FlashCandidate
<1>6. CASE CheckCandidate
  <2>1. PICK reported \in WaitAlive(mcu) :
          /\ Missed(reported)
          /\ \/ reported # Nothing /\ Finish(TRUE, "reflashed", CANDIDATES[rcand])
             \/ reported = Nothing /\ NextCandidate
    BY <1>6 DEF CheckCandidate
  <2>2. UNCHANGED mcu /\ rpc = "check" /\ trouble \subseteq trouble'
    BY <1>6, <2>1, TroubleGrows DEF CheckCandidate
  <2>3. CASE reported # Nothing /\ Finish(TRUE, "reflashed", CANDIDATES[rcand])
    BY <1>0, <1>1, <2>2, <2>3, HealthIsHonest DEF Finish, AtFirst, Revived, Inhabited
  <2>4. CASE NextCandidate
    <3>1. rpc' = "try" /\ rcand' = rcand + 1
      BY <2>4 DEF NextCandidate
    <3>2. Revived'
      BY <1>0, <2>2, <3>1 DEF BootInv, Revived, Inhabited
    <3>3. QED
      BY <1>1, <3>1, <3>2 DEF AtFirst
  <2>5. QED
    BY <2>1, <2>3, <2>4
<1>7. CASE Exhausted
  <2>1. rpc = "try" /\ rcand = 4 /\ rpc' = "done" /\ UNCHANGED <<mcu, trouble>>
    BY <1>0, <1>7 DEF Exhausted, Finish
  <2>2. QED
    BY <1>1, <2>1 DEF BootInv, AtFirst, Revived, Inhabited
<1>8. QED
  BY <1>3, <1>4, <1>5, <1>6, <1>7 DEF ReconcileNext

LEMMA BootInvStep == BootInv /\ [Next]_vars => BootInv'
<1> SUFFICES ASSUME BootInv, [Next]_vars PROVE BootInv'
  OBVIOUS
<1>0. TypeOK'
  <2>1. CASE Next
    BY <2>1, BoardStepIsTyped DEF BootInv
  <2>2. CASE UNCHANGED vars
    BY <2>2 DEF BootInv, TypeOK, vars, DeviceTypeOK, AgentTypeOK, ReconcilerTypeOK
  <2>3. QED
    BY <2>1, <2>2
<1>1. CASE BootStep
  BY <1>0, <1>1, RecoveryStepRevives DEF BootStep, BootInv
<1>2. CASE AgentStep
  BY <1>0, <1>2, CycleSparesGolden DEF AgentStep, rvars, BootInv, GoldenStays, AtFirst, Revived
<1>3. CASE AgentPoll \/ AgentIdles \/ AgentDies \/ StartAgent
  <2>1. UNCHANGED images /\ rpc' = "off"
    BY <1>3 DEF AgentPoll, Poll, AgentIdles, EmptyPoll, AgentDies, Dying, StartAgent, rvars
  <2>2. QED
    BY <1>0, <2>1 DEF BootInv, GoldenStays, AtFirst, Revived
<1>4. CASE PowerLoss
  BY <1>0, <1>4 DEF PowerLoss, Dying, BootInv, GoldenStays, AtFirst, Revived
<1>5. CASE IdeUpload
  BY <1>0, <1>5 DEF IdeUpload, rvars, BootInv, GoldenStays, AtFirst, Revived, Inhabited
<1>6. CASE StateLost
  BY <1>0, <1>6 DEF StateLost, rvars, BootInv, GoldenStays, AtFirst, Revived, Inhabited
<1>7. CASE UNCHANGED vars
  BY <1>0, <1>7 DEF vars, BootInv, GoldenStays, AtFirst, Revived, Inhabited
<1>8. QED
  BY <1>1, <1>2, <1>3, <1>4, <1>5, <1>6, <1>7 DEF Next

\* reconciler.py:1: no update, crash or power cut bricks the board.
THEOREM BricksAreImpossible == Spec => []NeverBricked
<1>1. Init => BootInv
  BY BoardInitIsTyped DEF Init, Started, BootInv, GoldenStays, AtFirst, Revived, Names
<1>2. BootInv => NeverBricked
  BY DEF BootInv, Revived, Inhabited, NeverBricked
<1>3. QED
  BY <1>1, <1>2, BootInvStep, PTL DEF Spec

\* Nobody uploads a sketch through the IDE, which asks no lock.
NoUploads == "ide" \notin Faults

\* The guarantees of reconcile() carry over to the board: every boot starts a
\* recovery afresh, and nothing but an IDE upload interferes with it.
LEMMA RecoveryOnTheBoard ==
  NoUploads /\ TypeOK /\ RecoveryInv /\ [Next]_vars => RecoveryInv'
<1> SUFFICES ASSUME NoUploads, TypeOK, RecoveryInv, [Next]_vars PROVE RecoveryInv'
  OBVIOUS
<1>1. CASE BootStep
  BY <1>1, RecoveryStep DEF BootStep
<1>2. CASE UNCHANGED <<mcu, images, rvars>>
  <2>1. UNCHANGED ReconcileVars
    BY <1>2 DEF rvars, ReconcileVars
  <2>2. QED
    BY <2>1, RecoveryStep
<1>3. CASE Next /\ rpc' \in {"off", "initial"} /\ rcand' = 1
  <2>1. ReconcileTypeOK'
    BY <1>3, BoardStepIsTyped DEF TypeOK, ReconcileTypeOK
  <2>2. QED
    BY <1>3, <2>1 DEF RecoveryInv, AtFirst, OnTrial, GoldenWorked, PassedOver, Silent, HealthyIsTrue,
       NamesTheImage, RestoresNewest
<1>4. CASE Next /\ rpc = "off" /\ UNCHANGED rvars
  <2>1. ReconcileTypeOK' /\ rpc' = "off"
    BY <1>4, BoardStepIsTyped DEF TypeOK, ReconcileTypeOK, rvars
  <2>2. QED
    BY <2>1 DEF RecoveryInv, AtFirst, OnTrial, GoldenWorked, PassedOver, Silent, HealthyIsTrue,
       NamesTheImage, RestoresNewest
<1>5. CASE AgentPoll \/ AgentIdles \/ AgentStep \/ AgentDies
  BY <1>4, <1>5 DEF AgentPoll, AgentIdles, AgentStep, AgentDies, Next
<1>6. CASE StartAgent \/ PowerLoss
  BY <1>3, <1>6 DEF StartAgent, PowerLoss, Next
<1>7. CASE IdeUpload
  BY <1>7 DEF IdeUpload, NoUploads
<1>8. CASE StateLost \/ UNCHANGED vars
  BY <1>2, <1>8 DEF StateLost, vars, rvars
<1>9. QED
  BY <1>1, <1>5, <1>6, <1>7, <1>8 DEF Next

\* Unless somebody uploads in the middle of it, every recovery of a board's
\* life reports what is true and restores the newest image that runs.
THEOREM BoardRecoveriesAreTrue ==
  NoUploads /\ Spec => [](HealthyIsTrue /\ NamesTheImage /\ RestoresNewest)
<1>1. Init => RecoveryInv
  <2> SUFFICES ASSUME Init PROVE RecoveryInv
    OBVIOUS
  <2>1. ReconcileTypeOK
    BY BoardInitIsTyped DEF TypeOK, ReconcileTypeOK
  <2>2. QED
    BY <2>1 DEF Init, Started, RecoveryInv, AtFirst, OnTrial, GoldenWorked, PassedOver, Silent,
       HealthyIsTrue, NamesTheImage, RestoresNewest
<1>2. RecoveryInv => HealthyIsTrue /\ NamesTheImage /\ RestoresNewest
  BY DEF RecoveryInv
<1>3. NoUploads => NoUploads'
  BY DEF NoUploads
<1>4. QED
  BY <1>1, <1>2, <1>3, RecoveryOnTheBoard, BoardTyping, PTL DEF Spec

-----------------------------------------------------------------------------
\* How many steps a cycle of run_once can still take, at most.
CycleRank ==
  CASE pc = "idle" -> 0
    [] pc \in {"abandon", "refused", "stamped"} -> 1
    [] pc = "restore" -> 9 - 2 * cand
    [] pc = "recheck" -> 8 - 2 * cand
    [] pc \in {"condemn", "stamp"} -> 2
    [] pc = "unstage" -> 3
    [] pc = "condemn_failed" -> 8
    [] pc = "rollback" -> 9
    [] pc = "commit_save" -> 10
    [] pc = "commit_current" -> 11
    [] pc = "commit" -> 12
    [] pc = "host" -> 13
    [] pc = "health" -> 14
    [] pc = "flashed" -> 15
    [] pc = "flash" -> 16
    [] pc = "arm" -> 17
    [] pc = "attempt" -> 18
    [] pc = "gate" -> 19
    [] pc = "verified" -> 20
    [] pc = "verify" -> 21
    [] pc = "downloaded" -> 22
    [] pc = "download_host" -> 23
    [] pc = "download" -> 24
    [] OTHER -> 25

LEMMA RankIsTyped == TypeOK => CycleRank \in 0..25
<1> SUFFICES ASSUME TypeOK PROVE CycleRank \in 0..25
  OBVIOUS
<1>1. cand \in 1..4 /\ (pc = "recheck" => cand \in 1..3)
  BY CandidateNames DEF TypeOK, AgentTypeOK
<1>2. QED
  BY <1>1 DEF CycleRank

\* A cycle that ends has come to rank 0, from wherever it was.
LEMMA ReturnIsLast == TypeOK /\ pc # "idle" /\ pc' = "idle" => CycleRank' < CycleRank
<1> SUFFICES ASSUME TypeOK, pc # "idle", pc' = "idle" PROVE CycleRank' < CycleRank
  OBVIOUS
<1>1. cand \in 1..4 /\ (pc = "recheck" => cand \in 1..3) /\ CycleRank' = 0
  BY CandidateNames DEF TypeOK, AgentTypeOK, CycleRank
<1>2. CycleRank >= 1
  BY <1>1 DEF CycleRank
<1>3. QED
  BY <1>1, <1>2, RankIsTyped

LEMMA CycleStepDescends ==
  ASSUME TypeOK, CycleStep
  PROVE  CycleRank' < CycleRank
<1>0. pc # "idle"
  BY DEF CycleStep, Refuse, Refused, UpToDate, Defer, HoldFetch, Acceptable, BeginDownload, Download, DownloadHost,
     DownloadFails, Abandon, BeginVerify, VerifyUpdate, Condemn, Unstage, Stamp, Stamped, Stage, Hold, CheckDrift,
     RecordFlashAttempt, Arm, Flash, BeginHealth, CheckHealth, ApplyHost, KeepPrevious, ReplaceCurrent, Commit,
     BeginRollback, CondemnFailed, SkipImage, RestoreImage, Recheck, NothingRestored
<1>1. CASE pc' = "idle"
  BY <1>0, <1>1, ReturnIsLast
<1>2. CASE pc' # "idle" /\ (Refuse \/ BeginDownload \/ Download \/ DownloadHost \/ DownloadFails \/ BeginVerify
                            \/ VerifyUpdate \/ Condemn \/ Unstage \/ Stamp)
  BY <1>2 DEF Refuse, BeginDownload, Acceptable, Enter, Download, DownloadHost, DownloadFails, BeginVerify,
     VerifyUpdate, Condemn, Unstage, Stamp, Return, CycleRank
<1>3. CASE Stage \/ CheckDrift \/ RecordFlashAttempt \/ Arm \/ Flash \/ BeginHealth \/ CheckHealth \/ ApplyHost
           \/ KeepPrevious \/ ReplaceCurrent \/ BeginRollback
  BY <1>3 DEF Stage, Enter, CheckDrift, RecordFlashAttempt, Arm, Flash, BeginHealth, CheckHealth, ApplyHost,
     KeepPrevious, CopyFails, ReplaceCurrent, BeginRollback, CycleRank
<1>4. CASE CondemnFailed \/ SkipImage \/ RestoreImage \/ Recheck
  <2>1. cand \in 1..4 /\ (pc = "recheck" => cand \in 1..3) /\ Len(CANDIDATES) = 3
    BY CandidateNames DEF TypeOK, AgentTypeOK
  <2>2. CASE CondemnFailed
    BY <2>1, <2>2 DEF CondemnFailed, locals, CycleRank
  <2>3. CASE SkipImage \/ RestoreImage
    BY <2>1, <2>3 DEF SkipImage, RestoreImage, TryNext, locals, CycleRank
  <2>4. CASE Recheck
    <3>1. pc = "recheck" /\ (pc' = "idle" \/ (pc' = "restore" /\ cand' = cand + 1))
      BY <2>4 DEF Recheck, End, Return, TryNext
    <3>2. QED
      BY <1>0, <2>1, <3>1, ReturnIsLast DEF CycleRank
  <2>5. QED
    BY <1>4, <2>2, <2>3, <2>4
<1>5. CASE Refused \/ UpToDate \/ Defer \/ HoldFetch \/ Abandon \/ Stamped \/ Hold \/ Commit \/ NothingRestored
  BY <1>1, <1>5 DEF Refused, UpToDate, Defer, HoldFetch, Abandon, Stamped, Hold, Commit, NothingRestored, End, Return
<1>6. QED
  BY <1>1, <1>2, <1>3, <1>4, <1>5 DEF CycleStep

\* run_once cannot go round: each of its steps brings the cycle nearer to its
\* end, nothing but a new poll takes it away from there, and so no cycle has
\* more than 25 steps after its poll, whatever fails.
THEOREM CyclesGoForward ==
  Spec => [](CycleRank \in 0..25)
          /\ [][(AgentStep => CycleRank' < CycleRank) /\ (AgentPoll \/ CycleRank' <= CycleRank)]_vars
<1>1. TypeOK /\ [Next]_vars =>
        [(AgentStep => CycleRank' < CycleRank) /\ (AgentPoll \/ CycleRank' <= CycleRank)]_vars
  <2> SUFFICES ASSUME TypeOK, Next
               PROVE  (AgentStep => CycleRank' < CycleRank) /\ (AgentPoll \/ CycleRank' <= CycleRank)
    OBVIOUS
  <2>0. CycleRank \in 0..25 /\ CycleRank' \in 0..25
    <3>1. TypeOK'
      BY BoardStepIsTyped
    <3>2. cand' \in 1..4 /\ (pc' = "recheck" => cand' \in 1..3)
      BY <3>1, CandidateNames DEF TypeOK, AgentTypeOK
    <3>3. QED
      BY <3>2, RankIsTyped DEF CycleRank
  <2>1. AgentStep => CycleRank' < CycleRank
    BY CycleStepDescends DEF AgentStep
  <2>2. CASE AgentDies \/ PowerLoss
    <3>1. CycleRank' = 0
      BY <2>2 DEF AgentDies, PowerLoss, Dying, Return, CycleRank
    <3>2. QED
      BY <2>0, <2>1, <3>1
  <2>3. CASE AgentIdles \/ BootStep \/ StartAgent \/ IdeUpload \/ StateLost
    <3>1. UNCHANGED <<pc, cand>>
      BY <2>3 DEF AgentIdles, EmptyPoll, BootStep, StartAgent, IdeUpload, StateLost, agentvars, locals
    <3>2. CycleRank' = CycleRank
      BY <3>1 DEF CycleRank
    <3>3. QED
      BY <2>0, <2>1, <3>2
  <2>4. QED
    BY <2>0, <2>1, <2>2, <2>3 DEF Next
<1>2. QED
  BY <1>1, RankIsTyped, BoardTyping, PTL DEF Spec
=============================================================================
