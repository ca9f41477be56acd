------------------------------- MODULE Agent --------------------------------
(***************************************************************************)
(* unoq_ota/agent.py: Agent.run_once, the update state machine.  A step    *)
(* makes at most one durable change (a save of state.json, a file, a write *)
(* to the microcontroller), so that a crash may fall between any two; the  *)
(* report that goes with a change is part of its step, and the two staged  *)
(* files, which are only read after being fetched anew, are removed        *)
(* together.  pc names the next change; "idle" is between two cycles.      *)
(*                                                                         *)
(* Definitions whose name ends in _mut are mutations: plausible slips in   *)
(* the code, used to confirm that a property notices them.                 *)
(***************************************************************************)
EXTENDS Verify, Sequences

CONSTANT Modes      \* the values of --no-flash the running services use

ASSUME ModesAssumption == Modes \subseteq BOOLEAN

VARIABLES
  st,           \* state.json
  staged,       \* staged.bin
  shost,        \* staged-host.tar.gz
  host,         \* the host tree: live_dir and live_dir.previous
  pc,
  upd,          \* the manifest of this cycle, Nothing between cycles
  no_flash,
  cand,         \* index of the rollback candidate under trial
  had_current,  \* current.bin existed when the commit began
  report,       \* the last status reported in this cycle
  burns,        \* history: writes of a version's image begun, up to the cap + 1
  proven        \* history: images that have passed their health check

locals == <<upd, no_flash, cand, had_current>>
files == <<staged, shost>>
history == <<burns, proven>>
agentvars == <<st, staged, shost, host, pc, upd, no_flash, cand, had_current,
               report, burns, proven>>

PCs == {"idle", "screen", "refused", "download", "download_host", "downloaded",
        "abandon", "verify", "condemn", "unstage", "stamp", "stamped", "verified",
        "gate", "attempt", "arm", "flash", "flashed", "health", "host", "commit",
        "commit_current", "commit_save", "rollback", "condemn_failed", "restore",
        "recheck"}

Status == {"downloading", "waiting_for_gate", "flashing", "committed",
           "rolled_back", "rejected", "verified"}

ASSUME NothingIsNoStatus == Nothing \notin Status

AgentTypeOK ==
  /\ st \in State
  /\ staged \in Images \cup {Nothing}
  /\ shost \in Dirs
  /\ host \in HostPairs
  /\ pc \in PCs
  /\ upd \in Manifests \cup {Nothing}
  /\ pc # "idle" => upd \in Manifests
  /\ no_flash \in BOOLEAN
  /\ cand \in 1..(Len(CANDIDATES) + 1)
  /\ pc = "recheck" => cand \in 1..Len(CANDIDATES)
  /\ pc \in {"verified", "gate", "attempt", "arm", "flash", "flashed", "health",
             "host", "commit", "commit_current", "commit_save"} => staged \in Images
  /\ had_current \in BOOLEAN
  /\ report \in Status \cup {Nothing}
  /\ burns \in [Versions -> 0..(MAX_ATTEMPTS + 1)]
  /\ proven \in SUBSET Images

AgentInit ==
  /\ st = DefaultState
  /\ staged = Nothing /\ shost = Nothing
  /\ host = [live |-> Nothing, previous |-> Nothing]
  /\ pc = "idle" /\ upd = Nothing /\ no_flash = FALSE /\ cand = 1 /\ had_current = FALSE
  /\ report = Nothing
  /\ burns = [v \in Versions |-> 0] /\ proven = {}

-----------------------------------------------------------------------------
\* StateStore writes inside _try_store and _set: a failure is logged and the
\* cycle goes on with the old file.
Persist(s) == st' = s \/ ("store" \in Faults /\ st' = st)

\* run_once returns: what it held in memory is gone.
Return ==
  /\ pc' = "idle" /\ upd' = Nothing /\ no_flash' = FALSE /\ cand' = 1 /\ had_current' = FALSE

\* Report a status, record the phase it ends in, and return.
End(status, phase) ==
  /\ report' = status /\ Persist(SetPhase(st, phase)) /\ Return

\* _set(phase) on the way.
Enter(phase, next) == Persist(SetPhase(st, phase)) /\ pc' = next

-----------------------------------------------------------------------------
\* Screening: source.check, the poison list, the attempt cap, the watermark.

\* source.check is given the poison list and keeps quiet about its versions.
Offers(m) == ~IsPoisoned(st, m.version)

\* An unreachable, unreadable or poisoned manifest: check answers None.
EmptyPoll ==
  /\ pc = "idle"
  /\ report' = Nothing
  /\ UNCHANGED <<st, files, host, pc, locals, history, mcu, images>>

Poll(m) ==
  /\ pc = "idle" /\ Offers(m)
  /\ pc' = "screen" /\ upd' = m /\ no_flash' \in Modes /\ report' = Nothing
  /\ UNCHANGED <<st, files, host, cand, had_current, history, mcu, images>>

\* The agent's own look at the poison list comes a moment after the source's.
Refusable == IsPoisoned(st, upd.version) \/ AttemptsFor(st, upd.version) >= MAX_ATTEMPTS

Refuse_mut ==
  /\ pc = "screen" /\ Refusable
  /\ UNCHANGED st /\ pc' = "refused"
  /\ UNCHANGED <<files, host, locals, report, history, mcu, images>>

Refuse ==
  /\ pc = "screen" /\ Refusable
  /\ Persist(Poison(st, upd.version)) /\ pc' = "refused"
  /\ UNCHANGED <<files, host, locals, report, history, mcu, images>>

Refused ==
  /\ pc = "refused"
  /\ End("rejected", "rejected")
  /\ UNCHANGED <<files, host, history, mcu, images>>

Watermark == IF st.sequence >= st.last_verified_sequence
               THEN st.sequence ELSE st.last_verified_sequence

Acceptable == pc = "screen" /\ ~Refusable /\ upd.sequence > Watermark

\* _unlink_staged is not guarded: a refused removal ends the process.
Unlink == staged' = Nothing /\ shost' = Nothing
UnlinkFails == "store" \in Faults /\ UNCHANGED files

UpToDate ==
  /\ pc = "screen" /\ ~Refusable /\ upd.sequence <= Watermark
  /\ \/ Unlink /\ report' = "verified"
     \/ UnlinkFails /\ UNCHANGED report
  /\ Return
  /\ UNCHANGED <<st, host, history, mcu, images>>

\* An implausible clock, a full disk or a closed fetch gate: not the update's
\* fault, so no attempt is counted.
Preflight == "clock" \notin Faults /\ "disk" \notin Faults
MayFetch == "gate" \notin Faults

Defer ==
  /\ Acceptable /\ ~Preflight
  /\ End("waiting_for_gate", "idle")
  /\ UNCHANGED <<files, host, history, mcu, images>>

HoldFetch ==
  /\ Acceptable /\ ~MayFetch
  /\ End("waiting_for_gate", "idle")
  /\ UNCHANGED <<files, host, history, mcu, images>>

-----------------------------------------------------------------------------
\* Download and verification.

BeginDownload ==
  /\ Acceptable
  /\ Enter("downloading", "download") /\ report' = "downloading"
  /\ UNCHANGED <<files, host, locals, history, mcu, images>>

\* With a corrupting link or server, any bytes at all may arrive.
Download ==
  /\ pc = "download"
  /\ staged' = upd.sketch \/ ("corrupt" \in Faults /\ staged' \in Images)
  /\ pc' = IF upd.host = Nothing THEN "downloaded" ELSE "download_host"
  /\ UNCHANGED <<st, shost, host, locals, report, history, mcu, images>>

DownloadHost ==
  /\ pc = "download_host"
  /\ shost' = upd.host \/ ("corrupt" \in Faults /\ shost' \in Trees \cup {Torn})
  /\ pc' = "downloaded"
  /\ UNCHANGED <<st, staged, host, locals, report, history, mcu, images>>

\* A fetch that fails leaves the file as it was, removed by the clean-up of
\* download(), or partial when that clean-up fails too or never runs.
Leftovers(old, partial) == {old, Nothing, partial}

DownloadFails ==
  /\ "fetch" \in Faults
  /\ \/ pc = "download" /\ staged' \in Leftovers(staged, Partial(upd.sketch.ver)) /\ UNCHANGED shost
     \/ pc = "download_host" /\ shost' \in Leftovers(shost, Torn) /\ UNCHANGED staged
  /\ pc' = "abandon"
  /\ UNCHANGED <<st, host, locals, report, history, mcu, images>>

\* A failure that is not held against the version.
Abandon ==
  /\ pc = "abandon"
  /\ End("rejected", "idle")
  /\ UNCHANGED <<files, host, history, mcu, images>>

BeginVerify ==
  /\ pc = "downloaded"
  /\ Enter("verifying", "verify")
  /\ UNCHANGED <<files, host, locals, report, history, mcu, images>>

VerifyUpdate ==
  /\ pc = "verify"
  /\ \E verdict \in Verdicts(upd, staged, shost, st.sequence) :
       \/ /\ verdict = "ok" /\ pc' = IF no_flash THEN "unstage" ELSE "verified"
          /\ UNCHANGED st
       \/ /\ verdict \in Poisonable /\ pc' = "condemn"
          /\ Persist(RecordAttempt(st, upd.version))
       \/ /\ verdict \notin Poisonable \cup {"ok"} /\ pc' = "abandon"
          /\ UNCHANGED st
  /\ UNCHANGED <<files, host, locals, report, history, mcu, images>>

Condemn ==
  /\ pc = "condemn"
  /\ Persist(Poison(st, upd.version)) /\ pc' = "refused"
  /\ UNCHANGED <<files, host, locals, report, history, mcu, images>>

-----------------------------------------------------------------------------
\* Verify-only cycles (--no-flash) stop here, after dropping the staged files
\* and stamping the watermark.

Unstage ==
  /\ pc = "unstage"
  /\ \/ Unlink /\ pc' = "stamp" /\ UNCHANGED locals
     \/ UnlinkFails /\ Return
  /\ UNCHANGED <<st, host, report, history, mcu, images>>

\* This save is not guarded: a failure ends the process.
Stamp ==
  /\ pc = "stamp"
  /\ \/ /\ st' = [st EXCEPT !.last_verified_sequence = upd.sequence]
        /\ pc' = "stamped" /\ UNCHANGED locals
     \/ "store" \in Faults /\ Return /\ UNCHANGED st
  /\ UNCHANGED <<files, host, report, history, mcu, images>>

Stamped ==
  /\ pc = "stamped"
  /\ End("verified", "idle")
  /\ UNCHANGED <<files, host, history, mcu, images>>

-----------------------------------------------------------------------------
\* Gate, drift and the flash itself.

Stage ==
  /\ pc = "verified"
  /\ Enter("staged", "gate")
  /\ UNCHANGED <<files, host, locals, report, history, mcu, images>>

\* may_flash says no: the phase stays STAGED.
Hold ==
  /\ pc = "gate" /\ "gate" \in Faults
  /\ report' = "waiting_for_gate" /\ Return
  /\ UNCHANGED <<st, files, host, history, mcu, images>>

\* Removing current.bin may fail; that is logged and the file stays.
Discard == \/ images' = [images EXCEPT !["current"] = Nothing]
           \/ "store" \in Faults /\ UNCHANGED images

\* Without current.bin there is nothing to compare and the target is left
\* alone; otherwise the header is read over SWD.  On drift, and when either
\* side of the comparison cannot be read, current.bin is dropped.
CheckDrift ==
  /\ pc = "gate"
  /\ IF images["current"] = Nothing THEN UNCHANGED <<mcu, images>>
     ELSE \/ /\ mcu' = HeaderRead(mcu)
             /\ IF Drift(mcu, images["current"]) THEN Discard ELSE UNCHANGED images
          \/ mcu' \in FailedRead(mcu) /\ Discard
          \/ "read" \in Faults /\ UNCHANGED mcu /\ Discard
  /\ pc' = "attempt"
  /\ UNCHANGED <<st, files, host, locals, report, history>>

RecordFlashAttempt_mut ==
  /\ pc = "attempt"
  /\ UNCHANGED st /\ pc' = "arm"
  /\ UNCHANGED <<files, host, locals, report, history, mcu, images>>

RecordFlashAttempt ==
  /\ pc = "attempt"
  /\ Persist(RecordAttempt(st, upd.version)) /\ pc' = "arm"
  /\ UNCHANGED <<files, host, locals, report, history, mcu, images>>

Arm_mut ==
  /\ pc = "arm"
  /\ pc' = "flash" /\ report' = "flashing"
  /\ UNCHANGED <<st, files, host, locals, history, mcu, images>>

Arm ==
  /\ pc = "arm"
  /\ Enter("flashing", "flash") /\ report' = "flashing"
  /\ UNCHANGED <<files, host, locals, history, mcu, images>>

Burn(v) ==
  burns' = [burns EXCEPT ![v] = IF @ <= MAX_ATTEMPTS THEN @ + 1 ELSE @]

\* router_stopped() around write_sketch; the router guard never raises.  A
\* FlashError is reported and the cycle abandoned: nothing is rolled back.
Flash ==
  /\ pc = "flash"
  /\ Burn(upd.version)
  /\ \/ mcu' = Written(staged) /\ pc' = "flashed"
     \/ mcu' \in FailedWrite(mcu, staged) /\ pc' = "abandon"
  /\ UNCHANGED <<st, files, host, locals, report, proven, images>>

-----------------------------------------------------------------------------
\* Health, the host side and the commit.

BeginHealth ==
  /\ pc = "flashed"
  /\ Enter("health_check", "health")
  /\ UNCHANGED <<files, host, locals, report, history, mcu, images>>

CheckHealth_mut ==
  /\ pc = "health"
  /\ \E reported \in WaitAlive(mcu) :
       /\ pc' = "host"
       /\ proven' = IF reported = upd.version THEN proven \cup {mcu.flash} ELSE proven
  /\ UNCHANGED <<st, files, host, locals, report, burns, mcu, images>>

CheckHealth ==
  /\ pc = "health"
  /\ \E reported \in WaitAlive(mcu) :
       IF reported = upd.version
         THEN pc' = "host" /\ proven' = proven \cup {mcu.flash}
         ELSE pc' = "rollback" /\ UNCHANGED proven
  /\ UNCHANGED <<st, files, host, locals, report, burns, mcu, images>>

ApplyHost_mut ==
  /\ pc = "host"
  /\ \/ upd.host = Nothing /\ pc' = "commit" /\ UNCHANGED host
     \/ upd.host # Nothing /\ pc' = "commit" /\ host' = Swapped(host, shost)
     \/ /\ upd.host # Nothing /\ "host" \in Faults
        /\ pc' = "commit" /\ host' \in HostFailures(host, shost)
  /\ UNCHANGED <<st, files, locals, report, history, mcu, images>>

ApplyHost ==
  /\ pc = "host"
  /\ \/ upd.host = Nothing /\ pc' = "commit" /\ UNCHANGED host
     \/ upd.host # Nothing /\ pc' = "commit" /\ host' = Swapped(host, shost)
     \/ /\ upd.host # Nothing /\ "host" \in Faults
        /\ pc' = "rollback" /\ host' \in HostFailures(host, shost)
  /\ UNCHANGED <<st, files, locals, report, history, mcu, images>>

\* A copy that fails leaves its target as it was and abandons the cycle.
CopyFails == "store" \in Faults /\ pc' = "abandon" /\ UNCHANGED <<images, had_current>>

KeepPrevious ==
  /\ pc = "commit"
  /\ \/ /\ had_current' = (images["current"] # Nothing)
        /\ images' = IF images["current"] # Nothing
                       THEN [images EXCEPT !["previous"] = images["current"]] ELSE images
        /\ pc' = "commit_current"
     \/ CopyFails
  /\ UNCHANGED <<st, files, host, upd, no_flash, cand, report, history, mcu>>

ReplaceCurrent_mut ==
  /\ pc = "commit_current"
  /\ images' = [images EXCEPT !["current"] = staged] /\ staged' = Nothing
  /\ pc' = "commit_save"
  /\ UNCHANGED <<st, shost, host, locals, report, history, mcu>>

ReplaceCurrent ==
  /\ pc = "commit_current"
  /\ \/ images' = [images EXCEPT !["current"] = staged] /\ pc' = "commit_save"
        /\ UNCHANGED had_current
     \/ CopyFails
  /\ UNCHANGED <<st, files, host, upd, no_flash, cand, report, history, mcu>>

CommitState_mut ==
  [st EXCEPT !.committed_version = upd.version, !.phase = "committed"]

CommitState ==
  [st EXCEPT !.previous_version = IF had_current THEN st.committed_version ELSE @,
             !.committed_version = upd.version,
             !.sequence = upd.sequence,
             !.phase = "committed"]

Commit ==
  /\ pc = "commit_save"
  /\ Persist(CommitState) /\ report' = "committed" /\ Return
  /\ UNCHANGED <<files, host, history, mcu, images>>

-----------------------------------------------------------------------------
\* In-band rollback.

BeginRollback ==
  /\ pc = "rollback"
  /\ Enter("rolling_back", "condemn_failed")
  /\ UNCHANGED <<files, host, locals, report, history, mcu, images>>

CondemnFailed ==
  /\ pc = "condemn_failed"
  /\ Persist(Poison(st, upd.version)) /\ pc' = "restore"
  /\ UNCHANGED <<files, host, locals, report, history, mcu, images>>

TryNext == pc' = "restore" /\ cand' = cand + 1 /\ UNCHANGED <<upd, no_flash, had_current>>

Candidate == images[CANDIDATES[cand]]

SkipImage ==
  /\ pc = "restore" /\ cand <= Len(CANDIDATES)
  /\ ~Loadable(Candidate) \/ "read" \in Faults
  /\ TryNext
  /\ UNCHANGED <<st, files, host, report, history, mcu, images>>

RestoreImage ==
  /\ pc = "restore" /\ cand <= Len(CANDIDATES) /\ Loadable(Candidate)
  /\ \/ mcu' = Written(Candidate) /\ pc' = "recheck" /\ UNCHANGED locals
     \/ mcu' \in FailedWrite(mcu, Candidate) /\ TryNext
  /\ UNCHANGED <<st, files, host, report, history, images>>

\* _expected_image_version: state.json names current.bin and previous.bin.
Expected == CASE CANDIDATES[cand] = "current"  -> st.committed_version
              [] CANDIDATES[cand] = "previous" -> st.previous_version
              [] OTHER                         -> Nothing

Restored_mut(reported) ==
  reported # Nothing /\ (Expected = Nothing \/ reported = Expected)

Restored(reported) ==
  /\ reported # Nothing /\ reported # upd.version
  /\ Expected = Nothing \/ reported = Expected

Recheck ==
  /\ pc = "recheck"
  /\ \E reported \in WaitAlive(mcu) :
       \/ Restored(reported) /\ End("rolled_back", "rolled_back")
       \/ ~Restored(reported) /\ TryNext /\ UNCHANGED <<st, report>>
  /\ UNCHANGED <<files, host, history, mcu, images>>

NothingRestored ==
  /\ pc = "restore" /\ cand > Len(CANDIDATES)
  /\ End("rejected", "rejected")
  /\ UNCHANGED <<files, host, history, mcu, images>>

-----------------------------------------------------------------------------
\* A step of a cycle that has begun.
CycleStep ==
  \/ Refuse \/ Refused \/ UpToDate \/ Defer \/ HoldFetch
  \/ BeginDownload \/ Download \/ DownloadHost \/ DownloadFails \/ Abandon
  \/ BeginVerify \/ VerifyUpdate \/ Condemn
  \/ Unstage \/ Stamp \/ Stamped
  \/ Stage \/ Hold \/ CheckDrift \/ RecordFlashAttempt \/ Arm \/ Flash
  \/ BeginHealth \/ CheckHealth \/ ApplyHost \/ KeepPrevious \/ ReplaceCurrent \/ Commit
  \/ BeginRollback \/ CondemnFailed \/ SkipImage \/ RestoreImage \/ Recheck \/ NothingRestored


\* What the process was in the middle of when it died: a file half fetched,
\* an image half written, a host tree half swapped.
Dying ==
  /\ staged' \in IF pc = "download" THEN Leftovers(staged, Partial(upd.sketch.ver)) ELSE {staged}
  /\ shost' \in IF pc = "download_host" THEN Leftovers(shost, Torn) ELSE {shost}
  /\ host' \in IF pc = "host" /\ upd.host # Nothing THEN HostCrashes(host, shost) ELSE {host}
  /\ IF pc = "flash" THEN Burn(upd.version) ELSE UNCHANGED burns
  /\ Return
  /\ UNCHANGED <<st, report, proven, images>>

\* The same of the target; reading its header for the drift check halts it.
HalfWritten ==
  CASE pc = "flash" -> Interrupted(mcu, staged)
    [] pc = "gate" /\ images["current"] # Nothing -> Preamble(mcu)
    [] pc = "restore" /\ cand <= Len(CANDIDATES) ->
         IF Loadable(Candidate) THEN Interrupted(mcu, Candidate) ELSE {mcu}
    [] OTHER -> {mcu}
=============================================================================
