---------------------------- MODULE SharedBoard -----------------------------
(***************************************************************************)
(* unoq-ota.service and unoq-ota-jobs.service on one board: two processes, *)
(* each with an Agent of its own, over one state directory.  The jobs      *)
(* process polls whenever it is poked, always with no_flash (cli.py:295).  *)
(* DESIGN.md:341 names an ota.lock; no code takes one, so nothing orders   *)
(* the steps of the two.                                                   *)
(*                                                                         *)
(* With two of them, a staged file may be gone when it is needed.  The     *)
(* steps that meet that are here; all others are those of Agent.           *)
(***************************************************************************)
EXTENDS UpdateSystem

VARIABLES jpc, jupd, jno_flash, jcand, jhad_current, jreport

joblocals == <<jpc, jupd, jno_flash, jcand, jhad_current, jreport>>
runlocals == <<pc, upd, no_flash, cand, had_current, report>>
sharedvars == <<vars, joblocals>>

Jobs == INSTANCE Agent WITH
  Modes <- {TRUE}, pc <- jpc, upd <- jupd, no_flash <- jno_flash, cand <- jcand,
  had_current <- jhad_current, report <- jreport

SharedInit ==
  /\ Init
  /\ jpc = "idle" /\ jupd = Nothing /\ jno_flash = FALSE /\ jcand = 1
  /\ jhad_current = FALSE /\ jreport = Nothing

-----------------------------------------------------------------------------
\* verify_digest cannot open the file: not held against the version.
VerifyMissing ==
  /\ pc = "verify" /\ staged = Nothing /\ pc' = "abandon"
  /\ UNCHANGED <<st, files, host, locals, report, history, mcu, images>>

\* write_sketch has only a path: openocd halts the core and finds no file.
FlashMissing ==
  /\ pc = "flash" /\ staged = Nothing
  /\ Burn(upd.version) /\ mcu' = Halted(mcu) /\ pc' = "abandon"
  /\ UNCHANGED <<st, files, host, locals, report, proven, images>>

CopyMissing ==
  /\ pc = "commit_current" /\ staged = Nothing /\ pc' = "abandon"
  /\ UNCHANGED <<st, files, host, locals, report, history, mcu, images>>

RunStep ==
  /\ rpc = "off"
  /\ \/ \E m \in Manifests : Poll(m)
     \/ EmptyPoll
     \/ CycleStep /\ ~(staged = Nothing /\ pc \in {"verify", "flash", "commit_current"})
     \/ VerifyMissing \/ FlashMissing \/ CopyMissing
  /\ UNCHANGED <<rvars, joblocals>>

\* A poke runs one cycle; this unit does not wait for the boot recovery.
JobsStep ==
  /\ \/ \E m \in Manifests : Jobs!Poll(m)
     \/ Jobs!CycleStep /\ ~(staged = Nothing /\ jpc = "verify")
     \/ /\ jpc = "verify" /\ staged = Nothing /\ jpc' = "abandon"
        /\ UNCHANGED <<st, files, host, jupd, jno_flash, jcand, jhad_current, jreport,
                       history, mcu, images>>
  /\ UNCHANGED <<rvars, runlocals>>

SharedNext ==
  RunStep \/ JobsStep \/ ((BootStep \/ StartAgent) /\ UNCHANGED joblocals)

SharedSpec == SharedInit /\ [][SharedNext]_sharedvars

-----------------------------------------------------------------------------
\* README.md:28: the agent "Verifies signature, digest, board compatibility,
\* and the sketch header before the MCU is touched at all".  What is about to
\* be written is what was verified: the sketch of the update under way.
VerifiedBeforeTouched == (pc = "flash" /\ staged # Nothing) => staged = upd.sketch
=============================================================================
