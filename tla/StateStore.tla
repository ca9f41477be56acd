----------------------------- MODULE StateStore -----------------------------
(***************************************************************************)
(* unoq_ota/state.py: the record kept in state.json and the operations of  *)
(* StateStore.  Every operation is a load-modify-save; the save is a       *)
(* temporary file, an fsync and one rename, so on disk a state is either   *)
(* the one before the operation or the one after it.  The operators here   *)
(* say what the state after it is; the modules that use them decide when   *)
(* the save happens and whether it may fail.                               *)
(*                                                                         *)
(* State.version, State.core_version and State.last_verified_version are   *)
(* written and never read back by a decision: they are left out.           *)
(***************************************************************************)
EXTENDS Common, Naturals

CONSTANTS
  Versions      \* the version strings manifests carry

ASSUME NothingIsNoVersion == Nothing \notin Versions

\* A version is refused once it has used this many attempts.
MAX_ATTEMPTS == 2

Phase == {"idle", "downloading", "verifying", "staged", "flashing",
          "health_check", "committed", "rolling_back", "rolled_back", "rejected"}

State == [phase: Phase,
          attempts: [Versions -> Nat],
          poisoned: SUBSET Versions,
          sequence: Nat,
          last_verified_sequence: Nat,
          committed_version: Versions \cup {Nothing},
          previous_version: Versions \cup {Nothing}]

\* What load() returns when state.json is absent, is not JSON, or is not an
\* object: a version without an attempts entry counts zero.
DefaultState == [phase |-> "idle",
                 attempts |-> [v \in Versions |-> 0],
                 poisoned |-> {},
                 sequence |-> 0,
                 last_verified_sequence |-> 0,
                 committed_version |-> Nothing,
                 previous_version |-> Nothing]

RecordAttempt(s, v) == [s EXCEPT !.attempts[v] = @ + 1]

Poison(s, v) == [s EXCEPT !.poisoned = @ \cup {v}]

IsPoisoned(s, v) == v \in s.poisoned

AttemptsFor(s, v) == s.attempts[v]

\* Agent._set, without the fields left out above.
SetPhase(s, p) == [s EXCEPT !.phase = p]
=============================================================================
