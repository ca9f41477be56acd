------------------------------- MODULE Verify -------------------------------
(***************************************************************************)
(* unoq_ota/verify.py and load_artifact (artifact.py): the checks between  *)
(* a downloaded update and the microcontroller, in their fixed order.      *)
(*                                                                         *)
(* Cryptography is abstracted to its verdicts.  A manifest is trusted when *)
(* a key of the keyring signed it; its sha256 fields identify the sketch   *)
(* and the host tree the publisher meant, so a digest matches exactly when *)
(* the staged bytes are those.  A sketch that is not whole is one that     *)
(* load_artifact refuses (truncated, wrong magic, wait_for_app...), which  *)
(* a publisher may also have signed by mistake.                            *)
(***************************************************************************)
EXTENDS Device, HostOps

Manifest == [version: Versions,
             sequence: Nat,
             trusted: BOOLEAN,               \* signed by a known key
             fits: BOOLEAN,                  \* target block names this board
             sketch: Images,                 \* what artifact.sha256 is of
             host: Trees \cup {Nothing}]     \* what host_payload.sha256 is of

CONSTANT Manifests      \* what the source may offer

ASSUME ManifestsAssumption == Manifests \subseteq Manifest

\* The VerificationErrors marked poisonable, and every ArtifactError: taken
\* as evidence against the version itself.
Poisonable == {"unfit", "mismatch", "malformed"}

-----------------------------------------------------------------------------
(* The verdicts each check may give; "ok" lets the next one run.            *)

VerifySignature(m) == {IF m.trusted THEN "ok" ELSE "untrusted"}

\* With a clock fault the validity window may exclude now.
VerifyWindow == {"ok"} \cup (IF "clock" \in Faults THEN {"untimely"} ELSE {})

VerifySequence(m, last_sequence) == {IF m.sequence > last_sequence THEN "ok" ELSE "replay"}

VerifyTarget(m) == {IF m.fits THEN "ok" ELSE "unfit"}

\* An I/O error while hashing is not held against the version...
VerifyDigest(got, expected) ==
  {IF got = expected THEN "ok" ELSE "mismatch"}
    \cup (IF "read" \in Faults THEN {"unreadable"} ELSE {})

\* ...but load_artifact wraps one into the same ArtifactError as a bad image.
LoadVerdict(sketch) ==
  {IF Loadable(sketch) THEN "ok" ELSE "malformed"}
    \cup (IF "read" \in Faults THEN {"malformed"} ELSE {})

Then(first, second) == IF "ok" \in first THEN (first \ {"ok"}) \cup second ELSE first

\* A manifest without a host_payload block has no tarball to hash.
VerifyPayloads(m, sketch, tree) ==
  Then(VerifyDigest(sketch, m.sketch), IF m.host = Nothing THEN {"ok"} ELSE VerifyDigest(tree, m.host))

Verdicts_unsigned_mut(m, sketch, tree, last_sequence) ==
  Then(VerifyPayloads(m, sketch, tree), VerifySignature(m))

Verdicts_nodigest_mut(m, sketch, tree, last_sequence) ==
  Then(VerifySignature(m), Then(VerifySequence(m, last_sequence),
    Then(VerifyTarget(m), LoadVerdict(sketch))))

\* verify_manifest in its fixed order, then load_artifact.
Verdicts(m, sketch, tree, last_sequence) ==
  Then(VerifySignature(m), Then(VerifyWindow, Then(VerifySequence(m, last_sequence),
    Then(VerifyTarget(m), Then(VerifyPayloads(m, sketch, tree), LoadVerdict(sketch))))))
=============================================================================
