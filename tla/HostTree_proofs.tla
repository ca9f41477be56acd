--------------------------- MODULE HostTree_proofs ---------------------------
(***************************************************************************)
(* The host swap and its rollback, for every set of payloads, any number   *)
(* of updates, a failure of any operation and a crash between any two.     *)
(***************************************************************************)
EXTENDS HostTree, TLAPS

\* live_dir holds x and .previous holds y.
At(x, y) == dir["live"] = x /\ dir["previous"] = y
Old == At(before.live, before.previous)
New == At(payload, before.live)

(***************************************************************************)
(* The inductive invariant says where the two trees of the update are at   *)
(* each directory operation, as long as the filesystem has refused none.   *)
(* The rollback may start from either side of the swap; it starts from the *)
(* far side when the archive did extract.                                  *)
(***************************************************************************)
Applying ==
  /\ hpc \in {"clean_next", "extract", "drop_previous"} => Old
  /\ hpc = "park_live" => At(before.live, Nothing)
  /\ hpc = "install" => At(Nothing, before.live)
  /\ hpc = "joint_check" => New

Ancestors == IF Clean THEN {before.live} ELSE {before.live, before.previous}

Undoing ==
  /\ hpc \in {"undo", "park_failed"} => New \/ (~Clean /\ Old)
  /\ hpc = "park_failed" => dir["previous"] # Nothing
  /\ hpc = "restore" => \E x \in Ancestors \ {Nothing} : At(Nothing, x)
  /\ hpc = "drop_failed" => \E x \in Ancestors \ {Nothing} : At(x, Nothing)

Undone ==
  \/ \E x \in Ancestors \ {Nothing} : At(x, Nothing)
  \/ before.live = Nothing /\ New
  \/ ~Clean /\ before.previous = Nothing /\ Old

Crashed ==
  \/ Old \/ New \/ At(before.live, Torn) \/ At(before.live, Nothing)
  \/ \E x \in Ancestors : At(Nothing, x) \/ (x # Nothing /\ At(x, Nothing))

Settled ==
  hpc = "idle" => /\ outcome = "none" => Old
                  /\ outcome = "applied" => New
                  /\ outcome = "undone" => Undone
                  /\ outcome = "crashed" => Crashed

Placed == "disk" \notin mishaps => Applying /\ Undoing /\ Settled

HostInv == HostTypeOK /\ (hpc # "idle" => outcome = "none") /\ Placed

-----------------------------------------------------------------------------
LEMMA PlacesAre ==
  /\ "live" \in Places /\ "next" \in Places /\ "previous" \in Places /\ "failed" \in Places
BY DEF Places

\* An operation on one directory changes that one, and a rename its two.
LEMMA SetDirs ==
  ASSUME dir \in [Places -> Dirs], NEW d \in Places, NEW x \in Dirs, Set(d, x)
  PROVE  dir' \in [Places -> Dirs] /\ \A p \in Places : dir'[p] = IF p = d THEN x ELSE dir[p]
BY DEF Set

LEMMA MoveDirs ==
  ASSUME dir \in [Places -> Dirs], NEW d \in Places, NEW e \in Places, d # e, Move(d, e)
  PROVE  /\ dir' \in [Places -> Dirs]
         /\ \A p \in Places : dir'[p] = IF p = d THEN Nothing ELSE IF p = e THEN dir[d] ELSE dir[p]
BY DEF Move, Dirs

LEMMA DirValues == Nothing \in Dirs /\ Torn \in Dirs /\ Trees \subseteq Dirs
BY DEF Dirs

\* Refused by the filesystem: nothing is claimed from here on.
LEMMA DiskTrouble ==
  ASSUME HostInv, HostTypeOK', "disk" \in mishaps', hpc' # "idle" => outcome' = "none"
  PROVE  HostInv'
BY DEF HostInv, Placed

\* Each directory operation keeps the variables typed.
LEMMA ApplyingIsTyped ==
  ASSUME HostTypeOK, CleanNext \/ Extract \/ DropPrevious \/ ParkLive \/ Install \/ JointCheck
  PROVE  HostTypeOK'
<1> USE PlacesAre, DirValues
<1>0. dir \in [Places -> Dirs] /\ payload \in Trees /\ payload \in Dirs
  BY DEF HostTypeOK
<1>1. CASE CleanNext
  BY <1>0, <1>1, SetDirs DEF CleanNext, Go, RemovalFails, Raise, HostTypeOK, Steps
<1>2. CASE Extract
  <2>1. CASE Set("next", payload) /\ Go("drop_previous")
    <3>1. dir' \in [Places -> Dirs] /\ dir'["next"] = payload
      BY <1>0, <2>1, SetDirs
    <3>2. QED
      BY <2>1, <3>1 DEF Go, HostTypeOK, Steps
  <2>2. CASE (UNCHANGED dir \/ Set("next", Torn)) /\ Raise("extract")
    <3>1. dir' \in [Places -> Dirs]
      BY <1>0, <2>2, SetDirs
    <3>2. QED
      BY <2>2, <3>1 DEF Raise, HostTypeOK, Steps
  <2>3. QED
    BY <1>2, <2>1, <2>2 DEF Extract
<1>3. CASE DropPrevious
  BY <1>0, <1>3, SetDirs DEF DropPrevious, Go, RemovalFails, Raise, HostTypeOK, Steps
<1>4. CASE ParkLive
  <2>1. CASE Move("live", "previous") /\ Go("install")
    <3>1. dir' \in [Places -> Dirs] /\ dir'["next"] = dir["next"]
      BY <1>0, <2>1, MoveDirs
    <3>2. QED
      BY <1>4, <2>1, <3>1 DEF ParkLive, Go, HostTypeOK, Steps
  <2>2. CASE RenameFails
    BY <2>2 DEF RenameFails, Raise, HostTypeOK, Steps
  <2>3. QED
    BY <1>4, <2>1, <2>2 DEF ParkLive
<1>5. CASE Install
  BY <1>0, <1>5, MoveDirs DEF Install, Go, RenameFails, Raise, HostTypeOK, Steps
<1>6. CASE JointCheck
  BY <1>0, <1>6 DEF JointCheck, Settle, Raise, HostTypeOK, Steps
<1>7. QED
  BY <1>1, <1>2, <1>3, <1>4, <1>5, <1>6

LEMMA UndoingIsTyped ==
  ASSUME HostTypeOK, Undo \/ ParkFailed \/ Restore \/ DropFailed \/ Crash
  PROVE  HostTypeOK'
<1> USE PlacesAre, DirValues
<1>0. dir \in [Places -> Dirs]
  BY DEF HostTypeOK
<1>1. CASE Undo
  BY <1>0, <1>1, SetDirs DEF Undo, Go, GiveUp, Settle, HostTypeOK, Steps
<1>2. CASE ParkFailed
  BY <1>0, <1>2, MoveDirs DEF ParkFailed, Go, GiveUp, Settle, HostTypeOK, Steps
<1>3. CASE Restore
  BY <1>0, <1>3, MoveDirs DEF Restore, Go, GiveUp, Settle, HostTypeOK, Steps
<1>4. CASE DropFailed
  BY <1>0, <1>4, SetDirs DEF DropFailed, GiveUp, Settle, HostTypeOK, Steps
<1>5. CASE Crash
  <2>1. Busy \subseteq Places
    BY DEF Busy
  <2>2. dir' \in [Places -> Dirs]
    BY <1>0, <1>5, <2>1, SetDirs DEF Crash
  <2>3. QED
    BY <1>5, <2>2 DEF Crash, Settle, HostTypeOK, Steps
<1>6. QED
  BY <1>1, <1>2, <1>3, <1>4, <1>5
-----------------------------------------------------------------------------
\* Going on to another operation with no new mishap: what the invariant asks
\* of the directories there.
LEMMA GoKeeps ==
  ASSUME HostInv, HostTypeOK', NEW step, Go(step), hpc # "idle", step # "idle",
         "disk" \notin mishaps => (Applying /\ Undoing)'
  PROVE  HostInv'
BY DEF HostInv, Placed, Go, Settled

LEMMA CleanNextKeeps ==
  ASSUME HostInv, CleanNext
  PROVE  HostInv'
<1>0. HostTypeOK' /\ hpc = "clean_next" /\ outcome = "none" /\ dir \in [Places -> Dirs]
  BY ApplyingIsTyped DEF HostInv, CleanNext, HostTypeOK
<1>1. CASE RemovalFails("next")
  BY <1>0, <1>1, DiskTrouble DEF RemovalFails, Raise
<1>2. CASE Set("next", Nothing) /\ Go("extract")
  <2>1. dir'["live"] = dir["live"] /\ dir'["previous"] = dir["previous"]
    BY <1>0, <1>2, SetDirs, PlacesAre, DirValues
  <2>2. "disk" \notin mishaps => (Applying /\ Undoing)'
    BY <1>0, <1>2, <2>1 DEF HostInv, Placed, Go, Applying, Undoing, Old, At
  <2>3. QED
    BY <1>0, <1>2, <2>2, GoKeeps
<1>3. QED
  BY <1>1, <1>2 DEF CleanNext

LEMMA ExtractKeeps ==
  ASSUME HostInv, Extract
  PROVE  HostInv'
<1>0. HostTypeOK' /\ hpc = "extract" /\ outcome = "none" /\ dir \in [Places -> Dirs]
      /\ payload \in Dirs
  BY ApplyingIsTyped, DirValues DEF HostInv, Extract, HostTypeOK
<1>1. CASE (UNCHANGED dir \/ Set("next", Torn)) /\ Raise("extract")
  <2>0. dir'["live"] = dir["live"] /\ dir'["previous"] = dir["previous"]
    BY <1>0, <1>1, SetDirs, PlacesAre, DirValues
  <2>1. /\ hpc' = "undo" /\ outcome' = "none" /\ ~Clean' /\ UNCHANGED <<before, payload>>
        /\ ("disk" \notin mishaps' => "disk" \notin mishaps)
    BY <1>0, <1>1 DEF Raise, Clean
  <2>2. "disk" \notin mishaps' => (Applying /\ Undoing /\ Settled)'
    BY <1>0, <2>0, <2>1 DEF HostInv, Placed, Applying, Undoing, Settled, Old, At
  <2>3. QED
    BY <1>0, <2>1, <2>2 DEF HostInv, Placed
<1>2. CASE Set("next", payload) /\ Go("drop_previous")
  <2>1. dir'["live"] = dir["live"] /\ dir'["previous"] = dir["previous"]
    BY <1>0, <1>2, SetDirs, PlacesAre
  <2>2. "disk" \notin mishaps => (Applying /\ Undoing)'
    BY <1>0, <1>2, <2>1 DEF HostInv, Placed, Go, Applying, Undoing, Old, At
  <2>3. QED
    BY <1>0, <1>2, <2>2, GoKeeps
<1>3. QED
  BY <1>1, <1>2 DEF Extract

LEMMA DropPreviousKeeps ==
  ASSUME HostInv, DropPrevious
  PROVE  HostInv'
<1>0. HostTypeOK' /\ hpc = "drop_previous" /\ outcome = "none" /\ dir \in [Places -> Dirs]
  BY ApplyingIsTyped DEF HostInv, DropPrevious, HostTypeOK
<1>1. CASE RemovalFails("previous")
  BY <1>0, <1>1, DiskTrouble DEF RemovalFails, Raise
<1>2. CASE Set("previous", Nothing) /\ Go("park_live")
  <2>1. dir'["live"] = dir["live"] /\ dir'["previous"] = Nothing
    BY <1>0, <1>2, SetDirs, PlacesAre, DirValues
  <2>2. "disk" \notin mishaps => (Applying /\ Undoing)'
    BY <1>0, <1>2, <2>1 DEF HostInv, Placed, Go, Applying, Undoing, Old, At
  <2>3. QED
    BY <1>0, <1>2, <2>2, GoKeeps
<1>3. QED
  BY <1>1, <1>2 DEF DropPrevious

LEMMA ParkLiveKeeps ==
  ASSUME HostInv, ParkLive
  PROVE  HostInv'
<1>0. HostTypeOK' /\ hpc = "park_live" /\ outcome = "none" /\ dir \in [Places -> Dirs]
  BY ApplyingIsTyped DEF HostInv, ParkLive, HostTypeOK
<1>1. CASE RenameFails
  BY <1>0, <1>1, DiskTrouble DEF RenameFails, Raise
<1>2. CASE Move("live", "previous") /\ Go("install")
  <2>1. dir'["live"] = Nothing /\ dir'["previous"] = dir["live"]
    BY <1>0, <1>2, MoveDirs, PlacesAre
  <2>2. "disk" \notin mishaps => (Applying /\ Undoing)'
    BY <1>0, <1>2, <2>1 DEF HostInv, Placed, Go, Applying, Undoing, Old, At
  <2>3. QED
    BY <1>0, <1>2, <2>2, GoKeeps
<1>3. QED
  BY <1>1, <1>2 DEF ParkLive

LEMMA InstallKeeps ==
  ASSUME HostInv, Install
  PROVE  HostInv'
<1>0. HostTypeOK' /\ hpc = "install" /\ outcome = "none" /\ dir \in [Places -> Dirs]
      /\ dir["next"] = payload
  BY ApplyingIsTyped DEF HostInv, Install, HostTypeOK
<1>1. CASE RenameFails
  BY <1>0, <1>1, DiskTrouble DEF RenameFails, Raise
<1>2. CASE Move("next", "live") /\ Go("joint_check")
  <2>1. dir'["live"] = payload /\ dir'["previous"] = dir["previous"]
    BY <1>0, <1>2, MoveDirs, PlacesAre
  <2>2. "disk" \notin mishaps => (Applying /\ Undoing)'
    BY <1>0, <1>2, <2>1 DEF HostInv, Placed, Go, Applying, Undoing, New, At
  <2>3. QED
    BY <1>0, <1>2, <2>2, GoKeeps
<1>3. QED
  BY <1>1, <1>2 DEF Install

\* A host unit that does not come up starts the rollback on the far side.
LEMMA JointCheckKeeps ==
  ASSUME HostInv, JointCheck
  PROVE  HostInv'
<1>0. HostTypeOK' /\ hpc = "joint_check" /\ outcome = "none" /\ UNCHANGED <<dir, payload, before>>
  BY ApplyingIsTyped DEF HostInv, JointCheck, Settle, Raise
<1>1. "disk" \notin mishaps' => "disk" \notin mishaps
  BY DEF JointCheck, Raise
<1>2. "disk" \notin mishaps' => New'
  BY <1>0, <1>1 DEF HostInv, Placed, Applying, New, At
<1>3. (hpc' = "undo" /\ outcome' = "none") \/ (hpc' = "idle" /\ outcome' = "applied")
  BY <1>0 DEF JointCheck, Raise, Settle
<1>4. "disk" \notin mishaps' => (Applying /\ Undoing /\ Settled)'
  BY <1>2, <1>3 DEF Applying, Undoing, Settled
<1>5. QED
  BY <1>0, <1>3, <1>4 DEF HostInv, Placed

-----------------------------------------------------------------------------
LEMMA UndoKeeps ==
  ASSUME HostInv, Undo
  PROVE  HostInv'
<1>0. HostTypeOK' /\ hpc = "undo" /\ outcome = "none" /\ dir \in [Places -> Dirs]
  BY UndoingIsTyped DEF HostInv, Undo, HostTypeOK
<1>1. CASE dir["previous"] = Nothing /\ UNCHANGED <<dir, mishaps>> /\ Settle("undone")
  <2>1. hpc' = "idle" /\ outcome' = "undone" /\ UNCHANGED <<dir, mishaps, before, payload>>
    BY <1>1 DEF Settle
  <2>2. "disk" \notin mishaps => Undone'
    BY <1>0, <1>1, <2>1 DEF HostInv, Placed, Undoing, Undone, Old, New, At, Clean
  <2>3. QED
    BY <1>0, <2>1, <2>2 DEF HostInv, Placed, Applying, Undoing, Settled
<1>2. CASE dir["previous"] # Nothing /\ Set("failed", Nothing) /\ Go("park_failed")
  <2>1. dir'["live"] = dir["live"] /\ dir'["previous"] = dir["previous"]
    BY <1>0, <1>2, SetDirs, PlacesAre, DirValues
  <2>2. "disk" \notin mishaps => (Applying /\ Undoing)'
    BY <1>0, <1>2, <2>1 DEF HostInv, Placed, Go, Applying, Undoing, Old, New, At, Clean
  <2>3. QED
    BY <1>0, <1>2, <2>2, GoKeeps
<1>3. CASE GiveUp
  BY <1>0, <1>3, DiskTrouble DEF GiveUp, Settle
<1>4. QED
  BY <1>1, <1>2, <1>3 DEF Undo

LEMMA ParkFailedKeeps ==
  ASSUME HostInv, ParkFailed
  PROVE  HostInv'
<1>0. HostTypeOK' /\ hpc = "park_failed" /\ outcome = "none" /\ dir \in [Places -> Dirs]
  BY UndoingIsTyped DEF HostInv, ParkFailed, HostTypeOK
<1>1. CASE GiveUp
  BY <1>0, <1>1, DiskTrouble DEF GiveUp, Settle
<1>2. CASE Move("live", "failed") /\ Go("restore")
  <2>1. dir'["live"] = Nothing /\ dir'["previous"] = dir["previous"]
    BY <1>0, <1>2, MoveDirs, PlacesAre
  <2>2. "disk" \notin mishaps => dir["previous"] \in Ancestors \ {Nothing}
    BY <1>0 DEF HostInv, Placed, Undoing, Old, New, At, Ancestors
  <2>3. "disk" \notin mishaps => (Applying /\ Undoing)'
    BY <1>2, <2>1, <2>2 DEF Go, Applying, Undoing, At, Ancestors, Clean
  <2>4. QED
    BY <1>0, <1>2, <2>3, GoKeeps
<1>3. QED
  BY <1>1, <1>2 DEF ParkFailed

LEMMA RestoreKeeps ==
  ASSUME HostInv, Restore
  PROVE  HostInv'
<1>0. HostTypeOK' /\ hpc = "restore" /\ outcome = "none" /\ dir \in [Places -> Dirs]
  BY UndoingIsTyped DEF HostInv, Restore, HostTypeOK
<1>1. CASE GiveUp
  BY <1>0, <1>1, DiskTrouble DEF GiveUp, Settle
<1>2. CASE Move("previous", "live") /\ Go("drop_failed")
  <2>1. dir'["live"] = dir["previous"] /\ dir'["previous"] = Nothing
    BY <1>0, <1>2, MoveDirs, PlacesAre
  <2>2. "disk" \notin mishaps => dir["previous"] \in Ancestors \ {Nothing}
    BY <1>0 DEF HostInv, Placed, Undoing, At
  <2>3. "disk" \notin mishaps => (Applying /\ Undoing)'
    BY <1>2, <2>1, <2>2 DEF Go, Applying, Undoing, At, Ancestors, Clean
  <2>4. QED
    BY <1>0, <1>2, <2>3, GoKeeps
<1>3. QED
  BY <1>1, <1>2 DEF Restore

LEMMA DropFailedKeeps ==
  ASSUME HostInv, DropFailed
  PROVE  HostInv'
<1>0. HostTypeOK' /\ hpc = "drop_failed" /\ outcome = "none" /\ dir \in [Places -> Dirs]
  BY UndoingIsTyped DEF HostInv, DropFailed, HostTypeOK
<1>1. CASE GiveUp
  BY <1>0, <1>1, DiskTrouble DEF GiveUp, Settle
<1>2. CASE Set("failed", Nothing) /\ UNCHANGED mishaps /\ Settle("undone")
  <2>1. /\ dir'["live"] = dir["live"] /\ dir'["previous"] = dir["previous"]
        /\ hpc' = "idle" /\ outcome' = "undone" /\ UNCHANGED <<mishaps, before, payload>>
    BY <1>0, <1>2, SetDirs, PlacesAre, DirValues DEF Settle
  <2>2. "disk" \notin mishaps => Undone'
    BY <1>0, <2>1 DEF HostInv, Placed, Undoing, Undone, At, Ancestors, Clean
  <2>3. QED
    BY <1>0, <2>1, <2>2 DEF HostInv, Placed, Applying, Undoing, Settled
<1>3. QED
  BY <1>1, <1>2 DEF DropFailed
\* Wherever it falls, a crash leaves the trees where the operations before it
\* had put them; the only directory it can tear is the one being emptied.
LEMMA CrashKeeps ==
  ASSUME HostInv, Crash
  PROVE  HostInv'
<1>0. /\ HostTypeOK' /\ hpc \in Steps \ {"idle"} /\ dir \in [Places -> Dirs]
      /\ hpc' = "idle" /\ outcome' = "crashed" /\ UNCHANGED <<before, payload>>
      /\ mishaps' = mishaps \cup {"crash"}
  BY UndoingIsTyped DEF HostInv, Crash, Settle, HostTypeOK
<1>1. ("disk" \notin mishaps' => "disk" \notin mishaps) /\ Clean' = Clean
  BY <1>0 DEF Clean
<1>2. dir'["live"] = dir["live"]
      /\ (dir'["previous"] = dir["previous"] \/ (hpc = "drop_previous" /\ dir'["previous"] = Torn))
  <2>1. CASE UNCHANGED dir
    BY <2>1
  <2>2. CASE \E d \in Busy : Set(d, Torn)
    <3>1. PICK d \in Busy : Set(d, Torn)
      BY <2>2
    <3>2. d \in Places \ {"live"} /\ (d = "previous" => hpc = "drop_previous")
      BY DEF Busy, Places
    <3>3. \A p \in Places : dir'[p] = IF p = d THEN Torn ELSE dir[p]
      BY <1>0, <3>1, <3>2, SetDirs, DirValues
    <3>4. QED
      BY <3>2, <3>3, PlacesAre
  <2>3. QED
    BY <2>1, <2>2 DEF Crash
<1>3. ASSUME "disk" \notin mishaps PROVE Crashed'
  <2>1. CASE hpc = "drop_previous"
    BY <1>0, <1>2, <1>3, <2>1 DEF HostInv, Placed, Applying, Crashed, Old, At
  <2>2. CASE hpc \in {"clean_next", "extract", "park_live"}
    BY <1>0, <1>2, <1>3, <2>2 DEF HostInv, Placed, Applying, Crashed, Old, At
  <2>3. CASE hpc \in {"install", "restore"}
    BY <1>0, <1>1, <1>2, <1>3, <2>3 DEF HostInv, Placed, Applying, Undoing, Crashed, At, Ancestors
  <2>4. CASE hpc \in {"joint_check", "undo", "park_failed"}
    BY <1>0, <1>2, <1>3, <2>4 DEF HostInv, Placed, Applying, Undoing, Crashed, Old, New, At
  <2>5. CASE hpc = "drop_failed"
    BY <1>0, <1>1, <1>2, <1>3, <2>5 DEF HostInv, Placed, Undoing, Crashed, At, Ancestors
  <2>6. QED
    BY <1>0, <2>1, <2>2, <2>3, <2>4, <2>5 DEF Steps
<1>4. QED
  BY <1>0, <1>1, <1>3 DEF HostInv, Placed, Applying, Undoing, Settled

LEMMA PairIsTyped ==
  ASSUME dir \in [Places -> Dirs]
  PROVE  Pair \in HostPairs
BY PlacesAre DEF Pair, HostPairs

LEMMA BeginKeeps ==
  ASSUME HostInv, NEW tree \in Trees, Begin(tree)
  PROVE  HostInv'
<1>1. /\ hpc' = "clean_next" /\ before' = Pair /\ outcome' = "none" /\ mishaps' = {}
      /\ payload' = tree /\ UNCHANGED dir
  BY DEF Begin
<1>2. HostTypeOK'
  BY <1>1, PairIsTyped DEF HostInv, HostTypeOK, Steps
<1>3. Old'
  BY <1>1 DEF Old, At, Pair
<1>4. QED
  BY <1>1, <1>2, <1>3 DEF HostInv, Placed, Applying, Undoing, Settled

LEMMA HostStep == HostInv /\ [HostNext]_hvars => HostInv'
<1> SUFFICES ASSUME HostInv, [HostNext]_hvars PROVE HostInv'
  OBVIOUS
<1>1. CASE HostNext
  BY <1>1, BeginKeeps, CleanNextKeeps, ExtractKeeps, DropPreviousKeeps, ParkLiveKeeps, InstallKeeps,
     JointCheckKeeps, UndoKeeps, ParkFailedKeeps, RestoreKeeps, DropFailedKeeps, CrashKeeps
     DEF HostNext
<1>2. CASE UNCHANGED hvars
  BY <1>2 DEF hvars, HostInv, HostTypeOK, Placed, Applying, Undoing, Settled, Undone, Crashed,
     Ancestors, Clean, Old, New, At
<1>3. QED
  BY <1>1, <1>2

LEMMA HostStart == HostInit => HostInv
<1> SUFFICES ASSUME HostInit PROVE HostInv
  OBVIOUS
<1>1. dir \in [Places -> Dirs]
  BY DEF HostInit, Dirs
<1>2. HostTypeOK
  BY <1>1, PairIsTyped DEF HostInit, HostTypeOK, Steps
<1>3. Old
  BY DEF HostInit, Old, At, Pair
<1>4. QED
  BY <1>2, <1>3 DEF HostInit, HostInv, Placed, Applying, Undoing, Settled

LEMMA HostInvHolds == HostSpec => []HostInv
BY HostStart, HostStep, PTL DEF HostSpec

-----------------------------------------------------------------------------
\* The directories and the update's own variables stay in their types.
THEOREM HostTyping == HostSpec => []HostTypeOK
<1>1. HostInv => HostTypeOK
  BY DEF HostInv
<1>2. QED
  BY <1>1, HostInvHolds, PTL

\* An update undone by the joint health check leaves the old tree live.
THEOREM UndoIsExact == HostSpec => []UndoRestores
<1>1. HostInv => UndoRestores
  <2> SUFFICES ASSUME HostInv, Clean, outcome = "undone", before.live # Nothing
               PROVE  dir["live"] = before.live
    BY DEF UndoRestores
  <2>1. Undone
    BY DEF HostInv, Placed, Settled, Clean
  <2>2. QED
    BY <2>1 DEF Undone, Ancestors, At
<1>2. QED
  BY <1>1, HostInvHolds, PTL

\* A crash at any point leaves the old tree complete under one of the names.
THEOREM AncestorIsSafe == HostSpec => []AncestorSurvives
<1>1. HostInv => AncestorSurvives
  <2> SUFFICES ASSUME HostInv, Clean, before.live # Nothing
               PROVE  dir["live"] = before.live \/ dir["previous"] = before.live
    BY PlacesAre DEF AncestorSurvives
  <2>1. Applying /\ Undoing /\ Settled
    BY DEF HostInv, Placed, Clean
  <2>2. CASE hpc # "idle"
    BY <2>1, <2>2 DEF HostInv, HostTypeOK, Steps, Applying, Undoing, Old, New, At, Ancestors
  <2>3. CASE hpc = "idle"
    <3>1. Old \/ New \/ Undone \/ Crashed
      BY <2>1, <2>3 DEF Settled, HostInv, HostTypeOK
    <3>2. QED
      BY <3>1 DEF Undone, Crashed, Old, New, At, Ancestors
  <2>4. QED
    BY <2>2, <2>3
<1>2. QED
  BY <1>1, HostInvHolds, PTL

\* No crash exposes part of a tree under live_dir.
THEOREM LiveIsWhole == HostSpec => []LiveIsNeverTorn
<1>1. HostInv => LiveIsNeverTorn
  <2> SUFFICES ASSUME HostInv, Clean, before.live # Torn
               PROVE  dir["live"] # Torn
    BY DEF LiveIsNeverTorn
  <2>1. Applying /\ Undoing /\ Settled /\ payload # Torn /\ Nothing # Torn
    BY TreesAssumption DEF HostInv, HostTypeOK, Placed, Clean
  <2>2. CASE hpc # "idle"
    BY <2>1, <2>2 DEF HostInv, HostTypeOK, Steps, Applying, Undoing, Old, New, At, Ancestors
  <2>3. CASE hpc = "idle"
    <3>1. Old \/ New \/ Undone \/ Crashed
      BY <2>1, <2>3 DEF Settled, HostInv, HostTypeOK
    <3>2. QED
      BY <2>1, <3>1 DEF Undone, Crashed, Old, New, At, Ancestors
  <2>4. QED
    BY <2>2, <2>3
<1>2. QED
  BY <1>1, HostInvHolds, PTL

\* The directory operations add up to the one-call operators the update agent
\* uses, whatever is interrupted and wherever, as long as the filesystem
\* refuses nothing.
THEOREM OperationsAddUp == HostSpec => []AddsUp
<1>1. HostInv => AddsUp
  <2> SUFFICES ASSUME HostInv, "disk" \notin mishaps, outcome # "none"
               PROVE  /\ outcome = "applied" => Pair = Swapped(before, payload)
                      /\ outcome = "undone" => Pair \in HostFailures(before, payload)
                      /\ outcome = "crashed" => Pair \in HostCrashes(before, payload)
    BY DEF AddsUp
  <2>1. Settled /\ hpc = "idle" /\ before \in HostPairs
    BY DEF HostInv, Placed, HostTypeOK
  <2>2. \A x, y : At(x, y) => Pair = [live |-> x, previous |-> y]
    BY DEF At, Pair
  <2>3. before = [live |-> before.live, previous |-> before.previous]
    BY <2>1 DEF HostPairs
  <2>4. Old => Pair = before
    BY <2>2, <2>3 DEF Old
  <2>5. New => Pair = Swapped(before, payload)
    BY <2>2 DEF New, Swapped
  <2>6. ASSUME NEW x \in Ancestors, x # Nothing, At(x, Nothing)
        PROVE  Pair \in HostFailures(before, payload)
    <3>1. Pair = [live |-> x, previous |-> Nothing]
      BY <2>2, <2>6
    <3>2. CASE x = before.live
      <4>1. Pair = Unswapped(Swapped(before, payload))
        BY <2>6, <3>1, <3>2 DEF Unswapped, Swapped
      <4>2. QED
        BY <4>1 DEF HostFailures
    <3>3. CASE x = before.previous
      <4>1. Pair = Unswapped(before)
        BY <2>6, <3>1, <3>3 DEF Unswapped
      <4>2. QED
        BY <4>1 DEF HostFailures
    <3>4. QED
      BY <3>2, <3>3 DEF Ancestors
  <2>7. outcome = "applied" => Pair = Swapped(before, payload)
    BY <2>1, <2>5 DEF Settled
  <2>8. ASSUME outcome = "undone" PROVE Pair \in HostFailures(before, payload)
    <3>1. Undone
      BY <2>1, <2>8 DEF Settled
    <3>2. CASE before.live = Nothing /\ New
      <4>1. Pair = Unswapped(Swapped(before, payload))
        BY <2>5, <3>2 DEF Unswapped, Swapped
      <4>2. QED
        BY <4>1 DEF HostFailures
    <3>3. CASE before.previous = Nothing /\ Old
      <4>1. Pair = Unswapped(before)
        BY <2>4, <3>3 DEF Unswapped
      <4>2. QED
        BY <4>1 DEF HostFailures
    <3>4. QED
      BY <2>6, <3>1, <3>2, <3>3 DEF Undone
  <2>9. ASSUME outcome = "crashed" PROVE Pair \in HostCrashes(before, payload)
    <3>1. Crashed
      BY <2>1, <2>9 DEF Settled
    <3>2. CASE Old \/ New
      BY <2>4, <2>5, <3>2 DEF HostCrashes
    <3>3. CASE At(before.live, Torn) \/ At(before.live, Nothing)
      <4>1. \A y : [before EXCEPT !.previous = y] = [live |-> before.live, previous |-> y]
        BY <2>1 DEF HostPairs
      <4>2. Pair = [before EXCEPT !.previous = Torn] \/ Pair = [before EXCEPT !.previous = Nothing]
        <5>1. CASE At(before.live, Torn)
          BY <2>2, <4>1, <5>1
        <5>2. CASE At(before.live, Nothing)
          BY <2>2, <4>1, <5>2
        <5>3. QED
          BY <3>3, <5>1, <5>2
      <4>3. QED
        BY <4>2 DEF HostCrashes
    <3>4. ASSUME NEW x \in Ancestors, At(Nothing, x) PROVE Pair \in HostCrashes(before, payload)
      <4>1. Pair = [live |-> Nothing, previous |-> x] /\ x \in {before.live, before.previous}
        BY <2>2, <3>4 DEF Ancestors
      <4>2. QED
        BY <4>1 DEF HostCrashes
    <3>5. QED
      BY <2>6, <3>1, <3>2, <3>3, <3>4 DEF Crashed, HostCrashes
  <2>10. QED
    BY <2>7, <2>8, <2>9
<1>2. QED
  BY <1>1, HostInvHolds, PTL
=============================================================================
