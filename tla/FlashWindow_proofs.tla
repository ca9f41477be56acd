-------------------------- MODULE FlashWindow_proofs --------------------------
(***************************************************************************)
(* One flash on a whole board, for any services, processes, sketches and   *)
(* bounds.  First the router guard by itself, then the health check's      *)
(* evidence, then the two and the journal composed: each component keeps   *)
(* its own invariant whatever the others do, and what they promise one     *)
(* another (the guard's window, the open port) holds between them.         *)
(***************************************************************************)
EXTENDS FlashWindow, EventLog_proofs, WellFoundedInduction, FiniteSetTheorems, TLAPS

\* Slips after which the router may be up during the write.
Unguarded == {"refused", "hung", "pulled"}

(***************************************************************************)
(* The guard's inductive invariant.  Inside the window a write exists only *)
(* in its place; from the stop on, unless something slipped, the router is *)
(* down for good; the guard's flag tells whether the stop succeeded, and   *)
(* what the stop took is what will be restored, unless a service came      *)
(* late.  Outside the window a rollback may write, so that the guard by    *)
(* itself (GuardInv) knows more than the guard in the composition.         *)
(***************************************************************************)
WriteInWindow == gpc \notin {"closed", "write"} => write = "none"

RouterIsDown ==
  (gpc = "write" /\ slips \cap Unguarded = {}) => ~router /\ ~stopjob /\ write # "spoilt"

StopIsKnown ==
  /\ stopped => gpc \in {"write", "start"} /\ ~stopjob /\ (taken \subseteq restore \/ "late" \in slips)
  /\ gpc \in {"write", "start"} => stopped \/ slips \cap {"refused", "hung"} # {}

GuardCore == GuardTypeOK /\ WriteInWindow /\ RouterIsDown /\ StopIsKnown

GuardInv == GuardCore /\ (gpc = "closed" => write = "none")

-----------------------------------------------------------------------------
LEMMA GuardInitInv == GuardInit => GuardCore
  BY DEF GuardInit, GuardCore, GuardTypeOK, WriteInWindow, RouterIsDown, StopIsKnown, Slip

\* One lemma per action: types first, then the three parts.
LEMMA EnterKeeps == GuardCore /\ EnterGuard /\ write = "none" => GuardCore'
  BY DEF GuardCore, GuardTypeOK, WriteInWindow, RouterIsDown, StopIsKnown, Slip, EnterGuard, units

LEMMA ListKeeps == GuardCore /\ ListDependents => GuardCore'
<1> SUFFICES ASSUME GuardCore, ListDependents PROVE GuardCore'
  OBVIOUS
<1>1. GuardTypeOK'
  BY DEF GuardCore, GuardTypeOK, Slip, ListDependents, units
<1>2. gpc \in {"list", "states"} /\ gpc' \in {"states", "stop"} /\ write' = write /\ stopped' = stopped
  BY DEF ListDependents
<1>3. ~stopped /\ write = "none"
  BY <1>2 DEF GuardCore, WriteInWindow, StopIsKnown
<1>4. QED
  BY <1>1, <1>2, <1>3 DEF GuardCore, WriteInWindow, RouterIsDown, StopIsKnown

LEMMA CheckKeeps == GuardCore /\ CheckActive => GuardCore'
<1> SUFFICES ASSUME GuardCore, CheckActive PROVE GuardCore'
  OBVIOUS
<1>1. GuardTypeOK'
  BY DEF GuardCore, GuardTypeOK, Slip, CheckActive, units
<1>2. gpc \in {"list", "states"} /\ gpc' \in {"states", "stop"} /\ write' = write /\ stopped' = stopped
  BY DEF CheckActive
<1>3. ~stopped /\ write = "none"
  BY <1>2 DEF GuardCore, WriteInWindow, StopIsKnown
<1>4. QED
  BY <1>1, <1>2, <1>3 DEF GuardCore, WriteInWindow, RouterIsDown, StopIsKnown

LEMMA StopKeeps == GuardCore /\ StopRouter => GuardCore'
<1> SUFFICES ASSUME GuardCore, StopRouter PROVE GuardCore'
  OBVIOUS
<1>1. gpc = "stop" /\ gpc' = "write" /\ taken' = active /\ restore' = restore /\ listed' = listed
      /\ write = "none"
  BY DEF StopRouter, GuardCore, WriteInWindow
<1>2. CASE UnitsDown /\ stopped' = TRUE
           /\ slips' = IF active \subseteq restore THEN slips ELSE slips \cup {"late"}
  <2>1. ~router' /\ ~stopjob' /\ active' = {} /\ write' = "none"
    BY <1>1, <1>2 DEF UnitsDown, ResetLine
  <2>2. GuardTypeOK'
    BY <1>1, <1>2, <2>1 DEF GuardCore, GuardTypeOK, Slip, UnitsDown
  <2>3. WriteInWindow' /\ RouterIsDown'
    BY <1>1, <2>1 DEF WriteInWindow, RouterIsDown
  <2>4. StopIsKnown'
    BY <1>1, <1>2, <2>1 DEF StopIsKnown
  <2>5. QED
    BY <2>2, <2>3, <2>4 DEF GuardCore
<1>3. CASE slips' = slips \cup {"refused"} /\ UNCHANGED <<units, stopped, write>>
  <2>1. router' \in BOOLEAN /\ port' \in BOOLEAN /\ stopjob' \in BOOLEAN
        /\ active' \in SUBSET Dependents /\ stopped' \in BOOLEAN
        /\ write' \in {"none", "running", "spoilt"}
    BY <1>3 DEF GuardCore, GuardTypeOK, units
  <2>2. "refused" \in slips' /\ slips' \subseteq slips \cup {"refused"}
    BY <1>3
  <2>3. GuardTypeOK'
    BY <1>1, <2>1, <2>2 DEF GuardCore, GuardTypeOK, Slip
  <2>4. WriteInWindow'
    BY <1>1 DEF WriteInWindow
  <2>5. slips' \cap Unguarded # {} /\ slips' \cap {"refused", "hung"} # {}
    BY <2>2 DEF Unguarded
  <2>6. stopped' = FALSE
    BY <1>1, <1>3 DEF GuardCore, GuardTypeOK, StopIsKnown
  <2>7. RouterIsDown'
    BY <2>5 DEF RouterIsDown
  <2>8. StopIsKnown'
    BY <2>5, <2>6 DEF StopIsKnown
  <2>9. QED
    BY <2>3, <2>4, <2>7, <2>8 DEF GuardCore
<1>4. CASE stopjob' = TRUE /\ slips' = slips \cup {"hung"} /\ UNCHANGED <<router, port, active, stopped, write>>
  <2>1. router' \in BOOLEAN /\ port' \in BOOLEAN /\ stopjob' \in BOOLEAN
        /\ active' \in SUBSET Dependents /\ stopped' \in BOOLEAN
        /\ write' \in {"none", "running", "spoilt"}
    BY <1>4 DEF GuardCore, GuardTypeOK, units
  <2>2. "hung" \in slips' /\ slips' \subseteq slips \cup {"hung"}
    BY <1>4
  <2>3. GuardTypeOK'
    BY <1>1, <2>1, <2>2 DEF GuardCore, GuardTypeOK, Slip
  <2>4. WriteInWindow'
    BY <1>1 DEF WriteInWindow
  <2>5. slips' \cap Unguarded # {} /\ slips' \cap {"refused", "hung"} # {}
    BY <2>2 DEF Unguarded
  <2>6. stopped' = FALSE
    BY <1>1, <1>4 DEF GuardCore, GuardTypeOK, StopIsKnown
  <2>7. RouterIsDown'
    BY <2>5 DEF RouterIsDown
  <2>8. StopIsKnown'
    BY <2>5, <2>6 DEF StopIsKnown
  <2>9. QED
    BY <2>3, <2>4, <2>7, <2>8 DEF GuardCore
<1>5. QED
  BY <1>2, <1>3, <1>4 DEF StopRouter

LEMMA BeginKeeps == GuardCore /\ BeginWrite => GuardCore'
  BY DEF GuardCore, GuardTypeOK, WriteInWindow, RouterIsDown, StopIsKnown, Slip, BeginWrite, units

LEMMA EndKeeps == GuardCore /\ EndWrite => GuardCore'
  BY DEF GuardCore, GuardTypeOK, WriteInWindow, RouterIsDown, StopIsKnown, Slip, EndWrite, units

LEMMA StartKeeps == GuardCore /\ StartUnits => GuardCore'
  BY DEF GuardCore, GuardTypeOK, WriteInWindow, RouterIsDown, StopIsKnown, Slip, StartUnits, LeaveGuard, Refusals

LEMMA DiesKeeps == GuardCore /\ GuardDies => GuardCore'
  BY DEF GuardCore, GuardTypeOK, WriteInWindow, RouterIsDown, StopIsKnown, Slip, GuardDies, LeaveGuard, units

\* A moving reset line only spoils a write that nothing protected.
LEMMA LineKeeps == GuardCore /\ (RouterExits \/ StopJobEnds) => GuardCore'
<1> SUFFICES ASSUME GuardCore, RouterExits \/ StopJobEnds PROVE GuardCore'
  OBVIOUS
<1>1. /\ UNCHANGED <<gpc, listed, restore, stopped, taken, slips>>
      /\ ResetLine /\ router' \in BOOLEAN /\ port' \in BOOLEAN
      /\ active' \in SUBSET Dependents /\ stopjob' \in BOOLEAN
  BY DEF RouterExits, StopJobEnds, UnitsDown, units, GuardCore, GuardTypeOK
<1>2. router \/ stopjob
  BY DEF RouterExits, StopJobEnds
<1>3. write' \in {"none", "running", "spoilt"} /\ (write = "none" => write' = "none")
  BY <1>1 DEF ResetLine, GuardCore, GuardTypeOK
<1>4. RouterIsDown'
  BY <1>1, <1>2 DEF GuardCore, RouterIsDown
<1>5. ~stopjob => ~stopjob'
  BY DEF RouterExits, StopJobEnds, UnitsDown, units
<1>6. QED
  BY <1>1, <1>3, <1>4, <1>5 DEF GuardCore, GuardTypeOK, WriteInWindow, StopIsKnown

LEMMA UnitKeeps ==
  ASSUME NEW d \in Dependents, GuardCore, UnitStarts(d) \/ UnitLeaves(d)
  PROVE  GuardCore'
<1>1. CASE UnitStarts(d)
  BY <1>1 DEF GuardCore, GuardTypeOK, WriteInWindow, RouterIsDown, StopIsKnown, Slip, Unguarded, UnitStarts
<1>2. CASE UnitLeaves(d)
  BY <1>2 DEF GuardCore, GuardTypeOK, WriteInWindow, RouterIsDown, StopIsKnown, Slip, Unguarded, UnitLeaves
<1>3. QED
  BY <1>1, <1>2

LEMMA ListensKeeps == GuardCore /\ RouterListens => GuardCore'
  BY DEF GuardCore, GuardTypeOK, WriteInWindow, RouterIsDown, StopIsKnown, RouterListens

\* With its frame gone the guard promises nothing, and needs nothing.
LEMMA ClosedKeeps ==
  ASSUME GuardTypeOK', gpc' = "closed", stopped' = FALSE
  PROVE  GuardCore'
  BY DEF GuardCore, WriteInWindow, RouterIsDown, StopIsKnown

LEMMA GuardStands == GuardCore /\ UNCHANGED guardvars => GuardCore'
  BY DEF guardvars, GuardCore, GuardTypeOK, WriteInWindow, RouterIsDown, StopIsKnown

\* What a window in which nothing slipped has stopped, it starts again.
LEMMA StartRestores ==
  ASSUME GuardCore, StartUnits, slips = {}, slips' = {}
  PROVE  router' /\ taken \subseteq active'
<1>1. stopped /\ taken \subseteq restore
  BY DEF GuardCore, StopIsKnown, StartUnits
<1>2. router' = TRUE /\ active' = active \cup restore
  BY <1>1 DEF StartUnits
<1>3. QED
  BY <1>1, <1>2

LEMMA CoreIsStill == GuardCore => NoResetMidWrite
  BY DEF GuardCore, RouterIsDown, NoResetMidWrite, Unguarded

-----------------------------------------------------------------------------
(* The guard by itself: nothing but the window writes.                     *)

LEMMA GuardNextInv == GuardInv /\ [GuardNext]_guardvars => GuardInv'
<1> SUFFICES ASSUME GuardInv, [GuardNext]_guardvars PROVE GuardInv'
  OBVIOUS
<1>0. GuardCore /\ GuardTypeOK
  BY DEF GuardInv, GuardCore
<1>1. CASE EnterGuard
  <2>1. GuardCore'
    BY <1>0, <1>1, EnterKeeps DEF GuardInv, EnterGuard
  <2>2. QED
    BY <1>1, <2>1 DEF GuardInv, EnterGuard
<1>2. CASE GuardStep
  <2>1. GuardCore'
    BY <1>0, <1>2, ListKeeps, CheckKeeps, StopKeeps, BeginKeeps, EndKeeps, StartKeeps DEF GuardStep
  <2>2. gpc' = "closed" => write' = "none"
    BY <1>0, <1>2 DEF GuardStep, GuardCore, WriteInWindow, ListDependents, CheckActive, StopRouter,
                      BeginWrite, EndWrite, StartUnits, LeaveGuard
  <2>3. QED
    BY <2>1, <2>2 DEF GuardInv
<1>3. CASE GuardDies
  BY <1>0, <1>3, DiesKeeps DEF GuardInv, GuardDies
<1>4. CASE RouterExits \/ StopJobEnds
  <2>1. GuardCore'
    BY <1>0, <1>4, LineKeeps
  <2>2. QED
    BY <1>4, <2>1 DEF GuardInv, RouterExits, StopJobEnds, UnitsDown, ResetLine
<1>5. ASSUME NEW d \in Dependents, UnitStarts(d) \/ UnitLeaves(d) PROVE GuardInv'
  <2>1. GuardCore'
    BY <1>0, <1>5, UnitKeeps
  <2>2. QED
    BY <1>5, <2>1 DEF GuardInv, UnitStarts, UnitLeaves
<1>6. CASE UNCHANGED guardvars
  BY <1>0, <1>6, GuardStands DEF GuardInv, guardvars
<1>7. CASE RouterListens
  BY <1>0, <1>7, ListensKeeps DEF GuardInv, RouterListens
<1>8. QED
  BY <1>1, <1>2, <1>3, <1>4, <1>5, <1>6, <1>7 DEF GuardNext, SystemdStep

LEMMA GuardInvHolds == GuardSpec => []GuardInv
<1>1. GuardInit => GuardInv
  BY GuardInitInv DEF GuardInv, GuardInit
<1>2. QED
  BY <1>1, GuardNextInv, PTL DEF GuardSpec

\* The guard and the units keep their types, for any set of dependents
\* (flasher.py: router_stopped).
THEOREM GuardTyping == GuardSpec => []GuardTypeOK
<1>1. GuardInv => GuardTypeOK
  BY DEF GuardInv, GuardCore
<1>2. QED
  BY <1>1, GuardInvHolds, PTL

\* flasher.py:246-255: the reset line never moves under a guarded write unless
\* a stop was refused or unfinished, or somebody started the router again.
THEOREM LineIsStill == GuardSpec => []NoResetMidWrite
<1>1. GuardInv => NoResetMidWrite
  BY CoreIsStill DEF GuardInv
<1>2. QED
  BY <1>1, GuardInvHolds, PTL

\* flasher.py:325-329: a window in which nothing slipped leaves the router and
\* every service that went down with it running.
THEOREM UnitsComeBack == GuardSpec => BoardAsBefore
<1>1. GuardInv =>
        [(StartUnits /\ slips = {} /\ slips' = {}) => router' /\ taken \subseteq active']_guardvars
  BY StartRestores DEF GuardInv
<1>2. QED
  BY <1>1, GuardInvHolds, PTL DEF BoardAsBefore

-----------------------------------------------------------------------------
(***************************************************************************)
(* The health check.  What the lines tell of the sketch that printed them: *)
(* they are all of one version; starts come in order; within a start the   *)
(* numbers rise, and a start that follows another one heard shows its      *)
(* first number.  The last two need lines that were neither joined nor     *)
(* cut.                                                                    *)
(***************************************************************************)
OneVersion == \A i, k \in DOMAIN lines : lines[i].ver = lines[k].ver

BootsInOrder ==
  /\ \A i \in DOMAIN lines : lines[i].boot <= boot
  /\ \A i, k \in DOMAIN lines : i < k => lines[i].boot <= lines[k].boot

Rising ==
  ~marred => \A i, k \in DOMAIN lines :
               (i < k /\ lines[i].boot = lines[k].boot) => lines[i].seq < lines[k].seq

RestartsShow ==
  ~marred => \A i, k \in DOMAIN lines : lines[i].boot < lines[k].boot =>
               \E h \in DOMAIN lines : lines[h].boot = lines[k].boot /\ lines[h].seq = 0

Evidence == OneVersion /\ BootsInOrder /\ Rising /\ RestartsShow

\* While the check reads, the running sketch's next line will fit in: it has
\* the same version and a higher number, and it is the first of its start
\* unless that start was heard from its first line or nothing else was.
NextFits ==
  /\ mpc \in {"connect", "wait"} => lines = <<>>
  /\ mpc = "read" =>
       /\ \A i \in DOMAIN lines : lines[i].ver = running
       /\ ~marred =>
            /\ \A i \in DOMAIN lines : lines[i].boot = boot => lines[i].seq < count
            /\ \/ partial \/ count = 0
               \/ \A i \in DOMAIN lines : lines[i].boot = boot
               \/ \E h \in DOMAIN lines : lines[h].boot = boot /\ lines[h].seq = 0

Judged == mpc = "off" => answer = Verdict

HealthInv == HealthTypeOK /\ Evidence /\ NextFits /\ Judged

-----------------------------------------------------------------------------
\* A verdict depends on the lines and on what is expected.
LEMMA VerdictStands ==
  ASSUME UNCHANGED <<lines, expected>>
  PROVE  Verdict' = Verdict
  BY DEF Verdict, AliveVersion, Lives, Progressed, Advances, Follows, ReportsOf

\* Without lines nothing is alive.
LEMMA SilenceIsDead ==
  ASSUME lines' = <<>>, expected' = Nothing
  PROVE  Verdict' = Nothing
<1>1. ASSUME NEW v PROVE ~Lives(v)'
  BY DEF Lives, Progressed, Advances, ReportsOf
<1>2. QED
  BY <1>1 DEF Verdict, AliveVersion

LEMMA LinesAreTyped ==
  ASSUME lines \in Seq(Line)
  PROVE  /\ Len(lines) \in Nat /\ DOMAIN lines = 1..Len(lines)
         /\ \A i \in DOMAIN lines : i \in Nat /\ lines[i].boot \in Nat /\ lines[i].seq \in Nat
<1>1. Len(lines) \in Nat /\ DOMAIN lines = 1..Len(lines)
  OBVIOUS
<1>2. \A i \in DOMAIN lines : lines[i] \in Line /\ i \in Nat
  BY <1>1
<1>3. QED
  BY <1>1, <1>2 DEF Line

LEMMA EvidenceStands ==
  ASSUME HealthTypeOK, Evidence, boot' \in Nat, boot <= boot', lines' = lines, marred => marred'
  PROVE  Evidence'
<1>1. boot \in Nat /\ \A i \in DOMAIN lines : lines[i].boot \in Nat
  BY LinesAreTyped DEF HealthTypeOK
<1>2. OneVersion' /\ Rising' /\ RestartsShow'
  BY DEF Evidence, OneVersion, Rising, RestartsShow
<1>3. BootsInOrder'
  BY <1>1 DEF Evidence, BootsInOrder
<1>4. QED
  BY <1>2, <1>3 DEF Evidence

LEMMA NoEvidence ==
  ASSUME lines' = <<>>
  PROVE  Evidence'
<1>1. DOMAIN lines' = {}
  OBVIOUS
<1>2. QED
  BY <1>1 DEF Evidence, OneVersion, BootsInOrder, Rising, RestartsShow

LEMMA LineAppended ==
  ASSUME lines \in Seq(Line), NEW l \in Line, lines' = Append(lines, l)
  PROVE  /\ lines' \in Seq(Line) /\ Len(lines) + 1 \in Nat
         /\ DOMAIN lines' = DOMAIN lines \cup {Len(lines) + 1} /\ lines'[Len(lines) + 1] = l
         /\ \A i \in DOMAIN lines : lines'[i] = lines[i] /\ i < Len(lines) + 1
<1>1. Len(lines) \in Nat /\ DOMAIN lines = 1..Len(lines)
  BY LinesAreTyped
<1>2. lines' \in Seq(Line) /\ Len(lines') = Len(lines) + 1 /\ DOMAIN lines' = 1..(Len(lines) + 1)
  BY <1>1
<1>3. QED
  BY <1>1, <1>2

-----------------------------------------------------------------------------
(* One lemma per kind of step of the sketch and of the check.              *)

\* A whole line is heard.
LEMMA LineFits ==
  ASSUME HealthInv, PrintLine, mpc = "read", ~partial
  PROVE  HealthInv'
<1> DEFINE n == Len(lines) + 1
<1> DEFINE l == [ver |-> running, seq |-> count, boot |-> boot]
<1>1. /\ lines \in Seq(Line) /\ running \in Sketches /\ count \in Nat /\ boot \in Nat /\ boot \in 0..MaxBoots
      /\ count <= MaxSeq /\ l \in Line /\ marred \in BOOLEAN
  BY HealthAssumption DEF HealthInv, HealthTypeOK, PrintLine, Line
<1>2. /\ lines' = Append(lines, l) /\ marred' = marred /\ count' = count + 1 /\ partial' = FALSE
      /\ UNCHANGED <<running, boot, mpc, late, expected, answer>>
  BY <1>1 DEF PrintLine
<1>3. /\ lines' \in Seq(Line) /\ n \in Nat /\ DOMAIN lines' = DOMAIN lines \cup {n} /\ lines'[n] = l
      /\ \A i \in DOMAIN lines : lines'[i] = lines[i] /\ i < n
  BY <1>1, <1>2, LineAppended
<1>4. \A i \in DOMAIN lines : i \in Nat /\ lines[i].boot \in Nat /\ lines[i].seq \in Nat
  BY <1>1, LinesAreTyped
<1> HIDE DEF n
<1>5. l.ver = running /\ l.seq = count /\ l.boot = boot
  OBVIOUS
<1> HIDE DEF l
<1>6. HealthTypeOK'
  <2>1. count' \in 0..(MaxSeq + 1)
    BY <1>1, <1>2, HealthAssumption
  <2>2. QED
    BY <1>2, <1>3, <2>1 DEF HealthInv, HealthTypeOK
<1>7. Evidence'
  <2>1. OneVersion'
    BY <1>3, <1>5 DEF HealthInv, Evidence, OneVersion, NextFits
  <2>2. BootsInOrder'
    BY <1>1, <1>2, <1>3, <1>4, <1>5 DEF HealthInv, Evidence, BootsInOrder
  <2>3. Rising'
    BY <1>1, <1>2, <1>3, <1>4, <1>5 DEF HealthInv, Evidence, Rising, NextFits
  <2>4. RestartsShow'
    <3> SUFFICES ASSUME ~marred, NEW i \in DOMAIN lines', NEW k \in DOMAIN lines', lines'[i].boot < lines'[k].boot
                 PROVE  \E h \in DOMAIN lines' : lines'[h].boot = lines'[k].boot /\ lines'[h].seq = 0
      BY <1>2 DEF RestartsShow
    <3>1. i \in DOMAIN lines
      BY <1>1, <1>3, <1>4, <1>5 DEF HealthInv, Evidence, BootsInOrder
    <3>2. CASE k \in DOMAIN lines
      BY <1>3, <3>1, <3>2 DEF HealthInv, Evidence, RestartsShow
    <3>3. CASE k = n
      <4>1. lines'[k].boot = boot /\ lines[i].boot # boot
        BY <1>1, <1>3, <1>4, <1>5, <3>1, <3>3
      <4>2. count = 0 \/ \E h \in DOMAIN lines : lines[h].boot = boot /\ lines[h].seq = 0
        BY <3>1, <4>1 DEF HealthInv, NextFits
      <4>3. CASE count = 0
        BY <1>3, <1>5, <4>1, <4>3
      <4>4. CASE \E h \in DOMAIN lines : lines[h].boot = boot /\ lines[h].seq = 0
        BY <1>3, <4>1, <4>4
      <4>5. QED
        BY <4>2, <4>3, <4>4
    <3>4. QED
      BY <1>3, <3>2, <3>3
  <2>5. QED
    BY <2>1, <2>2, <2>3, <2>4 DEF Evidence
<1>8. NextFits'
  <2>1. \A i \in DOMAIN lines' : lines'[i].ver = running'
    BY <1>2, <1>3, <1>5 DEF HealthInv, NextFits
  <2>2. ~marred => \A i \in DOMAIN lines' : lines'[i].boot = boot' => lines'[i].seq < count'
    BY <1>1, <1>2, <1>3, <1>4, <1>5 DEF HealthInv, NextFits
  <2>3. ~marred => \/ \A i \in DOMAIN lines' : lines'[i].boot = boot'
                   \/ \E h \in DOMAIN lines' : lines'[h].boot = boot' /\ lines'[h].seq = 0
    BY <1>2, <1>3, <1>5 DEF HealthInv, NextFits
  <2>4. QED
    BY <1>2, <2>1, <2>2, <2>3 DEF NextFits
<1>9. Judged'
  BY <1>2 DEF Judged
<1>10. QED
  BY <1>6, <1>7, <1>8, <1>9 DEF HealthInv

LEMMA PrintKeeps ==
  ASSUME HealthInv, PrintLine
  PROVE  HealthInv'
<1>1. CASE mpc = "read" /\ ~partial
  BY <1>1, LineFits
<1>2. CASE ~(mpc = "read" /\ ~partial)
  <2>1. /\ lines' = lines /\ marred' = (marred \/ partial) /\ count' = count + 1 /\ partial' = FALSE
        /\ UNCHANGED <<running, boot, mpc, late, expected, answer>> /\ mpc \in {"connect", "wait", "read"}
    BY <1>2 DEF PrintLine, Listening
  <2>2. HealthTypeOK'
    <3>1. count' \in 0..(MaxSeq + 1)
      BY HealthAssumption DEF HealthInv, HealthTypeOK, PrintLine
    <3>2. QED
      BY <2>1, <3>1 DEF HealthInv, HealthTypeOK
  <2>3. Evidence'
    BY <2>1, EvidenceStands DEF HealthInv, HealthTypeOK
  <2>4. NextFits'
    BY <1>2, <2>1 DEF HealthInv, HealthTypeOK, NextFits
  <2>5. QED
    BY <2>1, <2>2, <2>3, <2>4 DEF HealthInv, Judged
<1>3. QED
  BY <1>1, <1>2

LEMMA Beginnings == <<>> \in Seq(Line) /\ 0 \in 0..MaxBoots /\ 0 \in 0..(MaxSeq + 1)
  BY HealthAssumption

LEMMA BeginCheckKeeps ==
  ASSUME HealthInv, NEW v \in Sketches \cup {Nothing}, BeginCheck(v)
  PROVE  HealthInv'
<1>1. HealthTypeOK'
  BY Beginnings DEF HealthInv, HealthTypeOK, BeginCheck
<1>2. mpc' = "connect" /\ lines' = <<>>
  BY DEF BeginCheck
<1>3. QED
  BY <1>1, <1>2, NoEvidence DEF HealthInv, NextFits, Judged

LEMMA DismissKeeps ==
  ASSUME HealthInv, Dismiss, running' \in Sketches \cup {Nothing}
  PROVE  HealthInv'
<1>1. HealthTypeOK'
  BY Beginnings DEF HealthInv, HealthTypeOK, Dismiss
<1>2. mpc' = "off" /\ lines' = <<>> /\ expected' = Nothing /\ answer' = Nothing
  BY DEF Dismiss
<1>3. Evidence' /\ NextFits'
  BY <1>2, NoEvidence DEF NextFits
<1>4. Judged'
  BY <1>2, SilenceIsDead DEF Judged
<1>5. QED
  BY <1>1, <1>3, <1>4 DEF HealthInv

LEMMA ConnectKeeps ==
  ASSUME HealthInv, NEW open, Attach(open) \/ Refused(open) \/ Retry \/ GiveUp(open) \/ TimeUp
  PROVE  HealthInv'
<1>1. /\ mpc \in {"connect", "wait"} /\ mpc' \in {"connect", "wait", "read", "judge"}
      /\ lines = <<>> /\ late' \in BOOLEAN
      /\ UNCHANGED <<running, count, boot, partial, expected, lines, answer, marred>>
  BY DEF Attach, Refused, Retry, GiveUp, TimeUp, sketch, HealthInv, HealthTypeOK, NextFits
<1>2. HealthTypeOK'
  BY <1>1 DEF HealthInv, HealthTypeOK
<1>3. DOMAIN lines' = {}
  BY <1>1
<1>4. Evidence'
  BY <1>1, NoEvidence
<1>5. QED
  BY <1>1, <1>2, <1>3, <1>4 DEF HealthInv, NextFits, Judged

LEMMA QuotientIsNatural ==
  ASSUME NEW n \in Nat, NEW r \in Nat \ {0}
  PROVE  n \div r \in Nat
  OBVIOUS

\* A line cut short is of the running version and of this start; its number
\* proves nothing, which is what marred says.
LEMMA CutKeeps ==
  ASSUME HealthInv, mpc = "read", CutLine, boot' \in Nat, boot <= boot'
  PROVE  lines' \in Seq(Line) /\ Evidence'
<1> DEFINE n == Len(lines) + 1
<1> DEFINE l == [ver |-> running, seq |-> count \div Radix, boot |-> boot]
<1>1. lines \in Seq(Line) /\ running \in Sketches /\ count \in Nat /\ boot \in Nat
  BY HealthAssumption DEF HealthInv, HealthTypeOK, CutLine
<1>2. count \div Radix \in Nat
  BY <1>1, HealthAssumption, QuotientIsNatural
<1>3. l \in Line /\ lines' = Append(lines, l) /\ marred' = TRUE
  BY <1>1, <1>2 DEF CutLine, Line
<1>4. /\ lines' \in Seq(Line) /\ n \in Nat /\ DOMAIN lines' = DOMAIN lines \cup {n} /\ lines'[n] = l
      /\ \A i \in DOMAIN lines : lines'[i] = lines[i] /\ i < n
  BY <1>1, <1>3, LineAppended
<1>5. \A i \in DOMAIN lines : i \in Nat /\ lines[i].boot \in Nat
  BY <1>1, LinesAreTyped
<1> HIDE DEF n
<1>6. l.ver = running /\ l.boot = boot
  OBVIOUS
<1> HIDE DEF l
<1>7. OneVersion'
  BY <1>4, <1>6 DEF HealthInv, Evidence, OneVersion, NextFits
<1>8. BootsInOrder'
  BY <1>1, <1>4, <1>5, <1>6 DEF HealthInv, Evidence, BootsInOrder
<1>9. QED
  BY <1>3, <1>4, <1>7, <1>8 DEF Evidence, Rising, RestartsShow

\* The sketch may restart in the same step, when the router takes it along.
LEMMA StopReadingKeeps ==
  ASSUME HealthInv, StopReading, running' \in Sketches \cup {Nothing}, count' \in 0..(MaxSeq + 1),
         boot' \in 0..MaxBoots, boot <= boot', partial' \in BOOLEAN
  PROVE  HealthInv'
<1>1. mpc = "read" /\ mpc' = "judge" /\ late' = late /\ expected' = expected /\ answer' = answer /\ boot' \in Nat
  BY HealthAssumption DEF StopReading
<1>2. lines' \in Seq(Line) /\ marred' \in BOOLEAN /\ Evidence'
  <2>1. CASE CutLine
    BY <1>1, <2>1, CutKeeps DEF CutLine
  <2>2. CASE UNCHANGED <<lines, marred>>
    BY <1>1, <2>2, EvidenceStands DEF HealthInv, HealthTypeOK
  <2>3. QED
    BY <2>1, <2>2 DEF StopReading
<1>3. HealthTypeOK'
  BY <1>1, <1>2 DEF HealthInv, HealthTypeOK
<1>4. QED
  BY <1>1, <1>2, <1>3 DEF HealthInv, NextFits, Judged

LEMMA DeadlineKeeps ==
  ASSUME HealthInv, Deadline
  PROVE  HealthInv'
<1>1. boot' = boot /\ boot \in Nat /\ running' = running /\ count' = 0 /\ partial' = FALSE
  BY HealthAssumption DEF Deadline, HealthInv, HealthTypeOK
<1>2. /\ running' \in Sketches \cup {Nothing} /\ count' \in 0..(MaxSeq + 1) /\ boot' \in 0..MaxBoots
      /\ partial' \in BOOLEAN
  BY <1>1, Beginnings DEF HealthInv, HealthTypeOK
<1>3. boot <= boot'
  BY <1>1
<1>4. QED
  BY <1>2, <1>3, StopReadingKeeps DEF Deadline

LEMMA VerdictIsTyped ==
  ASSUME expected \in Sketches \cup {Nothing}
  PROVE  /\ Verdict \in Sketches \cup {Nothing}
         /\ Verdict # Nothing => Lives(Verdict)
<1>1. AliveVersion \in Sketches \cup {Nothing} /\ (AliveVersion # Nothing => Lives(AliveVersion))
  <2> DEFINE alive == {v \in Sketches : Lives(v)}
  <2>1. CASE \E v \in Sketches : alive = {v}
    <3>1. (CHOOSE v \in alive : TRUE) \in alive
      BY <2>1
    <3>2. AliveVersion \in alive
      BY <2>1, <3>1 DEF AliveVersion
    <3>3. QED
      BY <3>2
  <2>2. CASE ~ \E v \in Sketches : alive = {v}
    BY <2>2 DEF AliveVersion
  <2>3. QED
    BY <2>1, <2>2
<1>2. QED
  BY <1>1 DEF Verdict

LEMMA JudgeKeeps ==
  ASSUME HealthInv, Judge
  PROVE  HealthInv'
<1>1. /\ mpc' = "off" /\ answer' = Verdict
      /\ count' = 0 /\ partial' = FALSE
      /\ UNCHANGED <<running, boot, late, expected, lines, marred>>
  BY DEF Judge
<1>2. answer' \in Sketches \cup {Nothing}
  BY <1>1, VerdictIsTyped DEF HealthInv, HealthTypeOK
<1>3. HealthTypeOK'
  BY <1>1, <1>2, Beginnings DEF HealthInv, HealthTypeOK
<1>4. Evidence'
  <2>1. boot' \in Nat /\ boot <= boot'
    BY <1>1, HealthAssumption DEF HealthInv, HealthTypeOK
  <2>2. QED
    BY <1>1, <2>1, EvidenceStands DEF HealthInv
<1>5. Judged'
  BY <1>1, VerdictStands DEF Judged
<1>6. QED
  BY <1>1, <1>3, <1>4, <1>5 DEF HealthInv, NextFits

\* A start begins a new count: nothing heard so far is of it.
LEMMA ResetKeeps ==
  ASSUME HealthInv, MayReset, Reset
  PROVE  /\ running' \in Sketches \cup {Nothing} /\ count' \in 0..(MaxSeq + 1)
         /\ boot' \in 0..MaxBoots /\ boot <= boot' /\ partial' \in BOOLEAN
         /\ UNCHANGED check => HealthInv'
<1>1. CASE UNCHANGED sketch
  <2>1. boot' = boot /\ boot \in Nat /\ UNCHANGED <<running, count, partial>>
    BY <1>1, HealthAssumption DEF sketch, HealthInv, HealthTypeOK
  <2>2. ASSUME UNCHANGED check PROVE HealthInv'
    <3>1. UNCHANGED <<mpc, late, expected, lines, answer, marred>>
      BY <2>2 DEF check
    <3>2. HealthTypeOK' /\ NextFits'
      BY <2>1, <3>1 DEF HealthInv, HealthTypeOK, NextFits
    <3>3. Evidence'
      BY <2>1, <3>1, EvidenceStands DEF HealthInv
    <3>4. QED
      BY <3>1, <3>2, <3>3, VerdictStands DEF HealthInv, Judged
  <2>3. QED
    BY <2>1, <2>2 DEF HealthInv, HealthTypeOK
<1>2. CASE Starts(running) /\ partial' \in {FALSE, mpc = "read"}
  <2>0. /\ running' = running /\ count' = 0 /\ running \in Sketches \cup {Nothing}
        /\ 0 \in 0..(MaxSeq + 1) /\ boot \in Nat
    BY <1>2, HealthAssumption, Beginnings DEF Starts, HealthInv, HealthTypeOK
  <2>p. partial' \in BOOLEAN
    BY <1>2, Zenon
  <2>1. boot' \in 0..MaxBoots /\ boot <= boot'
    BY <1>2, HealthAssumption DEF Starts, MayReset, Listening, HealthInv, HealthTypeOK
  <2>2. ASSUME UNCHANGED check PROVE HealthInv'
    <3>1. UNCHANGED <<mpc, late, expected, lines, answer, marred>>
      BY <2>2 DEF check
    <3>2. HealthTypeOK'
      BY <2>0, <2>p, <2>1, <3>1 DEF HealthInv, HealthTypeOK
    <3>3. Evidence'
      BY <2>1, <3>1, EvidenceStands, HealthAssumption DEF HealthInv
    <3>4. NextFits'
      <4>1. CASE mpc = "read"
        <5>1. boot' = boot + 1
          BY <1>2, <4>1 DEF Starts, Listening
        <5>2. \A i \in DOMAIN lines : lines[i].boot \in Nat /\ lines[i].boot <= boot
          BY LinesAreTyped DEF HealthInv, HealthTypeOK, Evidence, BootsInOrder
        <5>3. \A i \in DOMAIN lines : lines[i].boot # boot'
          BY <2>0, <5>1, <5>2
        <5>4. QED
          BY <2>0, <3>1, <4>1, <5>3 DEF HealthInv, NextFits
      <4>2. CASE mpc # "read"
        BY <3>1, <4>2 DEF HealthInv, NextFits
      <4>3. QED
        BY <4>1, <4>2
    <3>5. QED
      BY <3>1, <3>2, <3>3, <3>4, VerdictStands DEF HealthInv, Judged
  <2>3. QED
    BY <2>0, <2>p, <2>1, <2>2
<1>3. QED
  BY <1>1, <1>2 DEF Reset

\* The target is erased or written while no check looks.
LEMMA WriteKeeps ==
  ASSUME HealthInv, mpc = "off", running' \in Sketches \cup {Nothing}, UNCHANGED <<count, boot, partial, check>>
  PROVE  HealthInv'
<1>1. UNCHANGED <<count, boot, partial, mpc, late, expected, lines, answer, marred>>
  BY DEF check
<1>2. HealthTypeOK'
  BY <1>1 DEF HealthInv, HealthTypeOK
<1>3. boot' \in Nat /\ boot <= boot'
  BY <1>1, HealthAssumption DEF HealthInv, HealthTypeOK
<1>4. Evidence'
  BY <1>1, <1>3, EvidenceStands DEF HealthInv
<1>5. QED
  BY <1>1, <1>2, <1>4, VerdictStands DEF HealthInv, NextFits, Judged

LEMMA HealthStands ==
  ASSUME HealthInv, UNCHANGED healthvars
  PROVE  HealthInv'
<1>1. UNCHANGED <<running, count, boot, partial, mpc, late, expected, lines, answer, marred>>
  BY DEF healthvars
<1>2. boot' \in Nat /\ boot <= boot'
  BY <1>1, HealthAssumption DEF HealthInv, HealthTypeOK
<1>3. HealthTypeOK' /\ NextFits'
  BY <1>1 DEF HealthInv, HealthTypeOK, NextFits
<1>4. QED
  BY <1>1, <1>2, <1>3, EvidenceStands, VerdictStands DEF HealthInv, Judged

LEMMA HealthInitInv == HealthInit => HealthInv
<1> SUFFICES ASSUME HealthInit PROVE HealthInv
  OBVIOUS
<1>1. HealthTypeOK
  BY Beginnings DEF HealthInit, HealthTypeOK
<1>2. DOMAIN lines = {} /\ mpc = "off" /\ expected = Nothing /\ answer = Nothing
  BY DEF HealthInit
<1>3. Evidence /\ NextFits
  BY <1>2 DEF Evidence, OneVersion, BootsInOrder, Rising, RestartsShow, NextFits
<1>4. ASSUME NEW v PROVE ~Lives(v)
  BY <1>2 DEF Lives, Progressed, Advances, ReportsOf
<1>5. Judged
  BY <1>2, <1>4 DEF Judged, Verdict, AliveVersion
<1>6. QED
  BY <1>1, <1>3, <1>5 DEF HealthInv

-----------------------------------------------------------------------------
(* What the verdict means.                                                 *)

LEMMA LeastNumber ==
  ASSUME NEW S \in SUBSET Nat, S # {}
  PROVE  \E n \in S : \A k \in S : n <= k
<1>1. \E n \in S : \A k \in S : <<k, n>> \notin OpToRel(<, Nat)
  BY NatLessThanWellFounded, WFMin, Zenon
<1>2. \A n, k \in Nat : k < n => <<k, n>> \in OpToRel(<, Nat)
  BY DEF OpToRel
<1>3. \E n \in S : \A k \in S : ~ (k < n)
  BY <1>1, <1>2, Zenon
<1>4. QED
  BY <1>3

\* The reports of the version that was heard are all there are.
LEMMA HeardIsEverything ==
  ASSUME OneVersion, NEW v, ReportsOf(v) # {}
  PROVE  ReportsOf(v) = DOMAIN lines
  BY DEF OneVersion, ReportsOf

\* _progressed compares neighbours; no step back between neighbours is no
\* step back at all.  The first place that is below an earlier one would be
\* below its own neighbour.
LEMMA NoStepBack ==
  ASSUME lines \in Seq(Line), Progressed(DOMAIN lines),
         NEW i \in DOMAIN lines, NEW k \in DOMAIN lines, i <= k
  PROVE  lines[i].seq <= lines[k].seq
<1> DEFINE Lower(m) == \E h \in DOMAIN lines : h < m /\ lines[m].seq < lines[h].seq
<1> DEFINE S == {m \in DOMAIN lines : Lower(m)}
<1>1. /\ Len(lines) \in Nat /\ DOMAIN lines = 1..Len(lines)
      /\ \A m \in DOMAIN lines : m \in Nat /\ lines[m].seq \in Nat
  BY LinesAreTyped
<1>2. ASSUME NEW m \in DOMAIN lines, m + 1 \in DOMAIN lines PROVE lines[m].seq <= lines[m + 1].seq
  <2>1. Follows(DOMAIN lines, m, m + 1)
    BY <1>1, <1>2 DEF Follows
  <2>2. QED
    BY <1>2, <2>1 DEF Progressed
<1>3. S = {}
  <2> SUFFICES ASSUME S # {} PROVE FALSE
    OBVIOUS
  <2>1. S \in SUBSET Nat
    BY <1>1
  <2>2. PICK m \in S : \A n \in S : m <= n
    BY <2>1, LeastNumber
  <2>3. PICK h \in DOMAIN lines : h < m /\ lines[m].seq < lines[h].seq
    OBVIOUS
  <2> DEFINE p == m - 1
  <2>4. p \in DOMAIN lines /\ p + 1 = m /\ h <= p /\ p < m
    BY <1>1, <2>3
  <2>5. lines[p].seq <= lines[m].seq
    BY <1>2, <2>4
  <2>6. h < p /\ lines[p].seq < lines[h].seq
    BY <1>1, <2>3, <2>4, <2>5
  <2>7. p \in S
    BY <2>4, <2>6
  <2>8. m <= p
    BY <2>2, <2>7
  <2>9. m \in Nat /\ p \in Nat
    BY <1>1, <2>4
  <2>10. QED
    BY <2>4, <2>8, <2>9
<1>4. CASE i = k
  BY <1>1, <1>4
<1>5. CASE i < k
  <2>1. ~Lower(k)
    BY <1>3
  <2>2. QED
    BY <1>1, <1>5, <2>1
<1>6. QED
  BY <1>1, <1>4, <1>5

LEMMA EarnedByEvidence == HealthInv => AliveIsEarned
<1> SUFFICES ASSUME HealthInv, mpc = "off", answer # Nothing, ~marred
             PROVE  \E b \in 0..MaxBoots :
                      /\ \E l, k \in Heard(answer, b) : l.seq < k.seq
                      /\ \A c \in 0..MaxBoots : c # b => \A l \in Heard(answer, c) : c < b /\ l.seq = 0
  BY DEF AliveIsEarned
<1>1. Lives(answer)
  BY VerdictIsTyped DEF HealthInv, HealthTypeOK, Judged
<1>2. ReportsOf(answer) # {}
  BY <1>1 DEF Lives, Progressed, Advances
<1>3. ReportsOf(answer) = DOMAIN lines /\ OneVersion
  BY <1>2, HeardIsEverything DEF HealthInv, Evidence
<1>4. Progressed(DOMAIN lines) /\ \A i \in DOMAIN lines : lines[i].ver = answer
  BY <1>1, <1>3 DEF Lives, ReportsOf
<1>5. lines \in Seq(Line) /\ boot \in 0..MaxBoots
      /\ \A i \in DOMAIN lines : i \in Nat /\ lines[i].boot \in Nat /\ lines[i].seq \in Nat
  BY LinesAreTyped DEF HealthInv, HealthTypeOK
<1>6. PICK f \in DOMAIN lines, e \in DOMAIN lines :
        (\A k \in DOMAIN lines : f <= k /\ k <= e) /\ lines[f].seq < lines[e].seq
  BY <1>4 DEF Progressed, Advances
<1> DEFINE b == lines[e].boot
<1>7. b \in 0..MaxBoots
  BY <1>5, HealthAssumption DEF HealthInv, Evidence, BootsInOrder
<1>8. ASSUME NEW i \in DOMAIN lines
      PROVE  lines[i].boot <= b /\ (lines[i].boot # b => lines[i].seq = 0)
  <2>1. lines[i].boot <= b
    <3>1. CASE i = e
      BY <1>5, <3>1
    <3>2. CASE i < e
      BY <3>2 DEF HealthInv, Evidence, BootsInOrder
    <3>3. QED
      BY <1>5, <1>6, <3>1, <3>2
  <2>2. ASSUME lines[i].boot # b PROVE lines[i].seq = 0
    <3>1. lines[i].boot < b
      BY <1>5, <2>1, <2>2
    <3>2. PICK h \in DOMAIN lines : lines[h].boot = b /\ lines[h].seq = 0
      BY <3>1 DEF HealthInv, Evidence, RestartsShow
    <3>3. i <= h
      BY <1>5, <3>1, <3>2 DEF HealthInv, Evidence, BootsInOrder
    <3>4. lines[i].seq <= 0
      BY <1>4, <1>5, <3>2, <3>3, NoStepBack
    <3>5. QED
      BY <1>5, <3>4
  <2>3. QED
    BY <2>1, <2>2
<1>9. PICK g \in DOMAIN lines : lines[g].boot = b /\ lines[g].seq < lines[e].seq
  <2>1. CASE lines[f].boot = b
    BY <1>6, <2>1
  <2>2. CASE lines[f].boot # b
    <3>1. lines[f].boot < b
      BY <1>5, <1>8, <2>2
    <3>2. PICK h \in DOMAIN lines : lines[h].boot = b /\ lines[h].seq = 0
      BY <3>1 DEF HealthInv, Evidence, RestartsShow
    <3>3. QED
      BY <1>5, <1>6, <3>2
  <2>3. QED
    BY <2>1, <2>2
<1>10. lines[g] \in Heard(answer, b) /\ lines[e] \in Heard(answer, b)
  BY <1>4, <1>9 DEF Heard, Range
<1>11. ASSUME NEW c \in 0..MaxBoots, c # b, NEW l \in Heard(answer, c) PROVE c < b /\ l.seq = 0
  <2>1. PICK i \in DOMAIN lines : l = lines[i] /\ lines[i].boot = c
    BY DEF Heard, Range
  <2>2. QED
    BY <1>5, <1>8, <1>11, <2>1
<1>12. QED
  BY <1>7, <1>9, <1>10, <1>11

LEMMA SteadyIsJudgedAlive == HealthInv => SteadyIsHeard
<1> SUFFICES ASSUME HealthInv, mpc = "off", ~marred, boot = 0, Len(lines) >= MIN_REPORTS, NEW v \in Sketches,
                    expected \in {v, Nothing}, \A l \in Range(lines) : l.ver = v
             PROVE  answer = v
  BY DEF SteadyIsHeard
<1>1. /\ Len(lines) \in Nat /\ DOMAIN lines = 1..Len(lines) /\ Len(lines) >= 2
      /\ \A i \in DOMAIN lines : i \in Nat /\ lines[i].boot \in Nat /\ lines[i].seq \in Nat
  BY LinesAreTyped DEF HealthInv, HealthTypeOK, MIN_REPORTS
<1>2. \A i \in DOMAIN lines : lines[i].boot = 0
  BY <1>1 DEF HealthInv, Evidence, BootsInOrder
<1>3. \A i, k \in DOMAIN lines : i < k => lines[i].seq < lines[k].seq
  BY <1>2 DEF HealthInv, Evidence, Rising
<1>4. \A i \in DOMAIN lines : lines[i].ver = v
  BY DEF Range
<1>5. ReportsOf(v) = 1..Len(lines)
  BY <1>1, <1>4 DEF ReportsOf
<1>6. Cardinality(ReportsOf(v)) >= MIN_REPORTS
  <2>1. Cardinality(1..Len(lines)) = Len(lines)
    BY <1>1, FS_Interval
  <2>2. QED
    BY <1>5, <2>1
<1>7. Progressed(1..Len(lines))
  <2>1. \A i, k \in 1..Len(lines) : Follows(1..Len(lines), i, k) => lines[i].seq <= lines[k].seq
    BY <1>1, <1>3 DEF Follows
  <2>2. lines[1].seq < lines[Len(lines)].seq
    BY <1>1, <1>3
  <2>3. Advances(1..Len(lines))
    BY <1>1, <2>2 DEF Advances
  <2>4. QED
    BY <2>1, <2>3 DEF Progressed
<1>8. Lives(v)
  BY <1>5, <1>6, <1>7 DEF Lives
<1>9. ASSUME NEW w \in Sketches, Lives(w) PROVE w = v
  <2>1. ReportsOf(w) # {}
    BY <1>9 DEF Lives, Progressed, Advances
  <2>2. QED
    BY <1>4, <2>1 DEF ReportsOf
<1>10. {w \in Sketches : Lives(w)} = {v}
  BY <1>8, <1>9
<1>11. AliveVersion = v
  BY <1>10 DEF AliveVersion
<1>12. Verdict = v
  BY <1>8, <1>11, HealthAssumption DEF Verdict
<1>13. QED
  BY <1>12 DEF HealthInv, Judged

-----------------------------------------------------------------------------
(***************************************************************************)
(* The composition.  The guard's place and the check's place follow from   *)
(* the agent's; only a rollback writes outside the window; and from the    *)
(* end of the window to the end of the check the router is up for good,    *)
(* unless a systemctl call of that window failed.                          *)
(***************************************************************************)
Failures == {"refused", "hung", "unstarted"}

Places ==
  /\ gpc # "closed" <=> apc = "window"
  /\ mpc # "off" <=> apc \in {"checking", "rechecking"}
  /\ write # "none" => gpc = "write" \/ apc = "restore"

RouterIsUp ==
  (apc = "check" \/ (apc = "checking" /\ mpc \in {"connect", "wait"})) =>
    (router /\ ~stopjob) \/ slips \cap Failures # {}

AgentTypeOK ==
  /\ apc \in {"rest", "enter", "window", "check", "checking", "restore", "recheck", "rechecking", "tell"}
  /\ wrote \in BOOLEAN

AgentInv == AgentTypeOK /\ Places /\ RouterIsUp

WindowInv == GuardCore /\ HealthInv /\ AgentInv

LEMMA WindowInitInv == WindowInit => WindowInv
<1> SUFFICES ASSUME WindowInit PROVE WindowInv
  OBVIOUS
<1>1. GuardCore /\ HealthInv
  BY GuardInitInv, HealthInitInv DEF WindowInit
<1>2. AgentInv
  BY DEF WindowInit, GuardInit, HealthInit, AgentInv, AgentTypeOK, Places, RouterIsUp
<1>3. QED
  BY <1>1, <1>2 DEF WindowInv

-----------------------------------------------------------------------------
(* The agent's steps.                                                      *)

\* Nothing moves but the journal, and perhaps the agent between two places
\* that mean the same to the guard and to the check.
LEMMA TellKeeps ==
  ASSUME WindowInv, UNCHANGED <<guardvars, healthvars>>, AgentTypeOK',
         apc' = apc \/ (apc \in {"rest", "restore"} /\ apc' \in {"enter", "tell"} /\ write = "none")
  PROVE  WindowInv'
<1>1. GuardCore' /\ HealthInv'
  BY GuardStands, HealthStands DEF WindowInv
<1>2. UNCHANGED <<gpc, mpc, write, router, stopjob, slips>>
  BY DEF guardvars, healthvars
<1>3. Places' /\ RouterIsUp'
  BY <1>2 DEF WindowInv, AgentInv, Places, RouterIsUp
<1>4. QED
  BY <1>1, <1>3 DEF WindowInv, AgentInv

LEMMA QuietStepKeeps ==
  ASSUME WindowInv, ReportFlashing \/ AgentFlush \/ NoImageLeft
  PROVE  WindowInv'
<1>1. UNCHANGED <<guardvars, healthvars, wrote>>
  BY DEF ReportFlashing, AgentFlush, NoImageLeft
<1>2. apc' = apc \/ (apc \in {"rest", "restore"} /\ apc' \in {"enter", "tell"} /\ write = "none")
  BY DEF ReportFlashing, AgentFlush, NoImageLeft, WindowInv, AgentInv, Places
<1>3. AgentTypeOK'
  BY <1>1, <1>2 DEF WindowInv, AgentInv, AgentTypeOK
<1>4. QED
  BY <1>1, <1>2, <1>3, TellKeeps

LEMMA OpenWindowKeeps ==
  ASSUME WindowInv, OpenWindow
  PROVE  WindowInv'
<1>1. /\ apc = "enter" /\ EnterGuard /\ apc' = "window" /\ wrote' = FALSE /\ UNCHANGED healthvars
  BY DEF OpenWindow
<1>2. write = "none" /\ mpc = "off"
  BY <1>1 DEF WindowInv, AgentInv, AgentTypeOK, Places, EnterGuard
<1>3. GuardCore' /\ HealthInv'
  BY <1>1, <1>2, EnterKeeps, HealthStands DEF WindowInv
<1>4. gpc' = "list" /\ write' = "none" /\ mpc' = "off"
  BY <1>1, <1>2 DEF EnterGuard, healthvars
<1>5. QED
  BY <1>1, <1>3, <1>4 DEF WindowInv, AgentInv, AgentTypeOK, Places, RouterIsUp

\* The steps inside the window, by what they leave.
LEMMA InsideKeeps ==
  ASSUME WindowInv, gpc # "closed", gpc' # "closed", apc' = apc, wrote' \in BOOLEAN,
         mpc' = mpc, GuardCore', HealthInv'
  PROVE  WindowInv'
<1>1. apc = "window" /\ mpc = "off"
  BY DEF WindowInv, AgentInv, AgentTypeOK, Places
<1>2. write' # "none" => gpc' = "write"
  BY DEF GuardCore, WriteInWindow
<1>3. QED
  BY <1>1, <1>2 DEF WindowInv, AgentInv, AgentTypeOK, Places, RouterIsUp

LEMMA SurveyKeeps ==
  ASSUME WindowInv, Survey
  PROVE  WindowInv'
<1>1. GuardCore' /\ HealthInv'
  BY ListKeeps, CheckKeeps, HealthStands DEF WindowInv, Survey
<1>2. gpc # "closed" /\ gpc' # "closed"
  BY DEF Survey, ListDependents, CheckActive
<1>3. apc' = apc /\ wrote' \in BOOLEAN /\ mpc' = mpc
  BY DEF Survey, healthvars, WindowInv, AgentInv, AgentTypeOK
<1>4. QED
  BY <1>1, <1>2, <1>3, InsideKeeps

LEMMA StopForWriteKeeps ==
  ASSUME WindowInv, StopForWrite
  PROVE  WindowInv'
<1>1. gpc = "stop" /\ gpc' = "write" /\ apc' = apc /\ wrote' \in BOOLEAN /\ UNCHANGED check /\ mpc' = mpc
  BY DEF StopForWrite, StopRouter, check, WindowInv, AgentInv, AgentTypeOK
<1>2. mpc = "off"
  BY <1>1 DEF WindowInv, AgentInv, Places
<1>3. GuardCore'
  BY StopKeeps DEF WindowInv, StopForWrite
<1>4. CASE Reset
  BY <1>1, <1>2, <1>3, <1>4, ResetKeeps, InsideKeeps DEF WindowInv, MayReset, Listening
<1>5. CASE UNCHANGED sketch
  <2>1. UNCHANGED healthvars
    BY <1>1, <1>5 DEF sketch, check, healthvars
  <2>2. QED
    BY <1>1, <1>3, <2>1, HealthStands, InsideKeeps DEF WindowInv
<1>6. QED
  BY <1>4, <1>5 DEF StopForWrite

LEMMA StartWriteKeeps ==
  ASSUME WindowInv, StartWrite
  PROVE  WindowInv'
<1>1. gpc = "write" /\ gpc' = "write" /\ apc' = apc /\ wrote' \in BOOLEAN /\ mpc' = mpc
  BY DEF StartWrite, BeginWrite, Silence, check, WindowInv, AgentInv, AgentTypeOK
<1>2. mpc = "off"
  BY <1>1 DEF WindowInv, AgentInv, Places
<1>3. GuardCore'
  BY BeginKeeps DEF WindowInv, StartWrite
<1>4. HealthInv'
  BY <1>2, WriteKeeps DEF WindowInv, StartWrite, Silence
<1>5. QED
  BY <1>1, <1>3, <1>4, InsideKeeps

LEMMA FinishWriteKeeps ==
  ASSUME WindowInv, FinishWrite
  PROVE  WindowInv'
<1>1. /\ gpc = "write" /\ gpc' = "start" /\ apc' = apc /\ wrote' \in BOOLEAN
      /\ UNCHANGED <<count, boot, partial, check>> /\ running' \in {Nothing, Old, New}
  BY DEF FinishWrite, EndWrite, Leaves
<1>2. mpc = "off" /\ mpc' = mpc
  BY <1>1 DEF WindowInv, AgentInv, Places, check
<1>3. GuardCore'
  BY EndKeeps DEF WindowInv, FinishWrite
<1>4. HealthInv'
  BY <1>1, <1>2, WriteKeeps, WindowAssumption DEF WindowInv
<1>5. QED
  BY <1>1, <1>2, <1>3, <1>4, InsideKeeps

\* The window closes: the router is up, or the log of slips says why not.
LEMMA CloseWindowKeeps ==
  ASSUME WindowInv, CloseWindow
  PROVE  WindowInv'
<1>1. /\ gpc = "start" /\ gpc' = "closed" /\ apc' \in {"check", "tell"} /\ wrote' = wrote
      /\ UNCHANGED healthvars /\ write' = write /\ stopjob' = stopjob
  BY DEF CloseWindow, StartUnits, LeaveGuard
<1>2. mpc = "off" /\ mpc' = mpc /\ write = "none"
  BY <1>1 DEF WindowInv, AgentInv, Places, healthvars, GuardCore, WriteInWindow
<1>3. GuardCore' /\ HealthInv'
  BY <1>1, StartKeeps, HealthStands DEF WindowInv, CloseWindow
<1>4. (router' /\ ~stopjob') \/ slips' \cap Failures # {}
  <2>1. CASE stopped /\ router' = TRUE
    BY <1>1, <2>1 DEF WindowInv, GuardCore, StopIsKnown
  <2>2. CASE slips' = Refusals \cup {"unstarted"}
    BY <2>2 DEF Failures
  <2>3. CASE ~stopped /\ slips' = Refusals
    BY <1>1, <2>3 DEF WindowInv, GuardCore, StopIsKnown, Refusals, Failures
  <2>4. QED
    BY <2>1, <2>2, <2>3 DEF CloseWindow, StartUnits
<1>5. QED
  BY <1>1, <1>2, <1>3, <1>4 DEF WindowInv, AgentInv, AgentTypeOK, Places, RouterIsUp

LEMMA CheckBeginsKeeps ==
  ASSUME WindowInv, CheckBegins
  PROVE  WindowInv'
<1>1. UNCHANGED guardvars /\ wrote' = wrote /\ mpc' = "connect"
      /\ <<apc, apc'>> \in {<<"check", "checking">>, <<"recheck", "rechecking">>}
  BY DEF CheckBegins, BeginCheck
<1>2. GuardCore'
  BY <1>1, GuardStands DEF WindowInv
<1>3. HealthInv'
  <2>1. \E v \in Sketches \cup {Nothing} : BeginCheck(v)
    BY WindowAssumption DEF CheckBegins
  <2>2. QED
    BY <2>1, BeginCheckKeeps DEF WindowInv
<1>4. AgentInv'
  BY <1>1 DEF WindowInv, AgentInv, AgentTypeOK, Places, RouterIsUp, guardvars
<1>5. QED
  BY <1>2, <1>3, <1>4 DEF WindowInv

LEMMA CheckGoesOnKeeps ==
  ASSUME WindowInv, CheckGoesOn
  PROVE  WindowInv'
<1>1. /\ UNCHANGED <<router, port, active, stopjob, gpc, listed, restore, stopped, write, taken>>
      /\ wrote' = wrote /\ apc' = apc
      /\ slips' = IF mpc' \in {"connect", "wait"} THEN slips ELSE {}
  BY DEF CheckGoesOn, units
<1>2. mpc # "off" /\ mpc' # "off" /\ (mpc' \in {"connect", "wait"} => mpc \in {"connect", "wait"})
  BY DEF CheckGoesOn, CheckStep, Attach, Refused, Retry, GiveUp, TimeUp, Deadline, StopReading
<1>3. gpc = "closed" /\ stopped = FALSE
  BY <1>2 DEF WindowInv, AgentInv, AgentTypeOK, Places, GuardCore, GuardTypeOK, StopIsKnown
<1>4. GuardTypeOK'
  BY <1>1 DEF WindowInv, GuardCore, GuardTypeOK
<1>5. GuardCore'
  BY <1>1, <1>3, <1>4, ClosedKeeps
<1>6. HealthInv'
  BY ConnectKeeps, DeadlineKeeps DEF WindowInv, CheckGoesOn, CheckStep
<1>7. AgentInv'
  BY <1>1, <1>2 DEF WindowInv, AgentInv, AgentTypeOK, Places, RouterIsUp
<1>8. QED
  BY <1>5, <1>6, <1>7 DEF WindowInv

LEMMA CheckEndsKeeps ==
  ASSUME WindowInv, CheckEnds
  PROVE  WindowInv'
<1>1. UNCHANGED guardvars /\ wrote' = wrote /\ mpc' = "off"
      /\ apc \in {"checking", "rechecking"} /\ apc' \in {"tell", "restore"}
  BY DEF CheckEnds, Judge
<1>2. GuardCore'
  BY <1>1, GuardStands DEF WindowInv
<1>3. HealthInv'
  BY JudgeKeeps DEF WindowInv, CheckEnds
<1>4. AgentInv'
  BY <1>1 DEF WindowInv, AgentInv, AgentTypeOK, Places, RouterIsUp, guardvars
<1>5. QED
  BY <1>2, <1>3, <1>4 DEF WindowInv

\* Outside the window and the checks nothing is promised but the types.
LEMMA OutsideKeeps ==
  ASSUME GuardTypeOK', gpc' = "closed", stopped' = FALSE, HealthInv', mpc' = "off", wrote' \in BOOLEAN,
         \/ apc' \in {"rest", "tell", "recheck"} /\ write' = "none"
         \/ apc' = "restore"
  PROVE  WindowInv'
<1>1. GuardCore'
  BY ClosedKeeps
<1>2. AgentInv'
  BY DEF AgentInv, AgentTypeOK, Places, RouterIsUp
<1>3. QED
  BY <1>1, <1>2 DEF WindowInv

LEMMA Unguarding ==
  ASSUME WindowInv, apc \in {"restore", "tell"}
  PROVE  GuardTypeOK /\ gpc = "closed" /\ stopped = FALSE /\ mpc = "off" /\ (apc = "tell" => write = "none")
<1>1. gpc = "closed" /\ mpc = "off" /\ (apc = "tell" => write = "none")
  BY DEF WindowInv, AgentInv, Places
<1>2. QED
  BY <1>1 DEF WindowInv, GuardCore, GuardTypeOK, StopIsKnown

LEMMA StartRestoreKeeps ==
  ASSUME WindowInv, StartRestore
  PROVE  WindowInv'
<1>1. GuardTypeOK /\ gpc = "closed" /\ stopped = FALSE
  BY Unguarding DEF StartRestore
<1>2. /\ UNCHANGED <<router, port, active, stopjob, gpc, listed, restore, stopped, taken, wrote>>
      /\ write' = "running" /\ slips' = {} /\ apc' = "restore" /\ running' = Nothing /\ Dismiss
  BY DEF StartRestore, units
<1>3. GuardTypeOK'
  BY <1>1, <1>2 DEF GuardTypeOK
<1>4. HealthInv' /\ mpc' = "off"
  BY <1>2, DismissKeeps DEF WindowInv, Dismiss
<1>5. QED
  BY <1>1, <1>2, <1>3, <1>4, OutsideKeeps DEF WindowInv, AgentInv, AgentTypeOK

LEMMA FinishRestoreKeeps ==
  ASSUME WindowInv, FinishRestore
  PROVE  WindowInv'
<1>1. GuardTypeOK /\ gpc = "closed" /\ stopped = FALSE /\ mpc = "off"
  BY Unguarding DEF FinishRestore
<1>2. /\ UNCHANGED <<router, port, active, stopjob, gpc, listed, restore, stopped, taken, slips, wrote>>
      /\ write' = "none" /\ apc' \in {"restore", "recheck"}
      /\ running' \in {Nothing, Old, New} /\ UNCHANGED <<count, boot, partial, check>>
  BY DEF FinishRestore, units, Leaves
<1>3. GuardTypeOK'
  BY <1>1, <1>2 DEF GuardTypeOK
<1>4. HealthInv' /\ mpc' = "off"
  BY <1>1, <1>2, WriteKeeps, WindowAssumption DEF WindowInv, check
<1>5. QED
  BY <1>1, <1>2, <1>3, <1>4, OutsideKeeps DEF WindowInv, AgentInv, AgentTypeOK

LEMMA ReportOutcomeKeeps ==
  ASSUME WindowInv, ReportOutcome
  PROVE  WindowInv'
<1>1. GuardTypeOK /\ gpc = "closed" /\ stopped = FALSE /\ write = "none"
  BY Unguarding DEF ReportOutcome
<1>2. /\ UNCHANGED <<router, port, active, stopjob, gpc, listed, restore, stopped, write, taken, running>>
      /\ slips' = {} /\ apc' = "rest" /\ wrote' = FALSE /\ Dismiss
  BY DEF ReportOutcome, units
<1>3. GuardTypeOK'
  BY <1>1, <1>2 DEF GuardTypeOK
<1>4. HealthInv' /\ mpc' = "off"
  BY <1>2, DismissKeeps DEF WindowInv, HealthInv, HealthTypeOK, Dismiss
<1>5. QED
  BY <1>1, <1>2, <1>3, <1>4, OutsideKeeps

-----------------------------------------------------------------------------
(* Everybody else's steps.                                                 *)

LEMMA DeathKeeps ==
  ASSUME WindowInv, AgentKilled \/ BoardPowerCut
  PROVE  WindowInv'
<1>1. /\ LeaveGuard /\ write' = "none" /\ slips' = {} /\ apc' = "rest" /\ wrote' = FALSE /\ Dismiss
      /\ running' \in {Nothing, Old, New, running}
  BY DEF AgentKilled, BoardPowerCut
<1>2. GuardTypeOK
  BY DEF WindowInv, GuardCore
<1>3. router' \in BOOLEAN /\ port' \in BOOLEAN /\ stopjob' \in BOOLEAN /\ active' \in SUBSET Dependents
  BY <1>2 DEF AgentKilled, BoardPowerCut, units, GuardTypeOK
<1>4. GuardTypeOK' /\ gpc' = "closed" /\ stopped' = FALSE
  BY <1>1, <1>3 DEF GuardTypeOK, LeaveGuard
<1>5. running' \in Sketches \cup {Nothing}
  BY <1>1, WindowAssumption DEF WindowInv, HealthInv, HealthTypeOK
<1>6. HealthInv' /\ mpc' = "off"
  BY <1>1, <1>5, DismissKeeps DEF WindowInv, Dismiss
<1>7. QED
  BY <1>1, <1>4, <1>6, OutsideKeeps

LEMMA RouterGoesDownKeeps ==
  ASSUME WindowInv, RouterGoesDown
  PROVE  WindowInv'
<1>1. /\ RouterExits \/ StopJobEnds
      /\ UNCHANGED <<gpc, slips, apc, wrote>> /\ (write = "none" => write' = "none")
  BY DEF RouterGoesDown, RouterExits, StopJobEnds, UnitsDown, ResetLine
<1>2. GuardCore'
  BY <1>1, LineKeeps DEF WindowInv
<1>3. HealthInv' /\ (mpc' = mpc \/ (mpc = "read" /\ mpc' = "judge"))
  <2>1. MayReset /\ Reset
    BY DEF RouterGoesDown
  <2>2. CASE mpc = "read"
    <3>1. StopReading
      BY <2>2 DEF RouterGoesDown
    <3>2. HealthInv'
      BY <2>1, <3>1, ResetKeeps, StopReadingKeeps DEF WindowInv
    <3>3. QED
      BY <2>2, <3>1, <3>2 DEF StopReading
  <2>3. CASE mpc # "read"
    <3>1. UNCHANGED check
      BY <2>3 DEF RouterGoesDown
    <3>2. HealthInv'
      BY <2>1, <3>1, ResetKeeps DEF WindowInv
    <3>3. QED
      BY <3>1, <3>2 DEF check
  <2>4. QED
    BY <2>2, <2>3
<1>4. RouterIsUp'
  <2>1. CASE RouterExits
    BY <1>1, <1>3, <2>1 DEF RouterExits, units, WindowInv, AgentInv, RouterIsUp
  <2>2. CASE StopJobEnds
    BY <1>1, <1>3, <2>2 DEF StopJobEnds, WindowInv, AgentInv, RouterIsUp
  <2>3. QED
    BY <1>1, <2>1, <2>2
<1>5. Places' /\ AgentTypeOK'
  BY <1>1, <1>3 DEF WindowInv, AgentInv, Places, AgentTypeOK
<1>6. QED
  BY <1>2, <1>3, <1>4, <1>5 DEF WindowInv, AgentInv

LEMMA UnitMovesKeeps ==
  ASSUME WindowInv, UnitMoves
  PROVE  WindowInv'
<1>1. RouterListens \/ \E d \in Dependents : UnitStarts(d) \/ UnitLeaves(d)
  BY DEF UnitMoves
<1>2. /\ UNCHANGED <<gpc, write, stopjob>> /\ (router => router') /\ slips \subseteq slips'
  BY <1>1 DEF RouterListens, UnitStarts, UnitLeaves
<1>3. UNCHANGED healthvars /\ UNCHANGED <<apc, wrote>>
  BY DEF UnitMoves
<1>4. GuardCore' /\ HealthInv'
  BY <1>1, <1>3, ListensKeeps, UnitKeeps, HealthStands DEF WindowInv
<1>5. AgentInv'
  BY <1>2, <1>3 DEF WindowInv, AgentInv, AgentTypeOK, Places, RouterIsUp, healthvars
<1>6. QED
  BY <1>4, <1>5 DEF WindowInv

LEMMA SketchKeeps ==
  ASSUME WindowInv, SketchPrints \/ SketchResets
  PROVE  WindowInv'
<1>1. UNCHANGED guardvars /\ UNCHANGED <<apc, wrote, mpc>>
  BY DEF SketchPrints, SketchResets, PrintLine, check
<1>2. GuardCore'
  BY <1>1, GuardStands DEF WindowInv
<1>3. HealthInv'
  BY PrintKeeps, ResetKeeps DEF WindowInv, SketchPrints, SketchResets
<1>4. AgentInv'
  BY <1>1 DEF WindowInv, AgentInv, AgentTypeOK, Places, RouterIsUp, guardvars
<1>5. QED
  BY <1>2, <1>3, <1>4 DEF WindowInv

LEMMA WindowNextInv == WindowInv /\ [WindowNext]_windowvars => WindowInv'
<1> SUFFICES ASSUME WindowInv, [WindowNext]_windowvars PROVE WindowInv'
  OBVIOUS
<1>1. CASE OthersRecord \/ UNCHANGED windowvars
  <2>1. UNCHANGED <<guardvars, healthvars, apc, wrote>>
    BY <1>1 DEF OthersRecord, windowvars
  <2>2. QED
    BY <2>1, TellKeeps DEF WindowInv, AgentInv, AgentTypeOK
<1>2. CASE AgentNext
  BY <1>2, QuietStepKeeps, OpenWindowKeeps, SurveyKeeps, StopForWriteKeeps, StartWriteKeeps,
     FinishWriteKeeps, CloseWindowKeeps, CheckBeginsKeeps, CheckGoesOnKeeps, CheckEndsKeeps,
     StartRestoreKeeps, FinishRestoreKeeps, ReportOutcomeKeeps DEF AgentNext
<1>3. QED
  BY <1>1, <1>2, DeathKeeps, RouterGoesDownKeeps, UnitMovesKeeps, SketchKeeps DEF WindowNext

LEMMA WindowInvHolds == WindowSpec => []WindowInv
  BY WindowInitInv, WindowNextInv, PTL DEF WindowSpec

-----------------------------------------------------------------------------
(* What holds on the board.                                                *)

\* A flash uses the journal as events.py allows: what the board does to it is
\* one of the journal's own steps or none, so that all that holds of the
\* journal holds here.
THEOREM JournalIsKept == WindowSpec => LogSpec
<1>1. WindowInit => LogInit
  BY DEF WindowInit
<1>2. [WindowNext]_windowvars => [LogNext]_logvars
  <2> SUFFICES ASSUME [WindowNext]_windowvars PROVE LogNext \/ UNCHANGED logvars
    OBVIOUS
  <2>1. CASE ReportFlashing \/ ReportOutcome \/ AgentFlush
    BY <2>1, WindowAssumption DEF ReportFlashing, ReportOutcome, AgentFlush, Tell, LogNext
  <2>2. CASE AgentKilled
    <3>1. WriterDies(agent)
      BY <2>2 DEF AgentKilled, WriterDies
    <3>2. QED
      BY <3>1, WindowAssumption DEF LogNext
  <2>3. CASE OthersRecord
    BY <2>3 DEF OthersRecord, LogNext
  <2>4. CASE BoardPowerCut
    BY <2>4 DEF BoardPowerCut, LogNext
  <2>5. CASE OpenWindow \/ Survey \/ StopForWrite \/ StartWrite \/ FinishWrite \/ CloseWindow
    BY <2>5 DEF OpenWindow, Survey, StopForWrite, StartWrite, FinishWrite, CloseWindow
  <2>6. CASE CheckBegins \/ CheckGoesOn \/ CheckEnds \/ StartRestore \/ FinishRestore \/ NoImageLeft
    BY <2>6 DEF CheckBegins, CheckGoesOn, CheckEnds, StartRestore, FinishRestore, NoImageLeft
  <2>7. CASE RouterGoesDown \/ UnitMoves \/ SketchPrints \/ SketchResets \/ UNCHANGED windowvars
    BY <2>7 DEF RouterGoesDown, UnitMoves, SketchPrints, SketchResets, windowvars
  <2>8. QED
    BY <2>1, <2>2, <2>3, <2>4, <2>5, <2>6, <2>7 DEF WindowNext, AgentNext
<1>3. QED
  BY <1>1, <1>2, PTL DEF WindowSpec, LogSpec

\* Every part of the board keeps its type through a flash.
THEOREM WindowTyping == WindowSpec => []WindowTypeOK
<1>1. WindowInv /\ LogTypeOK => WindowTypeOK
  BY DEF WindowInv, GuardCore, HealthInv, AgentInv, AgentTypeOK, WindowTypeOK
<1>2. QED
  BY <1>1, WindowInvHolds, JournalIsKept, LogTyping, PTL

\* events.py on a board that flashes, is killed and loses its power: until a
\* flush starts from the overlaid digits of two offsets no event is passed
\* over, delivery is in order, a record that ends leaves no backlog.
THEOREM EventsSurviveTheFlash == WindowSpec => []NothingSkipped /\ []InOrder /\ BacklogGone
  BY JournalIsKept, NoEventIsSkipped, DeliveryIsInOrder, BacklogIsDelivered, PTL

\* flasher.py:246-255 with the agent around it, which also writes without the
\* guard, dies anywhere, and finds stops left over from earlier windows.
THEOREM WindowIsStill == WindowSpec => []NoResetMidWrite
<1>1. WindowInv => NoResetMidWrite
  BY CoreIsStill DEF WindowInv
<1>2. QED
  BY <1>1, WindowInvHolds, PTL

\* flasher.py:325-329 with the agent around it.
THEOREM WindowRestores == WindowSpec => BoardAsBefore
<1>1. WindowInv =>
        [(StartUnits /\ slips = {} /\ slips' = {}) => router' /\ taken \subseteq active']_guardvars
  BY StartRestores DEF WindowInv
<1>2. QED
  BY <1>1, WindowInvHolds, PTL DEF BoardAsBefore

\* version_report.py:18-22: a sketch that resets in the window or boot-loops is
\* not found alive, for any number of starts, of sketches and of lines.
THEOREM NoBootLoopIsAlive == WindowSpec => []AliveIsEarned
<1>1. WindowInv => AliveIsEarned
  BY EarnedByEvidence DEF WindowInv
<1>2. QED
  BY <1>1, WindowInvHolds, PTL

\* version_report.py:86-91: a sketch that was heard steadily is found alive.
THEOREM SteadyIsAlive == WindowSpec => []SteadyIsHeard
<1>1. WindowInv => SteadyIsHeard
  BY SteadyIsJudgedAlive DEF WindowInv
<1>2. QED
  BY <1>1, WindowInvHolds, PTL

\* version_report.py:86-91: the check after a write keeps trying the monitor
\* port up to its deadline; that the router is not at least on its way by then
\* is the work of a systemctl call that failed in its own window, and of
\* nothing else.
THEOREM PortIsOpen == WindowSpec => ReachesTheSketch
<1>1. WindowInv /\ [WindowNext]_windowvars =>
        [(apc = "checking" /\ mpc = "connect" /\ mpc' = "judge") =>
           late /\ (router \/ slips \cap {"refused", "hung", "unstarted"} # {})]_windowvars
  <2> SUFFICES ASSUME WindowInv, WindowNext, apc = "checking", mpc = "connect", mpc' = "judge"
               PROVE  late /\ (router \/ slips \cap {"refused", "hung", "unstarted"} # {})
    OBVIOUS
  <2>1. CASE CheckGoesOn
    <3>1. late
      BY <2>1 DEF CheckGoesOn, CheckStep, Attach, Refused, Retry, GiveUp, TimeUp, Deadline, StopReading
    <3>2. QED
      BY <3>1 DEF WindowInv, AgentInv, RouterIsUp, Failures
  <2>2. CASE RouterGoesDown \/ SketchPrints \/ SketchResets
    BY <2>2 DEF RouterGoesDown, SketchPrints, SketchResets, PrintLine, check
  <2>3. CASE AgentKilled \/ BoardPowerCut \/ StartRestore \/ ReportOutcome
    BY <2>3 DEF AgentKilled, BoardPowerCut, StartRestore, ReportOutcome, Dismiss
  <2>4. CASE UnitMoves \/ OthersRecord \/ ReportFlashing \/ AgentFlush \/ NoImageLeft
    BY <2>4 DEF UnitMoves, OthersRecord, ReportFlashing, AgentFlush, NoImageLeft, healthvars
  <2>5. CASE OpenWindow \/ Survey \/ StopForWrite \/ StartWrite \/ FinishWrite \/ CloseWindow
    BY <2>5 DEF OpenWindow, Survey, StopForWrite, StartWrite, FinishWrite, CloseWindow, Silence, Leaves,
                check, healthvars
  <2>6. CASE CheckBegins \/ CheckEnds \/ FinishRestore
    BY <2>6 DEF CheckBegins, BeginCheck, CheckEnds, Judge, FinishRestore, Leaves, check
  <2>7. QED
    BY <2>1, <2>2, <2>3, <2>4, <2>5, <2>6 DEF WindowNext, AgentNext
<1>2. QED
  BY <1>1, WindowInvHolds, PTL DEF WindowSpec, ReachesTheSketch
=============================================================================
