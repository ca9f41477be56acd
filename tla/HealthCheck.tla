---------------------------- MODULE HealthCheck -----------------------------
(***************************************************************************)
(* health/version_report.py: the lines a sketch prints, their collection   *)
(* from the router's monitor port up to a deadline, and the verdicts       *)
(* wait_healthy and wait_alive draw from them.                             *)
(*                                                                         *)
(* A line is the version and the sequence number it carries; the number is *)
(* decimal text, so a line cut short carries a leading part of it.  The    *)
(* base is a constant, small enough for an instance to reach two digits.   *)
(***************************************************************************)
EXTENDS Common, Naturals, Sequences, FiniteSets, Functions

CONSTANTS
  Sketches,     \* the versions that may run
  Radix,        \* the base of the numbers in the lines
  MaxSeq,       \* bound: the last number a sketch prints
  MaxBoots      \* bound: starts of a sketch in one check

ASSUME HealthAssumption ==
  /\ Nothing \notin Sketches
  /\ Radix \in Nat \ {0, 1} /\ MaxSeq \in Nat /\ MaxBoots \in Nat

MIN_REPORTS == 2

VARIABLES
  running,    \* the version that runs on the target, or Nothing
  count,      \* the number its next line carries
  boot,       \* history: starts since the check began
  mpc,        \* where the check is
  late,       \* its deadline passed before it was connected
  expected,   \* the version wait_healthy wants; Nothing for wait_alive
  lines,      \* the reports collected, each with the boot that printed it
  answer,     \* the version found healthy or alive, or Nothing
  partial,    \* a line was broken off by a reset and the next one joins it
  marred      \* history: a line of this check was joined or cut short

healthvars == <<running, count, boot, mpc, late, expected, lines, answer, partial, marred>>
sketch == <<running, count, boot, partial>>

Line == [ver: Sketches, seq: Nat, boot: Nat]

HealthTypeOK ==
  /\ running \in Sketches \cup {Nothing} /\ count \in 0..(MaxSeq + 1) /\ boot \in 0..MaxBoots
  /\ mpc \in {"off", "connect", "wait", "read", "judge"} /\ late \in BOOLEAN
  /\ expected \in Sketches \cup {Nothing} /\ answer \in Sketches \cup {Nothing}
  /\ lines \in Seq(Line)
  /\ partial \in BOOLEAN /\ marred \in BOOLEAN

HealthInit ==
  /\ running \in Sketches /\ count = 0 /\ boot = 0
  /\ mpc = "off" /\ late = FALSE /\ expected = Nothing /\ lines = <<>> /\ answer = Nothing
  /\ partial = FALSE /\ marred = FALSE

-----------------------------------------------------------------------------
(* The sketch (external; examples/ota_health_report).                      *)

\* A check is waiting for lines, or for the port they come through.
Listening == mpc \in {"connect", "wait", "read"}

\* v starts from its first number, from an upload or a reset.
Starts(v) ==
  /\ running' = v /\ count' = 0
  /\ boot' = IF Listening THEN boot + 1 ELSE boot

\* The reset line, a watchdog or a crash: perhaps in the middle of a line,
\* which then runs into the next one unless a boot message comes between.
Reset == IF running = Nothing THEN UNCHANGED sketch
         ELSE Starts(running) /\ partial' \in {FALSE, mpc = "read"}

\* Serial output is dropped unless somebody is attached; what is printed
\* before a check only moves the number on, as the steps before Attach do.
PrintLine ==
  /\ running # Nothing /\ count <= MaxSeq /\ Listening
  /\ count' = count + 1 /\ partial' = FALSE
  /\ lines' = IF mpc = "read" /\ ~partial
                THEN Append(lines, [ver |-> running, seq |-> count, boot |-> boot]) ELSE lines
  /\ marred' = (marred \/ partial)
  /\ UNCHANGED <<running, boot, mpc, late, expected, answer>>

-----------------------------------------------------------------------------
(* The check.                                                              *)

BeginCheck(v) ==
  /\ mpc = "off"
  /\ mpc' = "connect" /\ late' = FALSE /\ expected' = v /\ lines' = <<>> /\ answer' = Nothing
  /\ boot' = 0 /\ partial' = FALSE /\ marred' = FALSE
  /\ UNCHANGED <<running, count>>

\* The port answers.  Connecting and reading share one deadline: when it has
\* passed there is no time left to read.
Attach(open) ==
  /\ mpc = "connect" /\ open
  /\ mpc' = (IF late THEN "judge" ELSE "read") /\ late' = FALSE
  /\ UNCHANGED <<sketch, expected, lines, answer, marred>>

\* A refused connection is tried again after a pause...
Refused(open) ==
  /\ mpc = "connect" /\ ~open /\ ~late
  /\ mpc' = "wait"
  /\ UNCHANGED <<sketch, late, expected, lines, answer, marred>>

Retry ==
  /\ mpc = "wait" /\ mpc' = "connect"
  /\ UNCHANGED <<sketch, late, expected, lines, answer, marred>>

GiveUp_mut(open) ==
  /\ mpc = "connect" /\ ~open
  /\ mpc' = "judge" /\ late' = FALSE
  /\ UNCHANGED <<sketch, expected, lines, answer, marred>>

\* ...until the deadline, after which nothing was read.
GiveUp(open) ==
  /\ mpc = "connect" /\ ~open /\ late
  /\ mpc' = "judge" /\ late' = FALSE
  /\ UNCHANGED <<sketch, expected, lines, answer, marred>>

\* The deadline passes.  The clock is only looked at around an attempt, so a
\* pause that outlasts the deadline is one after which it has passed.
TimeUp ==
  /\ mpc = "connect" /\ ~late /\ late' = TRUE
  /\ UNCHANGED <<sketch, mpc, expected, lines, answer, marred>>

\* The leading part of the line being printed, if a digit of it is there.
CutLine ==
  /\ running # Nothing /\ ~partial /\ count >= Radix
  /\ lines' = Append(lines, [ver |-> running, seq |-> count \div Radix, boot |-> boot])
  /\ marred' = TRUE

\* The deadline passes, or the other end closes: what is there is judged.
StopReading ==
  /\ mpc = "read" /\ mpc' = "judge"
  /\ CutLine \/ UNCHANGED <<lines, marred>>
  /\ UNCHANGED <<late, expected, answer>>

\* What the sketch goes on to print is of no interest until the next check.
Deadline == StopReading /\ count' = 0 /\ partial' = FALSE /\ UNCHANGED <<running, boot>>

\* The places of v's reports among the lines.
ReportsOf(v) == {i \in DOMAIN lines : lines[i].ver = v}

\* j is the next place after i.
Follows(places, i, j) == i < j /\ \A k \in places : k <= i \/ j <= k

Advances(places) ==
  \E i, j \in places : (\A k \in places : i <= k /\ k <= j) /\ lines[i].seq < lines[j].seq

Progressed_mut(places) == Advances(places)

Progressed_gap_mut(places) ==
  \A i, j \in places : Follows(places, i, j) => lines[i].seq + 1 < lines[j].seq

\* _progressed: no step back anywhere, and an advance from first to last.
Progressed(places) ==
  /\ \A i, j \in places : Follows(places, i, j) => lines[i].seq <= lines[j].seq
  /\ Advances(places)

Lives(v) == Cardinality(ReportsOf(v)) >= MIN_REPORTS /\ Progressed(ReportsOf(v))

\* wait_alive wants exactly one version that lives.
AliveVersion == LET alive == {v \in Sketches : Lives(v)}
                IN  IF \E v \in Sketches : alive = {v} THEN CHOOSE v \in alive : TRUE ELSE Nothing

Verdict == IF expected = Nothing THEN AliveVersion
           ELSE IF Lives(expected) THEN expected ELSE Nothing

Judge ==
  /\ mpc = "judge"
  /\ answer' = Verdict /\ mpc' = "off"
  /\ count' = 0 /\ partial' = FALSE
  /\ UNCHANGED <<running, boot, late, expected, lines, marred>>

\* The check's object is gone.
Dismiss ==
  /\ mpc' = "off" /\ late' = FALSE /\ expected' = Nothing /\ lines' = <<>> /\ answer' = Nothing
  /\ count' = 0 /\ boot' = 0 /\ partial' = FALSE /\ marred' = FALSE

CheckStep(open) ==
  Attach(open) \/ Refused(open) \/ Retry \/ GiveUp(open) \/ TimeUp \/ Deadline

-----------------------------------------------------------------------------
\* The reports of v's boot b.
Heard(v, b) == {l \in Range(lines) : l.ver = v /\ l.boot = b}

\* version_report.py:18-22: a device that resets in the window or boot-loops
\* must not read as healthy.  A version found alive has, in its latest start,
\* counted upwards before our eyes, and no earlier start of it in the window
\* was heard past its first line.  Lines joined by a reset or cut by the
\* deadline are excepted: they hide a start from the check.
AliveIsEarned ==
  (mpc = "off" /\ answer # Nothing /\ ~marred) =>
    \E b \in 0..MaxBoots :
      /\ \E l, k \in Heard(answer, b) : l.seq < k.seq
      /\ \A c \in 0..MaxBoots : c # b => \A l \in Heard(answer, c) : c < b /\ l.seq = 0

\* version_report.py:86-91: a healthy update must not look dead.  A sketch
\* heard twice, in one start and to the end of a line, is found alive.
SteadyIsHeard ==
  (mpc = "off" /\ ~marred /\ boot = 0 /\ Len(lines) >= MIN_REPORTS) =>
    \A v \in Sketches : (expected \in {v, Nothing} /\ \A l \in Range(lines) : l.ver = v) => answer = v
=============================================================================
