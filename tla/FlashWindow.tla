---------------------------- MODULE FlashWindow -----------------------------
(***************************************************************************)
(* One flash as the rest of the board sees it (agent.py:500-620): the      *)
(* agent reports FLASHING to the journal, writes the target inside the     *)
(* router guard, runs the health check over the router's monitor port,     *)
(* rolls back without the guard when it fails, and reports the outcome.    *)
(* Meanwhile systemd moves the router and its dependents, the sketch       *)
(* resets, other processes use the same journal, and anything dies.        *)
(*                                                                         *)
(* What state.json, the images and the host tree go through is in Agent    *)
(* and is left out here.                                                   *)
(***************************************************************************)
EXTENDS RouterGuard, EventLog, HealthCheck

CONSTANTS
  agent,        \* the process that flashes, one of the Writers
  New, Old      \* the sketch being installed, and one on a recovery image

ASSUME WindowAssumption ==
  agent \in Writers /\ New \in Sketches /\ Old \in Sketches /\ New # Old

VARIABLES
  apc,          \* where the agent is
  wrote         \* write_sketch returned normally

windowvars == <<guardvars, logvars, healthvars, apc, wrote>>

WindowTypeOK ==
  /\ GuardTypeOK /\ LogTypeOK /\ HealthTypeOK
  /\ apc \in {"rest", "enter", "window", "check", "checking", "restore",
              "recheck", "rechecking", "tell"}
  /\ wrote \in BOOLEAN

WindowInit == GuardInit /\ LogInit /\ HealthInit /\ apc = "rest" /\ wrote = FALSE

-----------------------------------------------------------------------------
(* The agent, one thread.                                                  *)

\* source.report goes through the journal; a failed append changes nothing.
Tell == Record(agent) \/ AppendFails(agent)

ReportFlashing ==
  /\ apc = "rest" /\ Tell /\ apc' = "enter"
  /\ UNCHANGED <<guardvars, healthvars, wrote>>

AgentFlush == Flush(agent) /\ UNCHANGED <<guardvars, healthvars, apc, wrote>>

OpenWindow ==
  /\ apc = "enter" /\ wpc[agent] = "idle" /\ EnterGuard
  /\ apc' = "window" /\ wrote' = FALSE
  /\ UNCHANGED <<logvars, healthvars>>

Survey == (ListDependents \/ CheckActive) /\ UNCHANGED <<logvars, healthvars, apc, wrote>>

\* Room for another start of the sketch within one check.
MayReset == Listening => boot < MaxBoots

check == <<mpc, late, expected, lines, answer, marred>>

\* The stop drives the reset line before the write begins.
StopForWrite ==
  /\ StopRouter
  /\ IF router /\ ~router' THEN Reset ELSE UNCHANGED sketch
  /\ UNCHANGED <<logvars, check, apc, wrote>>

\* openocd halts the core and erases...
Silence == running' = Nothing /\ UNCHANGED <<count, boot, partial, check>>

StartWrite == BeginWrite /\ Silence /\ UNCHANGED <<logvars, apc, wrote>>

\* ...and leaves the new sketch, or on a failure whatever it had got to.
Leaves(sketches) == running' \in sketches /\ UNCHANGED <<count, boot, partial, check>>

FinishWrite ==
  /\ EndWrite
  /\ \/ write = "running" /\ wrote' = TRUE /\ Leaves({New})
     \/ wrote' = FALSE /\ Leaves({Nothing, Old, New})
  /\ UNCHANGED <<logvars, apc>>

CloseWindow ==
  /\ StartUnits
  /\ apc' = IF wrote THEN "check" ELSE "tell"
  /\ UNCHANGED <<logvars, healthvars, wrote>>

\* After the write wait_healthy, after a restored image wait_alive.
CheckBegins ==
  /\ \/ apc = "check" /\ BeginCheck(New) /\ apc' = "checking"
     \/ apc = "recheck" /\ BeginCheck(Nothing) /\ apc' = "rechecking"
  /\ UNCHANGED <<guardvars, logvars, wrote>>

\* What slipped in the window matters until the check is connected.
CheckGoesOn ==
  /\ CheckStep(port)
  /\ slips' = IF mpc' \in {"connect", "wait"} THEN slips ELSE {}
  /\ UNCHANGED <<units, gpc, listed, restore, stopped, write, taken, logvars, apc, wrote>>

\* A restored image is also passed over when it is not the version that
\* state.json has for its file, which is not known here.
CheckEnds ==
  /\ Judge
  /\ \/ apc = "checking" /\ apc' = IF answer' = New THEN "tell" ELSE "restore"
     \/ apc = "rechecking" /\ apc' = "restore"
     \/ apc = "rechecking" /\ answer' \notin {Nothing, New} /\ apc' = "tell"
  /\ UNCHANGED <<guardvars, logvars, wrote>>

\* A rollback image is written with the router running.
StartRestore ==
  /\ apc = "restore" /\ write = "none"
  /\ write' = "running" /\ running' = Nothing /\ Dismiss /\ slips' = {}
  /\ UNCHANGED <<units, gpc, listed, restore, stopped, taken, logvars, apc, wrote>>

FinishRestore ==
  /\ apc = "restore" /\ write # "none" /\ write' = "none"
  /\ \/ write = "running" /\ Leaves({Old}) /\ apc' = "recheck"
     \/ Leaves({Nothing, Old, New}) /\ UNCHANGED apc
  /\ UNCHANGED <<units, gpc, listed, restore, stopped, taken, slips, logvars, wrote>>

\* Every candidate has had its turn.
NoImageLeft ==
  /\ apc = "restore" /\ write = "none" /\ apc' = "tell"
  /\ UNCHANGED <<guardvars, logvars, healthvars, wrote>>

ReportOutcome ==
  /\ apc = "tell" /\ Tell /\ apc' = "rest" /\ wrote' = FALSE
  /\ Dismiss /\ slips' = {}
  /\ UNCHANGED <<running, units, gpc, listed, restore, stopped, write, taken>>

AgentNext ==
  \/ ReportFlashing \/ AgentFlush \/ OpenWindow \/ Survey \/ StopForWrite
  \/ StartWrite \/ FinishWrite \/ CloseWindow
  \/ CheckBegins \/ CheckGoesOn \/ CheckEnds
  \/ StartRestore \/ FinishRestore \/ NoImageLeft \/ ReportOutcome

-----------------------------------------------------------------------------
(* Everybody else.                                                         *)

\* Killed anywhere, also inside the window: the finally block never runs.
AgentKilled ==
  /\ LeaveGuard /\ write' = "none" /\ slips' = {} /\ apc' = "rest" /\ wrote' = FALSE
  /\ Forget(agent) /\ Dismiss
  /\ IF write # "none" THEN running' \in {Nothing, Old, New} ELSE UNCHANGED running
  /\ UNCHANGED <<units, journal, offset, sent, marks>>

\* The router goes down: the target is reset and the monitor port closes.
RouterGoesDown ==
  /\ RouterExits \/ StopJobEnds
  /\ MayReset /\ Reset
  /\ IF mpc = "read" THEN StopReading ELSE UNCHANGED check
  /\ UNCHANGED <<logvars, apc, wrote>>

UnitMoves ==
  /\ RouterListens \/ \E d \in Dependents : UnitStarts(d) \/ UnitLeaves(d)
  /\ UNCHANGED <<logvars, healthvars, apc, wrote>>

SketchPrints == PrintLine /\ UNCHANGED <<guardvars, logvars, apc, wrote>>

SketchResets ==
  /\ Listening /\ MayReset /\ Reset
  /\ UNCHANGED <<check, guardvars, logvars, apc, wrote>>

OthersRecord ==
  /\ \E w \in Writers \ {agent} : Record(w) \/ AppendFails(w) \/ Flush(w) \/ WriterDies(w)
  /\ UNCHANGED <<guardvars, healthvars, apc, wrote>>

\* Every process goes; the units come up again with the board.
BoardPowerCut ==
  /\ PowerCut /\ Dismiss
  /\ router' = TRUE /\ port' = FALSE /\ active' \in SUBSET Dependents /\ stopjob' = FALSE
  /\ LeaveGuard /\ write' = "none" /\ slips' = {}
  /\ apc' = "rest" /\ wrote' = FALSE
  /\ IF write # "none" THEN running' \in {Nothing, Old, New} ELSE UNCHANGED running

WindowNext ==
  \/ AgentNext \/ AgentKilled \/ RouterGoesDown \/ UnitMoves
  \/ SketchPrints \/ SketchResets \/ OthersRecord \/ BoardPowerCut

WindowSpec == WindowInit /\ [][WindowNext]_windowvars

-----------------------------------------------------------------------------
\* version_report.py:86-91: "a refused connection here means not listening
\* yet, and treating that as a verdict makes a healthy update look like dead
\* firmware and rolls it back".  The check after a write is not given up
\* before its deadline, and then the router is at least on its way: that it
\* was left down by its own window takes a systemctl call that failed, and no
\* crash, reboot or stop left over from an earlier window does that.
ReachesTheSketch ==
  [][(apc = "checking" /\ mpc = "connect" /\ mpc' = "judge") =>
       late /\ (router \/ slips \cap {"refused", "hung", "unstarted"} # {})]_windowvars
=============================================================================
