----------------------------- MODULE RouterGuard ----------------------------
(***************************************************************************)
(* flasher.py: router_stopped(), the guard around a flash.  The router's   *)
(* unit drives the target's reset line when it stops, so it is stopped     *)
(* for the length of the write and started again afterwards, together      *)
(* with the services that systemd stopped along with it.                   *)
(*                                                                         *)
(* systemd is external: units that require the router go down with it and  *)
(* bring it up when they start; a stop that nobody waits for any more is   *)
(* still carried out; Restart=always brings back a unit that exits, never  *)
(* one that was stopped.  Between a start, or an exit, and the moment the  *)
(* router listens again, its monitor port is shut.                         *)
(***************************************************************************)
CONSTANT Dependents     \* the services that require the router

VARIABLES
  router,     \* the router's unit is up, or systemd is about to restart it
  port,       \* the router listens on its monitor port
  active,     \* the dependents that are running
  stopjob,    \* systemd has a stop job whose client gave up
  gpc,        \* where the guard is; "closed" outside the window
  listed,     \* the candidates of _running_dependents
  restore,    \* the dependents to start again
  stopped,    \* the guard's own flag
  write,      \* the write under way, and whether the reset line hit it
  taken,      \* history: the dependents that went down with the router
  slips       \* history: what went wrong or changed in this window

guardvars == <<router, port, active, stopjob, gpc, listed, restore, stopped, write, taken, slips>>
units == <<router, port, active, stopjob>>

Slip == {"unlisted", "refused", "hung", "late", "pulled", "unstarted"}

GuardTypeOK ==
  /\ router \in BOOLEAN /\ port \in BOOLEAN /\ stopjob \in BOOLEAN /\ stopped \in BOOLEAN
  /\ active \in SUBSET Dependents /\ listed \in SUBSET Dependents
  /\ restore \in SUBSET Dependents /\ taken \in SUBSET Dependents
  /\ gpc \in {"closed", "list", "states", "stop", "write", "start"}
  /\ write \in {"none", "running", "spoilt"}
  /\ slips \in SUBSET Slip

\* The window opens on a board that works.
GuardInit ==
  /\ router = TRUE /\ port = TRUE /\ active \in SUBSET Dependents /\ stopjob = FALSE
  /\ gpc = "closed" /\ listed = {} /\ restore = {} /\ stopped = FALSE
  /\ write = "none" /\ taken = {} /\ slips = {}

-----------------------------------------------------------------------------
\* The router's ExecStopPost toggles the reset line.
ResetLine == write' = IF write = "running" THEN "spoilt" ELSE write

\* A stop of the router takes the dependents down with it.
UnitsDown == router' = FALSE /\ port' = FALSE /\ active' = {} /\ stopjob' = FALSE /\ ResetLine

EnterGuard ==
  /\ gpc = "closed"
  /\ gpc' = "list" /\ slips' = {}
  /\ UNCHANGED <<units, listed, restore, stopped, write, taken>>

\* The guard's frame is gone, by a return or with its process.
LeaveGuard ==
  gpc' = "closed" /\ listed' = {} /\ restore' = {} /\ stopped' = FALSE /\ taken' = {}

\* systemctl list-dependencies; whatever goes wrong, nothing is restored.
ListDependents ==
  /\ gpc = "list"
  /\ \/ listed' = Dependents /\ gpc' = "states" /\ UNCHANGED slips
     \/ listed' = {} /\ gpc' = "stop" /\ slips' = slips \cup {"unlisted"}
  /\ UNCHANGED <<units, restore, stopped, write, taken>>

\* systemctl is-active: asked before the stop, for after it they are down.
CheckActive ==
  /\ gpc = "states"
  /\ \/ restore' = listed \cap active /\ UNCHANGED slips
     \/ restore' = {} /\ slips' = slips \cup {"unlisted"}
  /\ gpc' = "stop" /\ listed' = {}
  /\ UNCHANGED <<units, stopped, write, taken>>

\* systemctl stop: done, refused or impossible, or given up after 30 s with
\* the job still queued.  The write goes ahead in every case.
StopRouter_mut ==
  /\ gpc = "stop" /\ gpc' = "write" /\ taken' = active
  /\ \/ UnitsDown /\ stopped' = TRUE
        /\ slips' = IF active \subseteq restore THEN slips ELSE slips \cup {"late"}
     \/ stopjob' = TRUE /\ stopped' = TRUE /\ UNCHANGED <<router, port, active, write, slips>>
  /\ UNCHANGED <<listed, restore>>

StopRouter ==
  /\ gpc = "stop" /\ gpc' = "write" /\ taken' = active
  /\ \/ UnitsDown /\ stopped' = TRUE
        /\ slips' = IF active \subseteq restore THEN slips ELSE slips \cup {"late"}
     \/ slips' = slips \cup {"refused"} /\ UNCHANGED <<units, stopped, write>>
     \/ stopjob' = TRUE /\ slips' = slips \cup {"hung"} /\ UNCHANGED <<router, port, active, stopped, write>>
  /\ UNCHANGED <<listed, restore>>

BeginWrite ==
  /\ gpc = "write" /\ write = "none"
  /\ write' = "running"
  /\ UNCHANGED <<units, gpc, listed, restore, stopped, taken, slips>>

\* write_sketch returns or raises; either way the finally block is next.
EndWrite ==
  /\ gpc = "write" /\ write # "none"
  /\ write' = "none" /\ gpc' = "start"
  /\ UNCHANGED <<units, listed, restore, stopped, taken, slips>>

\* What is remembered of the window after it: the calls that failed.
Refusals == slips \cap {"refused", "hung"}

StartUnits_mut ==
  /\ gpc = "start" /\ LeaveGuard
  /\ \/ stopped /\ router' = TRUE /\ slips' = Refusals /\ UNCHANGED active
     \/ stopped /\ slips' = Refusals \cup {"unstarted"} /\ UNCHANGED <<router, active>>
     \/ ~stopped /\ slips' = Refusals /\ UNCHANGED <<router, active>>
  /\ UNCHANGED <<port, stopjob, write>>

\* systemctl start of the router and all that is to be restored, only after a
\* stop that was seen to succeed.  Its return code is not looked at.
StartUnits ==
  /\ gpc = "start" /\ LeaveGuard
  /\ \/ stopped /\ router' = TRUE /\ active' = active \cup restore /\ slips' = Refusals
     \/ stopped /\ slips' = Refusals \cup {"unstarted"} /\ UNCHANGED <<router, active>>
     \/ ~stopped /\ slips' = Refusals /\ UNCHANGED <<router, active>>
  /\ UNCHANGED <<port, stopjob, write>>

\* The process is killed inside the window: the finally block never runs.
GuardDies ==
  /\ gpc # "closed"
  /\ LeaveGuard /\ write' = "none"
  /\ UNCHANGED <<units, slips>>

-----------------------------------------------------------------------------
(* systemd and whoever else uses it (external).                            *)

\* The router exits by itself; systemd starts it again after a while, and
\* after another it listens.
RouterExits ==
  /\ router /\ ResetLine /\ port' = FALSE
  /\ UNCHANGED <<router, active, stopjob, gpc, listed, restore, stopped, taken, slips>>

RouterListens ==
  /\ router /\ ~port /\ port' = TRUE
  /\ UNCHANGED <<router, active, stopjob, gpc, listed, restore, stopped, write, taken, slips>>

StopJobEnds ==
  /\ stopjob /\ UnitsDown
  /\ UNCHANGED <<gpc, listed, restore, stopped, taken, slips>>

\* Someone starts a service: the router it requires comes up too.  A start
\* cannot replace an irreversible stop job.
UnitStarts(d) ==
  /\ ~stopjob /\ d \notin active
  /\ active' = active \cup {d} /\ router' = TRUE
  /\ slips' = IF gpc \in {"write", "start"} THEN slips \cup {"pulled"} ELSE slips
  /\ UNCHANGED <<port, stopjob, gpc, listed, restore, stopped, write, taken>>

UnitLeaves(d) ==
  /\ d \in active
  /\ active' = active \ {d}
  /\ UNCHANGED <<router, port, stopjob, gpc, listed, restore, stopped, write, taken, slips>>

GuardStep == ListDependents \/ CheckActive \/ StopRouter \/ BeginWrite \/ EndWrite \/ StartUnits

SystemdStep ==
  RouterExits \/ RouterListens \/ StopJobEnds \/ (\E d \in Dependents : UnitStarts(d) \/ UnitLeaves(d))

GuardNext == EnterGuard \/ GuardStep \/ GuardDies \/ SystemdStep

GuardSpec == GuardInit /\ [][GuardNext]_guardvars

-----------------------------------------------------------------------------
\* flasher.py:246-255: the point of the guard is that the reset line stays
\* still while the target is erased.  Only a stop that systemd refused or did
\* not finish in time, or somebody starting the router again inside the
\* window, lets the line move under a write.
NoResetMidWrite ==
  (gpc = "write" /\ write = "spoilt") => slips \cap {"refused", "hung", "pulled"} # {}

\* flasher.py:325-329: what the stop took down comes back with the router.
\* With no failed systemctl call and nobody else starting units after they
\* were looked at, all that was up when the router was stopped is up again.
BoardAsBefore ==
  [][(StartUnits /\ slips = {} /\ slips' = {}) => router' /\ taken \subseteq active']_guardvars
=============================================================================
