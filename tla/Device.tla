------------------------------- MODULE Device -------------------------------
(***************************************************************************)
(* The microcontroller, the SWD write path to it (flasher.py), the health  *)
(* line it prints (health/version_report.py, seen from its callers) and    *)
(* the recovery images kept beside state.json.  Both the update agent and  *)
(* the boot reconciler act on these.                                       *)
(*                                                                         *)
(* A firmware image is abstracted to the version its health line would     *)
(* report and whether its bytes are a complete sketch.                     *)
(***************************************************************************)
EXTENDS StateStore

CONSTANTS
  Golden,       \* the factory image's version
  Foreign,      \* what someone uploads with the IDE behind the agent's back
  Live,         \* the firmwares that start and keep printing health lines
  HeaderLength, \* the length field of a firmware's sketch header
  Faults        \* which things may go wrong in this instance

Firmware == Versions \cup {Golden, Foreign}

ASSUME DeviceAssumption ==
  /\ Golden \notin Versions /\ Foreign \notin Versions /\ Golden # Foreign
  /\ Nothing \notin Firmware
  /\ Live \subseteq Firmware
  /\ HeaderLength \in [Firmware -> Nat]

Images == [ver: Firmware, whole: BOOLEAN]

ASSUME NothingIsNoImage == Nothing \notin Images

Whole(v) == [ver |-> v, whole |-> TRUE]
Partial(v) == [ver |-> v, whole |-> FALSE]

CANDIDATES_mut == <<"current", "previous">>

\* The candidates of a recovery, in the order they are tried.
CANDIDATES == <<"current", "previous", "golden">>
Names == {"current", "previous", "golden"}

VARIABLES
  mcu,      \* what the sketch partition holds and whether the core is halted
  images    \* current.bin, previous.bin and golden.bin

Mcus == [flash: Images \cup {Nothing}, halted: BOOLEAN]

DeviceTypeOK ==
  /\ mcu \in Mcus
  /\ images \in [Names -> Images \cup {Nothing}]

-----------------------------------------------------------------------------
\* The firmware runs: erased flash, a torn image, a halted core and a sketch
\* that never reports are all silent.
Alive(m) == m.flash # Nothing /\ m.flash.whole /\ ~m.halted /\ m.flash.ver \in Live

\* Collecting the sketch's output may fail, or catch too little of it: with a
\* health fault nothing usable arrives.
Unheard == IF "health" \in Faults THEN {Nothing} ELSE {}

\* The answers wait_alive may give.  It never names a version that is not
\* running; a live firmware may be missed, and an exception reads as None.
WaitAlive(m) == (IF Alive(m) THEN {m.flash.ver} ELSE {Nothing}) \cup Unheard

\* load_artifact of a recovery image: it must be there, complete and readable.
Loadable(f) == f # Nothing /\ f.whole

\* write_sketch returning normally: written, verified and reset into.
Written(img) == [flash |-> img, halted |-> FALSE]

\* What every script begins and ends with: a reset starts the resident sketch,
\* a halt stops it.  The preamble may fail at any of its three commands.
Running(m) == [m EXCEPT !.halted = FALSE]
Halted(m) == [m EXCEPT !.halted = TRUE]
Preamble(m) == {m, Running(m), Halted(m)}

\* Where a write that does not reach its end may leave the target: stopped in
\* the preamble, erased, part written, written but not reset, or finished
\* with an answer nobody waited for.
Interrupted(m, img) ==
  Preamble(m) \cup
  {[flash |-> Nothing, halted |-> TRUE], [flash |-> Partial(img.ver), halted |-> TRUE],
   [flash |-> img, halted |-> TRUE], Written(img)}

\* The target after write_sketch raised.
FailedWrite(m, img) == IF "flash" \in Faults THEN Interrupted(m, img) ELSE {}

\* The target after read_resident_header: reset and running again, or with a
\* flash fault left wherever the read script stopped.
HeaderRead(m) == Running(m)
FailedRead(m) == IF "flash" \in Faults THEN Preamble(m) ELSE {}

\* detect_drift compares only the length (and the magic every sketch shares)
\* of current.bin with the resident header; whatever cannot be read counts
\* as drift.  A torn image still has its header.
Drift(m, believed) ==
  \/ believed = Nothing
  \/ m.flash = Nothing
  \/ HeaderLength[m.flash.ver] # HeaderLength[believed.ver]
=============================================================================
