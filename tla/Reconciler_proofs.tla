-------------------------- MODULE Reconciler_proofs --------------------------
(***************************************************************************)
(* What boot recovery guarantees for every set of versions, every image    *)
(* on disk and every combination of faults.                                *)
(***************************************************************************)
EXTENDS Reconciler, TLAPS

\* Three candidates, in the order of reconciler.py, each the name of an image.
LEMMA CandidateNames ==
  /\ Len(CANDIDATES) = 3
  /\ CANDIDATES[1] = "current" /\ CANDIDATES[2] = "previous" /\ CANDIDATES[3] = "golden"
  /\ \A i \in 1..3 : CANDIDATES[i] \in Names
BY DEF CANDIDATES, Names

\* A write, complete or interrupted, leaves the target in a state of its type.
LEMMA WritesAreTyped ==
  ASSUME NEW m \in Mcus, NEW img \in Images
  PROVE  /\ Written(img) \in Mcus
         /\ \A x \in Interrupted(m, img) : x \in Mcus
         /\ \A x \in FailedWrite(m, img) : x \in Mcus
<1>1. Written(img) \in Mcus
  BY DEF Written, Mcus
<1>2. Partial(img.ver) \in Images
  BY DEF Partial, Images
<1>3. \A x \in Preamble(m) : x \in Mcus
  BY DEF Mcus, Preamble, Running, Halted
<1>4. \A img2 \in Images \cup {Nothing} : [flash |-> img2, halted |-> TRUE] \in Mcus
  BY DEF Mcus
<1>5. ASSUME NEW x \in Interrupted(m, img) PROVE x \in Mcus
  <2>1. /\ [flash |-> Nothing, halted |-> TRUE] \in Mcus
        /\ [flash |-> Partial(img.ver), halted |-> TRUE] \in Mcus
        /\ [flash |-> img, halted |-> TRUE] \in Mcus
    BY <1>2, <1>4
  <2>2. QED
    BY <1>1, <1>3, <2>1 DEF Interrupted
<1>6. QED
  BY <1>1, <1>5 DEF FailedWrite

\* The health check names only what is running, and names nothing when nothing
\* is: it can miss live firmware, never invent it.
LEMMA HealthIsHonest ==
  ASSUME NEW m \in Mcus, NEW reported \in WaitAlive(m)
  PROVE  /\ reported # Nothing => Alive(m) /\ reported = m.flash.ver
         /\ reported \in Firmware \cup {Nothing}
  BY DeviceAssumption, NothingIsNoImage DEF WaitAlive, Unheard, Alive, Mcus, Images

\* What a finished recovery reports is a ReconcileResult.
LEMMA FinishIsTyped ==
  ASSUME ReconcilerTypeOK, NEW healthy \in BOOLEAN,
         NEW action \in {"none", "reflashed", "exhausted"}, NEW image \in Names \cup {Nothing},
         Finish(healthy, action, image), trouble' \in SUBSET {"flash", "health", "read"}
  PROVE  ReconcilerTypeOK'
<1>1. rresult' \in Results
  BY DEF Finish, Results
<1>2. QED
  BY <1>1 DEF Finish, ReconcilerTypeOK

LEMMA NextCandidateIsTyped ==
  ASSUME ReconcilerTypeOK, rcand \in 1..3, NextCandidate,
         trouble' \in SUBSET {"flash", "health", "read"}
  PROVE  ReconcilerTypeOK'
BY CandidateNames DEF NextCandidate, ReconcilerTypeOK

LEMMA TroubleIsTyped ==
  ASSUME ReconcilerTypeOK, NEW reported,
         \/ Missed(reported)
         \/ trouble' = trouble \cup {"flash"}
         \/ trouble' = trouble \cup {"read"}
         \/ UNCHANGED trouble
  PROVE  trouble' \in SUBSET {"flash", "health", "read"}
BY DEF Missed, ReconcilerTypeOK

\* A step of the recovery keeps the device's and its own variables typed.
LEMMA ReconcileStepIsTyped ==
  ASSUME DeviceTypeOK, ReconcilerTypeOK, ReconcileNext
  PROVE  DeviceTypeOK' /\ ReconcilerTypeOK'
<1>1. CASE InitialCheck
  <2> DeviceTypeOK'
    BY <1>1 DEF InitialCheck, DeviceTypeOK
  <2>1. PICK reported \in WaitAlive(mcu) :
          /\ Missed(reported)
          /\ \/ Finish(TRUE, "none", Nothing)
             \/ rpc' = "try" /\ UNCHANGED <<rcand, rresult>>
    BY <1>1 DEF InitialCheck
  <2>2. trouble' \in SUBSET {"flash", "health", "read"}
    BY <2>1, TroubleIsTyped
  <2>3. CASE Finish(TRUE, "none", Nothing)
    BY <2>2, <2>3, FinishIsTyped
  <2>4. CASE rpc' = "try" /\ UNCHANGED <<rcand, rresult>>
    BY <2>2, <2>4 DEF ReconcilerTypeOK
  <2>5. QED
    BY <2>1, <2>3, <2>4
<1>2. CASE SkipCandidate
  <2>1. trouble' \in SUBSET {"flash", "health", "read"} /\ rcand \in 1..3 /\ NextCandidate
    BY <1>2, TroubleIsTyped, CandidateNames DEF SkipCandidate, ReconcilerTypeOK
  <2>2. QED
    BY <1>2, <2>1, NextCandidateIsTyped DEF SkipCandidate, DeviceTypeOK
<1>3. CASE FlashCandidate
  <2>1. rcand \in 1..3
    BY <1>3, CandidateNames DEF FlashCandidate, ReconcilerTypeOK
  <2>2. images[CANDIDATES[rcand]] \in Images
    BY <1>3, <2>1, CandidateNames DEF FlashCandidate, Loadable, DeviceTypeOK
  <2>3. DeviceTypeOK'
    BY <1>3, <2>2, WritesAreTyped DEF FlashCandidate, DeviceTypeOK
  <2>4. trouble' \in SUBSET {"flash", "health", "read"}
    BY <1>3, TroubleIsTyped DEF FlashCandidate
  <2>5. CASE NextCandidate
    BY <2>1, <2>3, <2>4, <2>5, NextCandidateIsTyped
  <2>6. CASE rpc' = "check" /\ UNCHANGED <<rcand, rresult, trouble>>
    BY <2>1, <2>3, <2>6, CandidateNames DEF ReconcilerTypeOK
  <2>7. QED
    BY <1>3, <2>5, <2>6 DEF FlashCandidate
<1>4. CASE CheckCandidate
  <2> DeviceTypeOK'
    BY <1>4 DEF CheckCandidate, DeviceTypeOK
  <2>0. rcand \in 1..3 /\ CANDIDATES[rcand] \in Names
    BY <1>4, CandidateNames DEF CheckCandidate, ReconcilerTypeOK
  <2>1. PICK reported \in WaitAlive(mcu) :
          /\ Missed(reported)
          /\ Finish(TRUE, "reflashed", CANDIDATES[rcand]) \/ NextCandidate
    BY <1>4 DEF CheckCandidate
  <2>2. trouble' \in SUBSET {"flash", "health", "read"}
    BY <2>1, TroubleIsTyped
  <2>3. CASE Finish(TRUE, "reflashed", CANDIDATES[rcand])
    BY <2>0, <2>2, <2>3, FinishIsTyped
  <2>4. CASE NextCandidate
    BY <2>0, <2>2, <2>4, NextCandidateIsTyped
  <2>5. QED
    BY <2>1, <2>3, <2>4
<1>5. CASE Exhausted
  BY <1>5, FinishIsTyped, TroubleIsTyped DEF Exhausted, DeviceTypeOK
<1>6. QED
  BY <1>1, <1>2, <1>3, <1>4, <1>5 DEF ReconcileNext

\* Recovery keeps its variables in their types.
THEOREM ReconcileTyping == ReconcileSpec => []ReconcileTypeOK
<1>1. ReconcileInit => ReconcileTypeOK
  BY CandidateNames DEF ReconcileInit, Started, ReconcileTypeOK, ReconcilerTypeOK
<1>2. ReconcileTypeOK /\ [ReconcileNext]_ReconcileVars => ReconcileTypeOK'
  BY ReconcileStepIsTyped DEF ReconcileTypeOK, ReconcileVars, DeviceTypeOK, ReconcilerTypeOK
<1>3. QED
  BY <1>1, <1>2, PTL DEF ReconcileSpec

-----------------------------------------------------------------------------
(***************************************************************************)
(* The inductive invariant.  The claims about a finished recovery need, in *)
(* a running one: the candidate under check is the one on the target; with *)
(* nothing but missed health lines so far and a sound golden image, the    *)
(* target lives once golden has been tried; with nothing at all gone wrong *)
(* every candidate passed over was unusable; and a target about to be      *)
(* written over was silent.                                                *)
(***************************************************************************)
AtFirst == rpc = "initial" => rcand = 1

OnTrial ==
  rpc = "check" =>
    Loadable(images[CANDIDATES[rcand]]) /\ mcu = Written(images[CANDIDATES[rcand]])

GoldenWorked ==
  (GoldenIsSound /\ trouble \subseteq {"health"} /\ (rpc = "done" \/ (rpc = "try" /\ rcand = 4)))
    => Alive(mcu)

PassedOver ==
  (trouble = {} /\ rpc \in {"try", "check"}) =>
    \A j \in 1..3 : j < rcand => ~Usable(CANDIDATES[j])

Silent == (rpc = "try" /\ trouble \subseteq {"read"}) => ~Alive(mcu)

RecoveryInv ==
  /\ ReconcileTypeOK
  /\ AtFirst /\ OnTrial /\ GoldenWorked /\ PassedOver /\ Silent
  /\ HealthyIsTrue /\ NamesTheImage /\ RestoresNewest

\* A complete write of a loadable image brings up exactly what can run.
LEMMA WrittenRuns ==
  ASSUME NEW img \in Images, Loadable(img)
  PROVE  Alive(Written(img)) <=> img.ver \in Live
BY NothingIsNoImage DEF Images, Loadable, Alive, Written

\* A health line that is missing without the miss being noted means silence.
LEMMA NotMissed ==
  ASSUME NEW reported, Missed(reported), reported = Nothing, "health" \notin trouble'
  PROVE  ~Alive(mcu)
BY DEF Missed

LEMMA TroubleGrows ==
  ASSUME NEW reported, Missed(reported)
  PROVE  trouble \subseteq trouble'
BY DEF Missed

\* The usable images do not depend on the target.
LEMMA SameImages ==
  ASSUME UNCHANGED images
  PROVE  /\ GoldenIsSound' = GoldenIsSound
         /\ \A n \in Names : Usable(n)' = Usable(n)
BY DEF GoldenIsSound, Usable, Loadable

\* The first step: something is alive and stays, or the trials begin.
LEMMA InitialCheckKeeps ==
  ASSUME RecoveryInv, InitialCheck
  PROVE  RecoveryInv'
<1> USE DEF RecoveryInv
<1>0. ReconcileTypeOK'
  BY ReconcileStepIsTyped DEF ReconcileNext, ReconcileTypeOK
<1>1. rcand = 1 /\ UNCHANGED <<mcu, images>> /\ mcu \in Mcus
  BY DEF InitialCheck, AtFirst, ReconcileTypeOK, DeviceTypeOK
<1>2. PICK reported \in WaitAlive(mcu) :
        /\ Missed(reported)
        /\ \/ reported # Nothing /\ Finish(TRUE, "none", Nothing)
           \/ reported = Nothing /\ rpc' = "try" /\ UNCHANGED <<rcand, rresult>>
  BY DEF InitialCheck
<1>3. CASE reported # Nothing /\ Finish(TRUE, "none", Nothing)
  <2>1. Alive(mcu) /\ Alive(mcu')
    BY <1>1, <1>2, <1>3, HealthIsHonest
  <2>2. rpc' = "done" /\ rresult'.healthy = TRUE /\ rresult'.action = "none"
    BY <1>3 DEF Finish
  <2>3. QED
    BY <1>0, <2>1, <2>2 DEF AtFirst, OnTrial, GoldenWorked, PassedOver, Silent,
       HealthyIsTrue, NamesTheImage, RestoresNewest
<1>4. CASE reported = Nothing /\ rpc' = "try" /\ UNCHANGED <<rcand, rresult>>
  <2>1. Silent'
    BY <1>1, <1>2, <1>4, NotMissed DEF Silent
  <2>2. PassedOver' /\ GoldenWorked'
    BY <1>1, <1>4 DEF PassedOver, GoldenWorked
  <2>3. QED
    BY <1>0, <1>4, <2>1, <2>2 DEF AtFirst, OnTrial, HealthyIsTrue, NamesTheImage, RestoresNewest
<1>5. QED
  BY <1>2, <1>3, <1>4

\* Going on to the next candidate, for whatever reason.
LEMMA NextCandidateKeeps ==
  ASSUME RecoveryInv, ReconcileTypeOK', NextCandidate, rcand \in 1..3, UNCHANGED images,
         rpc \in {"try", "check"}, trouble \subseteq trouble',
         trouble' = {} => ~Usable(CANDIDATES[rcand]),
         (GoldenIsSound /\ trouble' \subseteq {"health"} /\ rcand = 3) => Alive(mcu'),
         trouble' \subseteq {"read"} => ~Alive(mcu')
  PROVE  RecoveryInv'
<1>1. rpc' = "try" /\ rcand' = rcand + 1 /\ UNCHANGED rresult
  BY DEF NextCandidate
<1>2. PassedOver'
  <2> SUFFICES ASSUME trouble' = {}, NEW j \in 1..3, j < rcand + 1
               PROVE  ~Usable(CANDIDATES[j])'
    BY <1>1 DEF PassedOver
  <2>1. trouble = {}
    OBVIOUS
  <2>2. j = rcand \/ j < rcand
    OBVIOUS
  <2>3. ~Usable(CANDIDATES[j])
    BY <2>1, <2>2 DEF RecoveryInv, PassedOver
  <2>4. QED
    BY <2>3 DEF Usable, Loadable
<1>3. GoldenWorked'
  <2>1. rcand' = 4 => rcand = 3
    BY <1>1
  <2>2. QED
    BY <1>1, <2>1, SameImages DEF GoldenWorked
<1>4. Silent'
  BY <1>1 DEF Silent
<1>5. QED
  BY <1>1, <1>2, <1>3, <1>4 DEF RecoveryInv, AtFirst, OnTrial, HealthyIsTrue,
     NamesTheImage, RestoresNewest

LEMMA SkipCandidateKeeps ==
  ASSUME RecoveryInv, SkipCandidate
  PROVE  RecoveryInv'
<1>0. ReconcileTypeOK'
  BY ReconcileStepIsTyped DEF ReconcileNext, ReconcileTypeOK, RecoveryInv
<1>1. rcand \in 1..3 /\ rpc = "try" /\ NextCandidate /\ UNCHANGED <<mcu, images>>
      /\ trouble \subseteq trouble'
  BY CandidateNames DEF SkipCandidate, RecoveryInv, ReconcileTypeOK, ReconcilerTypeOK
<1>2. trouble' \subseteq {"health"} => ~Loadable(images[CANDIDATES[rcand]])
  BY DEF SkipCandidate
<1>3. trouble' = {} => ~Usable(CANDIDATES[rcand])
  BY <1>2 DEF Usable
<1>4. ASSUME GoldenIsSound, trouble' \subseteq {"health"}, rcand = 3 PROVE FALSE
  <2>1. Loadable(images["golden"])
    <3>1. Whole(Golden) \in Images
      BY DEF Whole, Images, Firmware
    <3>2. Whole(Golden) # Nothing /\ Whole(Golden).whole
      BY <3>1, NothingIsNoImage DEF Whole
    <3>3. QED
      BY <1>4, <3>2 DEF GoldenIsSound, Loadable
  <2>2. QED
    BY <1>2, <1>4, <2>1, CandidateNames
<1>5. trouble' \subseteq {"read"} => ~Alive(mcu')
  BY <1>1 DEF RecoveryInv, Silent
<1>6. QED
  BY <1>0, <1>1, <1>3, <1>4, <1>5, NextCandidateKeeps

LEMMA FlashCandidateKeeps ==
  ASSUME RecoveryInv, FlashCandidate
  PROVE  RecoveryInv'
<1> DEFINE img == images[CANDIDATES[rcand]]
<1>0. ReconcileTypeOK'
  BY ReconcileStepIsTyped DEF ReconcileNext, ReconcileTypeOK, RecoveryInv
<1>1. rcand \in 1..3 /\ rpc = "try" /\ UNCHANGED images /\ Loadable(img)
  BY CandidateNames DEF FlashCandidate, RecoveryInv, ReconcileTypeOK, ReconcilerTypeOK
<1>2. CASE mcu' = Written(img) /\ rpc' = "check" /\ UNCHANGED <<rcand, rresult, trouble>>
  <2>1. OnTrial'
    BY <1>1, <1>2 DEF OnTrial
  <2>2. PassedOver'
    BY <1>1, <1>2 DEF RecoveryInv, PassedOver, Usable, Loadable
  <2>3. QED
    BY <1>0, <1>2, <2>1, <2>2 DEF RecoveryInv, AtFirst, GoldenWorked, Silent,
       HealthyIsTrue, NamesTheImage, RestoresNewest
<1>3. CASE trouble' = trouble \cup {"flash"} /\ NextCandidate
  <2>1. "flash" \in trouble' /\ trouble \subseteq trouble'
    BY <1>3
  <2>2. QED
    BY <1>0, <1>1, <1>3, <2>1, NextCandidateKeeps
<1>4. QED
  BY <1>2, <1>3 DEF FlashCandidate

LEMMA CheckCandidateKeeps ==
  ASSUME RecoveryInv, CheckCandidate
  PROVE  RecoveryInv'
<1> DEFINE img == images[CANDIDATES[rcand]]
<1>0. ReconcileTypeOK'
  BY ReconcileStepIsTyped DEF ReconcileNext, ReconcileTypeOK, RecoveryInv
<1>1. /\ rcand \in 1..3 /\ rpc = "check" /\ UNCHANGED <<mcu, images>>
      /\ mcu \in Mcus /\ images \in [Names -> Images \cup {Nothing}]
      /\ CANDIDATES[rcand] \in Names
  BY CandidateNames DEF CheckCandidate, RecoveryInv, ReconcileTypeOK, ReconcilerTypeOK, DeviceTypeOK
<1>2. Loadable(img) /\ mcu = Written(img) /\ img \in Images
  BY <1>1 DEF RecoveryInv, OnTrial, Loadable
<1>3. Alive(mcu) <=> Usable(CANDIDATES[rcand])
  BY <1>2, WrittenRuns DEF Usable
<1>4. PICK reported \in WaitAlive(mcu) :
        /\ Missed(reported)
        /\ \/ reported # Nothing /\ Finish(TRUE, "reflashed", CANDIDATES[rcand])
           \/ reported = Nothing /\ NextCandidate
  BY DEF CheckCandidate
<1>5. trouble \subseteq trouble'
  BY <1>4, TroubleGrows
<1>6. CASE reported # Nothing /\ Finish(TRUE, "reflashed", CANDIDATES[rcand])
  <2>1. Alive(mcu) /\ Alive(mcu')
    BY <1>1, <1>6, HealthIsHonest
  <2>2. /\ rpc' = "done" /\ rresult'.healthy = TRUE
        /\ rresult'.action = "reflashed" /\ rresult'.image = CANDIDATES[rcand]
    BY <1>6 DEF Finish
  <2>3. RestoresNewest'
    <3> SUFFICES ASSUME trouble' = {}
                 PROVE  CANDIDATES[rcand] = IF Usable("current") THEN "current"
                                  ELSE IF Usable("previous") THEN "previous"
                                  ELSE IF Usable("golden") THEN "golden" ELSE Nothing
      BY <1>1, <2>2 DEF RestoresNewest, Usable, Loadable
    <3>1. \A j \in 1..3 : j < rcand => ~Usable(CANDIDATES[j])
      BY <1>1, <1>5 DEF RecoveryInv, PassedOver
    <3>2. Usable(CANDIDATES[rcand])
      BY <1>3, <2>1
    <3>3. CASE rcand = 1
      BY <3>2, <3>3, CandidateNames
    <3>4. CASE rcand = 2
      <4>1. ~Usable(CANDIDATES[1])
        BY <3>1, <3>4
      <4>2. QED
        BY <3>2, <3>4, <4>1, CandidateNames
    <3>5. CASE rcand = 3
      <4>1. ~Usable(CANDIDATES[1]) /\ ~Usable(CANDIDATES[2])
        BY <3>1, <3>5
      <4>2. QED
        BY <3>2, <3>5, <4>1, CandidateNames
    <3>6. QED
      BY <1>1, <3>3, <3>4, <3>5
  <2>4. NamesTheImage' /\ HealthyIsTrue'
    BY <1>1, <1>2, <2>1, <2>2 DEF NamesTheImage, HealthyIsTrue
  <2>5. QED
    BY <1>0, <2>1, <2>2, <2>3, <2>4 DEF RecoveryInv, AtFirst, OnTrial, GoldenWorked, PassedOver, Silent
<1>7. CASE reported = Nothing /\ NextCandidate
  <2>1. "health" \notin trouble' => ~Alive(mcu)
    BY <1>4, <1>7, NotMissed
  <2>2. (GoldenIsSound /\ rcand = 3) => Alive(mcu)
    BY <1>2, WrittenRuns, CandidateNames DEF GoldenIsSound, Whole
  <2>3. QED
    BY <1>0, <1>1, <1>3, <1>5, <1>7, <2>1, <2>2, NextCandidateKeeps
<1>8. QED
  BY <1>4, <1>6, <1>7

LEMMA ExhaustedKeeps ==
  ASSUME RecoveryInv, Exhausted
  PROVE  RecoveryInv'
<1>0. ReconcileTypeOK'
  BY ReconcileStepIsTyped DEF ReconcileNext, ReconcileTypeOK, RecoveryInv
<1>1. rcand = 4 /\ rpc = "try" /\ UNCHANGED <<mcu, images, trouble>>
  BY CandidateNames DEF Exhausted, RecoveryInv, ReconcileTypeOK, ReconcilerTypeOK
<1>2. /\ rpc' = "done" /\ rresult'.healthy = FALSE
      /\ rresult'.action = "exhausted" /\ rresult'.image = Nothing
  BY DEF Exhausted, Finish
<1>3. RestoresNewest'
  <2> SUFFICES ASSUME trouble = {}
               PROVE  ~Usable("current") /\ ~Usable("previous") /\ ~Usable("golden")
    BY <1>1, <1>2 DEF RestoresNewest, Usable, Loadable
  <2>1. \A j \in 1..3 : ~Usable(CANDIDATES[j])
    BY <1>1 DEF RecoveryInv, PassedOver
  <2>2. ~Usable(CANDIDATES[1]) /\ ~Usable(CANDIDATES[2]) /\ ~Usable(CANDIDATES[3])
    BY <2>1
  <2>3. QED
    BY <2>2, CandidateNames
<1>4. GoldenWorked'
  BY <1>1, SameImages DEF RecoveryInv, GoldenWorked, Alive
<1>5. QED
  BY <1>0, <1>2, <1>3, <1>4 DEF RecoveryInv, AtFirst, OnTrial, PassedOver, Silent,
     HealthyIsTrue, NamesTheImage

LEMMA RecoveryStep ==
  RecoveryInv /\ [ReconcileNext]_ReconcileVars => RecoveryInv'
<1> SUFFICES ASSUME RecoveryInv, [ReconcileNext]_ReconcileVars PROVE RecoveryInv'
  OBVIOUS
<1>1. CASE ReconcileNext
  BY <1>1, InitialCheckKeeps, SkipCandidateKeeps, FlashCandidateKeeps, CheckCandidateKeeps,
     ExhaustedKeeps DEF ReconcileNext
<1>2. CASE UNCHANGED ReconcileVars
  <2>1. ReconcileTypeOK'
    BY <1>2 DEF RecoveryInv, ReconcileVars, ReconcileTypeOK, DeviceTypeOK, ReconcilerTypeOK
  <2>2. PassedOver' /\ RestoresNewest'
    BY <1>2 DEF RecoveryInv, ReconcileVars, PassedOver, RestoresNewest, Usable, Loadable
  <2>3. QED
    BY <1>2, <2>1, <2>2 DEF RecoveryInv, ReconcileVars, AtFirst, OnTrial, GoldenWorked, Silent,
       GoldenIsSound, HealthyIsTrue, NamesTheImage, Loadable
<1>3. QED
  BY <1>1, <1>2

LEMMA RecoveryInvHolds == ReconcileSpec => []RecoveryInv
<1>1. ReconcileInit => RecoveryInv
  BY CandidateNames DEF ReconcileInit, Started, RecoveryInv, ReconcileTypeOK, ReconcilerTypeOK,
     AtFirst, OnTrial, GoldenWorked, PassedOver, Silent, HealthyIsTrue, NamesTheImage, RestoresNewest
<1>2. QED
  BY <1>1, RecoveryStep, PTL DEF ReconcileSpec

\* A sound golden image is enough: whatever the device was like, however the
\* other images are damaged and whatever the health check misses, a recovery
\* whose SWD writes and reads succeed leaves live firmware behind.
THEOREM RecoveryRevives == ReconcileSpec => []NeverLeftDead
<1>1. RecoveryInv => NeverLeftDead
  BY DEF RecoveryInv, GoldenWorked, NeverLeftDead
<1>2. QED
  BY <1>1, RecoveryInvHolds, PTL

\* A result reconcile() returns as healthy means live firmware on the target.
THEOREM RecoveryReportsTrue == ReconcileSpec => []HealthyIsTrue
<1>1. RecoveryInv => HealthyIsTrue
  BY DEF RecoveryInv
<1>2. QED
  BY <1>1, RecoveryInvHolds, PTL

\* The image a result names is the one on the target.
THEOREM RecoveryNamesTheImage == ReconcileSpec => []NamesTheImage
<1>1. RecoveryInv => NamesTheImage
  BY DEF RecoveryInv
<1>2. QED
  BY <1>1, RecoveryInvHolds, PTL

\* Without faults the image restored is the newest usable one.
THEOREM RecoveryRestoresNewest == ReconcileSpec => []RestoresNewest
<1>1. RecoveryInv => RestoresNewest
  BY DEF RecoveryInv
<1>2. QED
  BY <1>1, RecoveryInvHolds, PTL

\* Boot recovery never writes over live firmware it has been able to see.
THEOREM RecoverySpares == ReconcileSpec => SparesTheLiving
<1>1. RecoveryInv /\ [ReconcileNext]_ReconcileVars =>
        [(mcu' # mcu /\ trouble \subseteq {"read"}) => ~Alive(mcu)]_ReconcileVars
  <2> SUFFICES ASSUME RecoveryInv, ReconcileNext, mcu' # mcu, trouble \subseteq {"read"}
               PROVE  ~Alive(mcu)
    BY DEF ReconcileVars
  <2>1. rpc = "try"
    BY DEF ReconcileNext, InitialCheck, SkipCandidate, FlashCandidate, CheckCandidate, Exhausted
  <2>2. QED
    BY <2>1 DEF RecoveryInv, Silent
<1>2. QED
  BY <1>1, RecoveryInvHolds, PTL DEF ReconcileSpec, SparesTheLiving

-----------------------------------------------------------------------------
\* How many steps a recovery can still take, at most.
RecoveryRank ==
  CASE rpc = "initial" -> 8
    [] rpc = "try" -> 9 - 2 * rcand
    [] rpc = "check" -> 8 - 2 * rcand
    [] OTHER -> 0

\* The loop of reconcile() cannot go round: every step brings it nearer to its
\* end, whatever fails, so that the unit behind it is waited for no longer
\* than eight steps.
THEOREM RecoveryGoesForward ==
  ReconcileSpec => [](RecoveryRank \in 0..8) /\ [][RecoveryRank' < RecoveryRank]_ReconcileVars
<1>1. ReconcileTypeOK => RecoveryRank \in 0..8
  <2> SUFFICES ASSUME ReconcileTypeOK PROVE RecoveryRank \in 0..8
    OBVIOUS
  <2>1. rcand \in 1..4 /\ (rpc = "check" => rcand \in 1..3)
    BY CandidateNames DEF ReconcileTypeOK, ReconcilerTypeOK
  <2>2. QED
    BY <2>1 DEF RecoveryRank
<1>2. RecoveryInv /\ [ReconcileNext]_ReconcileVars => [RecoveryRank' < RecoveryRank]_ReconcileVars
  <2> SUFFICES ASSUME RecoveryInv, ReconcileNext PROVE RecoveryRank' < RecoveryRank
    OBVIOUS
  <2>1. rcand \in 1..4 /\ (rpc = "check" => rcand \in 1..3) /\ Len(CANDIDATES) = 3 /\ AtFirst
    BY CandidateNames DEF RecoveryInv, ReconcileTypeOK, ReconcilerTypeOK
  <2>2. CASE InitialCheck
    <3>1. rpc = "initial" /\ rcand = 1 /\ (rpc' = "done" \/ (rpc' = "try" /\ rcand' = 1))
      BY <2>1, <2>2 DEF InitialCheck, Finish, AtFirst
    <3>2. QED
      BY <3>1 DEF RecoveryRank
  <2>3. CASE SkipCandidate \/ FlashCandidate
    <3>1. /\ rpc = "try" /\ rcand \in 1..3
          /\ (rpc' = "try" /\ rcand' = rcand + 1) \/ (rpc' = "check" /\ rcand' = rcand)
      BY <2>1, <2>3 DEF SkipCandidate, FlashCandidate, NextCandidate
    <3>2. QED
      BY <3>1 DEF RecoveryRank
  <2>4. CASE CheckCandidate
    <3>1. /\ rpc = "check" /\ rcand \in 1..3
          /\ rpc' = "done" \/ (rpc' = "try" /\ rcand' = rcand + 1)
      BY <2>1, <2>4 DEF CheckCandidate, NextCandidate, Finish
    <3>2. QED
      BY <3>1 DEF RecoveryRank
  <2>5. CASE Exhausted
    <3>1. rpc = "try" /\ rcand = 4 /\ rpc' = "done"
      BY <2>1, <2>5 DEF Exhausted, Finish
    <3>2. QED
      BY <3>1 DEF RecoveryRank
  <2>6. QED
    BY <2>2, <2>3, <2>4, <2>5 DEF ReconcileNext
<1>3. QED
  BY <1>1, <1>2, ReconcileTyping, RecoveryInvHolds, PTL DEF ReconcileSpec
=============================================================================
