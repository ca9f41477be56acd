-------------------------- MODULE JobsRunner_proofs --------------------------
(***************************************************************************)
(* The jobs runner for any number of jobs, refusals and deaths: outcomes   *)
(* belong to their own job, no process runs a job twice, and the loop does *)
(* not wait for an answer that is not coming.                              *)
(***************************************************************************)
EXTENDS JobsRunner, WellFoundedInduction, TLAPS

\* The messages, told apart by their type.
UpdateMsg == [type: {"update"}, job: Jobs, status: Final \cup {"IN_PROGRESS"}]
AcceptedMsg == [type: {"accepted"}, job: Jobs]

LEMMA RequestsDiffer ==
  /\ Start \notin UpdateMsg
  /\ \A j \in Jobs, s \in Final \cup {"IN_PROGRESS"} :
       Update(j, s) \in UpdateMsg /\ Update(j, s).job = j /\ Update(j, s).status = s
<1>1. Start.type = "start"
  BY DEF Start
<1>2. \A m \in UpdateMsg : m.type = "update"
  BY DEF UpdateMsg
<1>3. QED
  BY <1>1, <1>2 DEF Update, UpdateMsg

LEMMA AnswersDiffer ==
  /\ \A j \in Jobs : Accepted(j) \in AcceptedMsg /\ Accepted(j) # Changed
  /\ \A j, k \in Jobs : Accepted(j) = Accepted(k) => j = k
<1>1. Changed.type = "changed"
  BY DEF Changed
<1>2. \A j \in Jobs : Accepted(j).type = "accepted" /\ Accepted(j).job = j
  BY DEF Accepted
<1>3. QED
  BY <1>1, <1>2 DEF Accepted, AcceptedMsg

\* A request that is not a claim is an update.
LEMMA OtherIsUpdate ==
  ASSUME JobsTypeOK, NEW m \in requests, m # Start
  PROVE  m \in UpdateMsg /\ m.job \in Jobs /\ m.status \in Final \cup {"IN_PROGRESS"}
  BY DEF JobsTypeOK, UpdateMsg

-----------------------------------------------------------------------------
(* Types.                                                                  *)

LEMMA JobsInitTyped == JobsInit => JobsTypeOK
<1> SUFFICES ASSUME JobsInit PROVE JobsTypeOK
  OBVIOUS
<1>1. /\ exec \in [Jobs -> Execution] /\ earned \in [Jobs -> SUBSET Final]
      /\ requests \subseteq {} /\ answers \subseteq {}
  BY DEF JobsInit, Execution
<1>2. pending \in Seq(Jobs) /\ offered \in SUBSET Jobs /\ ran \in SUBSET Jobs
  BY DEF JobsInit
<1>3. job \in 0..NumJobs /\ crashes \in 0..MaxCrashes
  BY JobsAssumption DEF JobsInit
<1>4. QED
  BY <1>1, <1>2, <1>3 DEF JobsInit, JobsTypeOK, Phases

\* The next execution is one of the jobs: numbers have a least one in every
\* set that is not empty.
LEMMA LeastNatural ==
  ASSUME NEW S \in SUBSET Nat, S # {}
  PROVE  \E n \in S : \A k \in S : n <= k
<1>1. IsWellFoundedOn(OpToRel(<, Nat), Nat)
  BY NatLessThanWellFounded, Zenon
<1>2. \E n \in S : \A k \in S : ~ (<<k, n>> \in OpToRel(<, Nat))
  BY <1>1, WFMin, Zenon
<1>3. \A n, k \in Nat : k < n => <<k, n>> \in OpToRel(<, Nat)
  BY DEF OpToRel
<1>4. \E n \in S : \A k \in S : ~ (k < n)
  BY <1>2, <1>3, Zenon
<1>5. QED
  BY <1>4

LEMMA UpcomingIsAJob ==
  ASSUME NEW e, Upcoming(e) # 0
  PROVE  Upcoming(e) \in Jobs /\ e[Upcoming(e)] \in {"QUEUED", "IN_PROGRESS"}
<1>1. ASSUME NEW s, In(e, s) # {} PROVE First(In(e, s)) \in In(e, s)
  <2>1. In(e, s) \subseteq Nat
    BY JobsAssumption DEF In, Jobs
  <2>2. \E n \in In(e, s) : \A k \in In(e, s) : n <= k
    BY <1>1, <2>1, LeastNatural
  <2>3. QED
    BY <2>2 DEF First
<1>2. CASE In(e, "IN_PROGRESS") # {}
  BY <1>1, <1>2 DEF Upcoming, In
<1>3. CASE In(e, "IN_PROGRESS") = {}
  BY <1>1, <1>3 DEF Upcoming, In
<1>4. QED
  BY <1>2, <1>3

\* A job that is claimed stays the next one.
LEMMA ClaimKeepsUpcoming ==
  ASSUME NEW e \in [Jobs -> Execution], Upcoming(e) # 0
  PROVE  Upcoming([e EXCEPT ![Upcoming(e)] = "IN_PROGRESS"]) = Upcoming(e)
<1> DEFINE u == Upcoming(e)
<1> DEFINE f == [e EXCEPT ![u] = "IN_PROGRESS"]
<1>1. u \in Jobs /\ e[u] \in {"QUEUED", "IN_PROGRESS"}
  BY UpcomingIsAJob
<1>2. CASE In(e, "IN_PROGRESS") # {}
  <2>1. e[u] = "IN_PROGRESS"
    <3>1. \E n \in In(e, "IN_PROGRESS") : \A k \in In(e, "IN_PROGRESS") : n <= k
      <4>1. In(e, "IN_PROGRESS") \subseteq Nat
        BY JobsAssumption DEF In, Jobs
      <4>2. QED
        BY <1>2, <4>1, LeastNatural
    <3>2. QED
      BY <1>2, <3>1 DEF Upcoming, First, In
  <2>2. f = e
    BY <1>1, <2>1
  <2>3. QED
    BY <2>2
<1>3. CASE In(e, "IN_PROGRESS") = {}
  <2>1. In(f, "IN_PROGRESS") = {u}
    BY <1>1, <1>3 DEF In
  <2>2. u \in Nat
    BY <1>1, JobsAssumption DEF Jobs
  <2>3. First({u}) = u
    BY <2>2 DEF First
  <2>4. QED
    BY <2>1, <2>3 DEF Upcoming
<1>4. QED
  BY <1>2, <1>3

-----------------------------------------------------------------------------
(* Types are kept, group by group.                                         *)

LEMMA BecomesTyped ==
  ASSUME JobsTypeOK, NEW j \in Jobs, NEW s \in Execution, Becomes(j, s)
  PROVE  /\ exec' = [exec EXCEPT ![j] = s] /\ exec' \in [Jobs -> Execution]
         /\ answers \subseteq answers' /\ answers' \subseteq answers \cup {Changed}
         /\ answers' \subseteq {Changed} \cup AcceptedMsg
<1>1. exec \in [Jobs -> Execution] /\ answers \subseteq {Changed} \cup AcceptedMsg
  BY DEF JobsTypeOK, AcceptedMsg
<1>2. exec' = [exec EXCEPT ![j] = s]
  BY DEF Becomes
<1>3. answers \subseteq answers' /\ answers' \subseteq answers \cup {Changed}
  BY DEF Becomes
<1>4. QED
  BY <1>1, <1>2, <1>3

LEMMA ServiceTyped == JobsTypeOK /\ ServiceStep => JobsTypeOK'
<1> SUFFICES ASSUME JobsTypeOK, ServiceStep PROVE JobsTypeOK'
  OBVIOUS
<1>1. UNCHANGED <<sdk, loop, rest>> /\ stranded' \in BOOLEAN
  BY DEF ServiceStep, QueueJob, CancelJob, RetryJob, StartNextPending, UpdateExecution, Lose, JobsTypeOK
<1>2. exec' \in [Jobs -> Execution] /\ answers' \subseteq {Changed} \cup AcceptedMsg
  <2>0. exec \in [Jobs -> Execution] /\ answers \subseteq {Changed} \cup AcceptedMsg
    BY DEF JobsTypeOK, AcceptedMsg
  <2>1. ASSUME NEW j \in Jobs, QueueJob(j) \/ CancelJob(j) \/ RetryJob(j)
        PROVE  exec' \in [Jobs -> Execution] /\ answers' \subseteq {Changed} \cup AcceptedMsg
    <3>1. PICK s \in Execution : Becomes(j, s)
      BY <2>1 DEF QueueJob, CancelJob, RetryJob, Execution
    <3>2. QED
      BY <3>1, BecomesTyped
  <2>2. CASE StartNextPending
    <3>1. CASE Upcoming(exec) = 0
      BY <2>0, <2>2, <3>1 DEF StartNextPending
    <3>2. CASE Upcoming(exec) # 0
      <4>1. exec' = [exec EXCEPT ![Upcoming(exec)] = "IN_PROGRESS"]
            /\ answers' \subseteq answers \cup {Accepted(Upcoming(exec))}
        BY <2>2, <3>2 DEF StartNextPending
      <4>2. Upcoming(exec) \in Jobs /\ "IN_PROGRESS" \in Execution
        BY <3>2, UpcomingIsAJob DEF Execution
      <4>3. QED
        BY <2>0, <4>1, <4>2, AnswersDiffer
    <3>3. QED
      BY <3>1, <3>2
  <2>3. CASE UpdateExecution
    <3>1. PICK m \in requests :
            /\ m # Start
            /\ IF exec[m.job] = "IN_PROGRESS" THEN Becomes(m.job, m.status)
               ELSE UNCHANGED <<exec, answers>>
      BY <2>3 DEF UpdateExecution
    <3>2. m.job \in Jobs /\ m.status \in Execution
      BY <3>1, OtherIsUpdate DEF Execution
    <3>3. QED
      BY <2>0, <3>1, <3>2, BecomesTyped
  <2>4. CASE Lose
    BY <2>0, <2>4 DEF Lose
  <2>5. QED
    BY <2>1, <2>2, <2>3, <2>4 DEF ServiceStep
<1>3. requests' \subseteq requests
  BY DEF ServiceStep, QueueJob, CancelJob, RetryJob, StartNextPending, UpdateExecution, Lose
<1>4. QED
  BY <1>1, <1>2, <1>3 DEF JobsTypeOK, AcceptedMsg, sdk, loop, rest

LEMMA SdkTyped == JobsTypeOK /\ SdkStep => JobsTypeOK'
<1> SUFFICES ASSUME JobsTypeOK, SdkStep PROVE JobsTypeOK'
  OBVIOUS
<1>1. UNCHANGED <<exec, loop, rest, stranded>> /\ answers' \subseteq answers
      /\ requests' \subseteq requests \cup {Start}
  BY DEF SdkStep, OnStartNext, OnNextChanged, Again
<1>2. pending' \in Seq(Jobs) /\ offered' \in SUBSET Jobs
  <2>1. pending \in Seq(Jobs) /\ offered \in SUBSET Jobs
    BY DEF JobsTypeOK
  <2>2. UNCHANGED sdk \/ \E j \in Jobs : offered' = offered \cup {j} /\ pending' = Append(pending, j)
    BY DEF SdkStep, OnStartNext, OnNextChanged
  <2>3. QED
    BY <2>1, <2>2 DEF sdk
<1>3. QED
  BY <1>1, <1>2 DEF JobsTypeOK, loop, rest

\* The outcome of a cycle is one of the two the service accepts.
LEMMA OutcomeIsFinal == \A p, r : StatusFromCycle(p, r) \in Final
  BY DEF StatusFromCycle, Final

\* Every cycle reports and returns what the wrapper knows.
LEMMA CycleIsTyped ==
  ASSUME NEW c \in Cycles
  PROVE  /\ c.phase \in Phases /\ Deserves(c) \in Final
         /\ (IF c.reports = <<>> THEN "none" ELSE c.reports[Len(c.reports)]) \in Reports \cup {"none"}
  BY DEF Cycles, Phases, Reports, Deserves, Final

LEMMA LoopTyped == JobsTypeOK /\ (Connect \/ LoopStep \/ ProcessDies) => JobsTypeOK'
<1> SUFFICES ASSUME JobsTypeOK, Connect \/ LoopStep \/ ProcessDies PROVE JobsTypeOK'
  OBVIOUS
<1>0. 0 \in 0..NumJobs /\ Jobs \subseteq 0..NumJobs
  BY JobsAssumption DEF Jobs
<1>1. CASE Connect
  BY <1>1 DEF Connect, JobsTypeOK, sdk, rest
<1>2. CASE NextExecution
  <2>1. job' \in Jobs /\ pending' \in Seq(Jobs)
    BY <1>2 DEF NextExecution, JobsTypeOK
  <2>2. QED
    BY <1>0, <1>2, <2>1 DEF NextExecution, JobsTypeOK, rest
<1>3. CASE ReportProgress
  <2>1. Update(job, "IN_PROGRESS") \in UpdateMsg
    BY <1>3, RequestsDiffer DEF ReportProgress, JobsTypeOK
  <2>2. QED
    BY <1>3, <2>1 DEF ReportProgress, JobsTypeOK, UpdateMsg, rest, sdk
<1>4. CASE RefuseDocument
  <2>1. earned' \in [Jobs -> SUBSET Final]
    BY <1>4 DEF RefuseDocument, JobsTypeOK, Final
  <2>2. QED
    BY <1>4, <2>1 DEF RefuseDocument, JobsTypeOK, sdk, Phases
<1>5. CASE RunCycle
  <2>1. PICK c \in Cycles :
          /\ phase' = c.phase
          /\ last' = IF c.reports = <<>> THEN "none" ELSE c.reports[Len(c.reports)]
          /\ earned' = [earned EXCEPT ![job] = @ \cup {Deserves(c)}]
    BY <1>5 DEF RunCycle
  <2>2. phase' \in Phases /\ last' \in Reports \cup {"none"} /\ Deserves(c) \in Final
    BY <2>1, CycleIsTyped
  <2>3. earned' \in [Jobs -> SUBSET Final]
    BY <2>1, <2>2 DEF JobsTypeOK
  <2>4. ran' \in SUBSET Jobs /\ job' \in Jobs /\ job' \in 0..NumJobs
    BY <1>5 DEF RunCycle, JobsTypeOK
  <2>5. QED
    BY <1>5, <2>2, <2>3, <2>4 DEF RunCycle, JobsTypeOK, sdk
<1>6. CASE ReportResult
  <2>1. Update(job, StatusFromCycle(phase, last)) \in UpdateMsg
    BY <1>6, RequestsDiffer, OutcomeIsFinal DEF ReportResult, JobsTypeOK
  <2>2. QED
    BY <1>0, <1>6, <2>1 DEF ReportResult, JobsTypeOK, UpdateMsg, rest, sdk, Phases
<1>7. CASE ProcessDies
  <2>1. Unsent \subseteq UpdateMsg
    BY RequestsDiffer, OutcomeIsFinal DEF Unsent, JobsTypeOK
  <2>2. requests' \subseteq {Start} \cup UpdateMsg
    BY <1>7, <2>1 DEF ProcessDies, JobsTypeOK, UpdateMsg
  <2>3. crashes' \in 0..MaxCrashes
    BY <1>7, JobsAssumption DEF ProcessDies, JobsTypeOK
  <2>4. pending' \in Seq(Jobs) /\ offered' \in SUBSET Jobs /\ ran' \in SUBSET Jobs
    BY <1>7 DEF ProcessDies
  <2>5. QED
    BY <1>0, <1>7, <2>2, <2>3, <2>4 DEF ProcessDies, JobsTypeOK, UpdateMsg, Phases
<1>8. QED
  BY <1>1, <1>2, <1>3, <1>4, <1>5, <1>6, <1>7 DEF LoopStep

LEMMA NextTyped == JobsTypeOK /\ [JobsNext]_jobvars => JobsTypeOK'
<1>1. JobsTypeOK /\ UNCHANGED jobvars => JobsTypeOK'
  BY DEF JobsTypeOK, jobvars
<1>2. QED
  BY <1>1, ServiceTyped, SdkTyped, LoopTyped DEF JobsNext

\* The service's records, the queue and the loop keep their types
\* (jobs_runner.py: run_jobs_loop and AwsJobsClient).
THEOREM JobsTyping == JobsSpec => []JobsTypeOK
  BY JobsInitTyped, NextTyped, PTL DEF JobsSpec

-----------------------------------------------------------------------------
(***************************************************************************)
(* Outcomes.  What the service holds was once an update on its way, and    *)
(* that was what the loop computed: each is earned by its own job.         *)
(***************************************************************************)
UpdatesAreOwn ==
  \A m \in requests : (m # Start /\ m.status \in Final) => m.status \in earned[m.job]

ResultIsOwn == jpc = "report" => StatusFromCycle(phase, last) \in earned[job]

OwnInv == JobsTypeOK /\ OutcomeIsOwn /\ UpdatesAreOwn /\ ResultIsOwn

\* _status_from_cycle looks at the last report and the phase only, and agrees
\* with the whole cycle for everything run_once does.
LEMMA StatusIsDeserved ==
  ASSUME NEW c \in Cycles
  PROVE  StatusFromCycle(c.phase, IF c.reports = <<>> THEN "none" ELSE c.reports[Len(c.reports)])
           = Deserves(c)
  BY DEF Cycles, StatusFromCycle, Deserves

LEMMA OwnInit == JobsInit => OwnInv
<1> SUFFICES ASSUME JobsInit PROVE OwnInv
  OBVIOUS
<1>1. OutcomeIsOwn /\ UpdatesAreOwn /\ ResultIsOwn
  BY DEF JobsInit, OutcomeIsOwn, UpdatesAreOwn, ResultIsOwn, Final
<1>2. QED
  BY <1>1, JobsInitTyped DEF OwnInv

\* The service only moves an execution to an outcome that an update carries.
LEMMA ServiceKeepsOwn == OwnInv /\ ServiceStep => OwnInv'
<1> SUFFICES ASSUME OwnInv, ServiceStep PROVE OwnInv'
  OBVIOUS
<1>0. JobsTypeOK /\ exec \in [Jobs -> Execution]
  BY DEF OwnInv, JobsTypeOK
<1>1. UNCHANGED <<jpc, job, phase, last, earned>> /\ requests' \subseteq requests
  BY DEF ServiceStep, QueueJob, CancelJob, RetryJob, StartNextPending, UpdateExecution, Lose, loop, rest
<1>2. OutcomeIsOwn'
  <2>1. ASSUME NEW j \in Jobs, QueueJob(j) \/ CancelJob(j) \/ RetryJob(j) PROVE OutcomeIsOwn'
    <3>1. PICK s \in {"QUEUED", "CANCELED"} : exec' = [exec EXCEPT ![j] = s]
      BY <2>1 DEF QueueJob, CancelJob, RetryJob, Becomes
    <3>2. QED
      BY <1>0, <1>1, <3>1 DEF OwnInv, OutcomeIsOwn, Final
  <2>2. CASE StartNextPending
    <3>1. exec' = exec \/ exec' = [exec EXCEPT ![Upcoming(exec)] = "IN_PROGRESS"]
      BY <2>2 DEF StartNextPending
    <3>2. QED
      BY <1>0, <1>1, <3>1 DEF OwnInv, OutcomeIsOwn, Final
  <2>3. CASE UpdateExecution
    <3>1. PICK m \in requests :
            m # Start /\ (exec' = exec \/ exec' = [exec EXCEPT ![m.job] = m.status])
      BY <2>3 DEF UpdateExecution, Becomes
    <3>2. m.status \in Final => m.status \in earned[m.job]
      BY <3>1 DEF OwnInv, UpdatesAreOwn
    <3>3. QED
      BY <1>0, <1>1, <3>1, <3>2 DEF OwnInv, OutcomeIsOwn
  <2>4. CASE Lose
    BY <1>1, <2>4 DEF Lose, OwnInv, OutcomeIsOwn
  <2>5. QED
    BY <2>1, <2>2, <2>3, <2>4 DEF ServiceStep
<1>3. UpdatesAreOwn' /\ ResultIsOwn'
  BY <1>1 DEF OwnInv, UpdatesAreOwn, ResultIsOwn
<1>4. QED
  BY <1>0, <1>2, <1>3, ServiceTyped DEF OwnInv

\* Earning more takes nothing away.
LEMMA EarningKeepsOwn ==
  ASSUME OwnInv, JobsTypeOK', UNCHANGED <<exec, requests, job>>, job \in Jobs,
         NEW s \in Final, earned' = [earned EXCEPT ![job] = @ \cup {s}],
         StatusFromCycle(phase', last') = s
  PROVE  OwnInv'
<1>1. earned \in [Jobs -> SUBSET Final]
  BY DEF OwnInv, JobsTypeOK
<1>2. \A j \in Jobs : earned[j] \subseteq earned'[j]
  BY <1>1
<1>3. s \in earned'[job']
  BY <1>1
<1>4. OutcomeIsOwn'
  BY <1>2 DEF OwnInv, OutcomeIsOwn
<1>5. UpdatesAreOwn'
  BY <1>2, OtherIsUpdate DEF OwnInv, UpdatesAreOwn
<1>6. ResultIsOwn'
  BY <1>3 DEF ResultIsOwn
<1>7. QED
  BY <1>4, <1>5, <1>6 DEF OwnInv

LEMMA LoopKeepsOwn == OwnInv /\ (SdkStep \/ Connect \/ LoopStep \/ ProcessDies) => OwnInv'
<1> SUFFICES ASSUME OwnInv, SdkStep \/ Connect \/ LoopStep \/ ProcessDies PROVE OwnInv'
  OBVIOUS
<1>0. JobsTypeOK /\ JobsTypeOK'
  BY SdkTyped, LoopTyped DEF OwnInv
<1>1. CASE SdkStep \/ Connect \/ NextExecution
  <2>1. UNCHANGED <<exec, phase, last, earned>> /\ requests' \subseteq requests \cup {Start}
    BY <1>1 DEF SdkStep, OnStartNext, OnNextChanged, Connect, NextExecution, loop, rest
  <2>2. jpc' = "report" => jpc = "report" /\ job' = job
    BY <1>1 DEF SdkStep, OnStartNext, OnNextChanged, Connect, NextExecution, loop
  <2>3. QED
    BY <1>0, <2>1, <2>2 DEF OwnInv, OutcomeIsOwn, UpdatesAreOwn, ResultIsOwn
<1>2. CASE ReportProgress
  <2>1. /\ UNCHANGED <<exec, earned>> /\ jpc' = "handle"
        /\ requests' = requests \cup {Update(job, "IN_PROGRESS")}
    BY <1>2 DEF ReportProgress, rest
  <2>2. Update(job, "IN_PROGRESS").status \notin Final
    BY DEF Update, Final
  <2>3. QED
    BY <1>0, <2>1, <2>2 DEF OwnInv, OutcomeIsOwn, UpdatesAreOwn, ResultIsOwn
<1>3. CASE RefuseDocument
  <2>1. /\ UNCHANGED <<exec, requests, job>> /\ job \in Jobs
        /\ earned' = [earned EXCEPT ![job] = @ \cup {"FAILED"}]
    BY <1>0, <1>3 DEF RefuseDocument, JobsTypeOK
  <2>2. StatusFromCycle(phase', last') = "FAILED"
    BY <1>3 DEF RefuseDocument, StatusFromCycle
  <2>3. QED
    BY <1>0, <2>1, <2>2, EarningKeepsOwn DEF Final
<1>4. CASE RunCycle
  <2>1. PICK c \in Cycles :
          /\ phase' = c.phase
          /\ last' = IF c.reports = <<>> THEN "none" ELSE c.reports[Len(c.reports)]
          /\ earned' = [earned EXCEPT ![job] = @ \cup {Deserves(c)}]
    BY <1>4 DEF RunCycle
  <2>2. StatusFromCycle(phase', last') = Deserves(c) /\ Deserves(c) \in Final
    BY <2>1, StatusIsDeserved, CycleIsTyped
  <2>3. UNCHANGED <<exec, requests, job>> /\ job \in Jobs
    BY <1>0, <1>4 DEF RunCycle, JobsTypeOK
  <2>4. QED
    BY <1>0, <2>1, <2>2, <2>3, EarningKeepsOwn
<1>5. CASE ReportResult \/ ProcessDies
  <2>1. UNCHANGED <<exec, earned>> /\ jpc' # "report"
    BY <1>5 DEF ReportResult, ProcessDies, rest
  <2>2. \A m \in requests' : m \in requests \/ m = Start
          \/ (jpc = "report" /\ m = Update(job, StatusFromCycle(phase, last)))
          \/ m = Update(job, "IN_PROGRESS")
    BY <1>5 DEF ReportResult, ProcessDies, Unsent
  <2>3. ASSUME jpc = "report" PROVE
          LET m == Update(job, StatusFromCycle(phase, last)) IN m.status \in earned[m.job]
    BY <1>0, <2>3 DEF OwnInv, ResultIsOwn, Update
  <2>4. Update(job, "IN_PROGRESS").status \notin Final
    BY DEF Update, Final
  <2>5. QED
    BY <1>0, <2>1, <2>2, <2>3, <2>4 DEF OwnInv, OutcomeIsOwn, UpdatesAreOwn, ResultIsOwn
<1>6. QED
  BY <1>1, <1>2, <1>3, <1>4, <1>5 DEF LoopStep

\* jobs_runner.py:104-168: whatever the order of messages, deaths and claims,
\* an outcome the service holds was earned by a cycle of that very job.
THEOREM OutcomesAreOwn == JobsSpec => []OutcomeIsOwn
<1>1. OwnInv /\ [JobsNext]_jobvars => OwnInv'
  <2>1. OwnInv /\ UNCHANGED jobvars => OwnInv'
    BY DEF OwnInv, OutcomeIsOwn, UpdatesAreOwn, ResultIsOwn, JobsTypeOK, jobvars
  <2>2. QED
    BY <2>1, ServiceKeepsOwn, LoopKeepsOwn DEF JobsNext
<1>2. OwnInv => OutcomeIsOwn
  BY DEF OwnInv
<1>3. QED
  BY <1>1, <1>2, OwnInit, PTL DEF JobsSpec

-----------------------------------------------------------------------------
(***************************************************************************)
(* Running once.  A job enters the queue at most once in the life of a     *)
(* process: what waits, what is being worked on and what has run are       *)
(* different jobs, all of them offered before.                             *)
(***************************************************************************)
RanWasOffered == ran \subseteq offered

QueueIsFresh ==
  /\ \A i \in 1..Len(pending) : pending[i] \in offered \ ran
  /\ \A i, k \in 1..Len(pending) : i # k => pending[i] # pending[k]

WorkIsFresh ==
  jpc \in {"progress", "handle"} =>
    job \in offered \ ran /\ \A i \in 1..Len(pending) : pending[i] # job

OnceInv == JobsTypeOK /\ RanWasOffered /\ QueueIsFresh /\ WorkIsFresh

LEMMA OnceInit == JobsInit => OnceInv
<1> SUFFICES ASSUME JobsInit PROVE OnceInv
  OBVIOUS
<1>1. Len(pending) = 0 /\ ran = {} /\ jpc = "down"
  BY DEF JobsInit
<1>2. QED
  BY <1>1, JobsInitTyped DEF OnceInv, RanWasOffered, QueueIsFresh, WorkIsFresh

LEMMA OnceNext == OnceInv /\ [JobsNext]_jobvars => OnceInv'
<1> SUFFICES ASSUME OnceInv, [JobsNext]_jobvars PROVE OnceInv'
  OBVIOUS
<1>0. JobsTypeOK /\ JobsTypeOK' /\ pending \in Seq(Jobs) /\ Len(pending) \in Nat
  BY NextTyped DEF OnceInv, JobsTypeOK
<1>1. CASE ServiceStep \/ OnNextChanged \/ Connect \/ RefuseDocument \/ ReportResult \/ UNCHANGED jobvars
  <2>1. UNCHANGED <<pending, offered, ran>>
    BY <1>1 DEF ServiceStep, QueueJob, CancelJob, RetryJob, StartNextPending, UpdateExecution, Lose,
                OnNextChanged, Connect, RefuseDocument, ReportResult, sdk, rest, jobvars
  <2>2. jpc' \in {"progress", "handle"} => jpc' = jpc /\ job' = job
    BY <1>1 DEF ServiceStep, QueueJob, CancelJob, RetryJob, StartNextPending, UpdateExecution, Lose,
                OnNextChanged, Connect, RefuseDocument, ReportResult, loop, jobvars
  <2>3. QED
    BY <1>0, <2>1, <2>2 DEF OnceInv, RanWasOffered, QueueIsFresh, WorkIsFresh
<1>2. CASE OnStartNext
  <2>1. UNCHANGED <<jpc, job, ran>>
    BY <1>2 DEF OnStartNext, loop, rest
  <2>2. PICK j \in Jobs : IF j \in offered THEN UNCHANGED sdk
                          ELSE offered' = offered \cup {j} /\ pending' = Append(pending, j)
    BY <1>2 DEF OnStartNext
  <2>3. CASE j \in offered
    BY <1>0, <2>1, <2>2, <2>3 DEF OnceInv, RanWasOffered, QueueIsFresh, WorkIsFresh, sdk
  <2>4. CASE j \notin offered
    <3>1. /\ offered' = offered \cup {j} /\ Len(pending') = Len(pending) + 1
          /\ pending'[Len(pending) + 1] = j
          /\ \A i \in 1..Len(pending) : pending'[i] = pending[i]
      BY <1>0, <2>2, <2>4
    <3>2. \A i \in 1..Len(pending') : i \in 1..Len(pending) \/ i = Len(pending) + 1
      BY <1>0, <3>1
    <3>3. RanWasOffered' /\ j \notin ran
      BY <2>1, <2>4, <3>1 DEF OnceInv, RanWasOffered
    <3>4. QueueIsFresh'
      BY <2>1, <2>4, <3>1, <3>2, <3>3 DEF OnceInv, QueueIsFresh
    <3>5. WorkIsFresh'
      BY <2>1, <2>4, <3>1, <3>2 DEF OnceInv, WorkIsFresh
    <3>6. QED
      BY <1>0, <3>3, <3>4, <3>5 DEF OnceInv
  <2>5. QED
    BY <2>3, <2>4
<1>3. CASE NextExecution
  <2>1. /\ UNCHANGED <<offered, ran>> /\ job' = pending[1] /\ 1 \in 1..Len(pending)
        /\ Len(pending') = Len(pending) - 1
        /\ \A i \in 1..Len(pending') : pending'[i] = pending[i + 1]
    BY <1>0, <1>3 DEF NextExecution, rest
  <2>2. \A i \in 1..Len(pending') : i + 1 \in 1..Len(pending) /\ i + 1 # 1
    BY <1>0, <2>1
  <2>3. \A i, k \in 1..Len(pending') : i # k => i + 1 # k + 1
    OBVIOUS
  <2>4. QueueIsFresh'
    BY <2>1, <2>2, <2>3 DEF OnceInv, QueueIsFresh
  <2>5. WorkIsFresh'
    BY <2>1, <2>2 DEF OnceInv, QueueIsFresh, WorkIsFresh
  <2>6. QED
    BY <1>0, <2>1, <2>4, <2>5 DEF OnceInv, RanWasOffered
<1>4. CASE ReportProgress
  BY <1>0, <1>4 DEF ReportProgress, sdk, rest, OnceInv, RanWasOffered, QueueIsFresh, WorkIsFresh
<1>5. CASE RunCycle
  BY <1>0, <1>5 DEF RunCycle, sdk, OnceInv, RanWasOffered, QueueIsFresh, WorkIsFresh
<1>6. CASE ProcessDies
  <2>1. Len(pending') = 0 /\ ran' = {} /\ jpc' = "down"
    BY <1>6 DEF ProcessDies
  <2>2. QED
    BY <1>0, <2>1 DEF OnceInv, RanWasOffered, QueueIsFresh, WorkIsFresh
<1>7. QED
  BY <1>1, <1>2, <1>3, <1>4, <1>5, <1>6 DEF JobsNext, SdkStep, LoopStep

\* jobs_runner.py:275-282: a repeated answer, or a job handed out again on a
\* second claim, never makes one process run a job's cycle twice.
THEOREM NoJobRunsTwice == JobsSpec => RunsOnce
<1>1. OnceInv /\ [JobsNext]_jobvars =>
        [ran' \subseteq ran \cup {job} /\ (RunCycle => job \notin ran)]_jobvars
  <2> SUFFICES ASSUME OnceInv, JobsNext PROVE ran' \subseteq ran \cup {job} /\ (RunCycle => job \notin ran)
    BY DEF jobvars
  <2>1. ran' \subseteq ran \cup {job}
    BY DEF JobsNext, ServiceStep, QueueJob, CancelJob, RetryJob, StartNextPending, UpdateExecution, Lose,
           SdkStep, OnStartNext, OnNextChanged, Connect, LoopStep, NextExecution, ReportProgress,
           RefuseDocument, RunCycle, ReportResult, ProcessDies, rest
  <2>2. RunCycle => job \notin ran
    BY DEF OnceInv, WorkIsFresh, RunCycle
  <2>3. QED
    BY <2>1, <2>2
<1>2. QED
  BY <1>1, OnceInit, OnceNext, PTL DEF JobsSpec, RunsOnce

-----------------------------------------------------------------------------
(***************************************************************************)
(* Waiting.  Unless the process is stranded, a job it was offered is still *)
(* with it, or has ended, or its outcome is on the way; so a loop that has *)
(* nothing to do either has been offered all there is, or will be.  The    *)
(* next execution being queued, and not claimed, takes more: an outcome    *)
(* left over from an earlier process does not move it.                     *)
(***************************************************************************)
DownIsDeaf == jpc = "down" => answers = {} /\ offered = {} /\ pending = <<>>

OfferedIsClaimed ==
  ~stranded => \A j \in Jobs :
    (j \in offered \/ Accepted(j) \in answers) => exec[j] \notin {"none", "QUEUED"}

Busy(j) ==
  \/ \E i \in 1..Len(pending) : pending[i] = j
  \/ jpc \in {"progress", "handle", "report"} /\ job = j

OutcomeIn(R, j) == \E m \in R : m # Start /\ m.status \in Final /\ m.job = j

OfferedIsSettled ==
  ~stranded => \A j \in offered : Busy(j) \/ exec[j] \in Final \cup {"CANCELED"} \/ OutcomeIn(requests, j)

Coming == Start \in requests \/ Changed \in answers \/ \E j \in Jobs \ offered : Accepted(j) \in answers

WaitIsHeard ==
  (jpc = "wait" /\ pending = <<>> /\ ~stranded /\ Upcoming(exec) # 0) =>
    Coming \/ (exec[Upcoming(exec)] = "IN_PROGRESS" /\ OutcomeIn(requests, Upcoming(exec)))

WaitInv == JobsTypeOK /\ DownIsDeaf /\ OfferedIsClaimed /\ OfferedIsSettled /\ WaitIsHeard

LEMMA WaitInit == JobsInit => WaitInv
<1> SUFFICES ASSUME JobsInit PROVE WaitInv
  OBVIOUS
<1>1. jpc = "down" /\ answers = {} /\ offered = {} /\ pending = <<>>
  BY DEF JobsInit
<1>2. QED
  BY <1>1, JobsInitTyped DEF WaitInv, DownIsDeaf, OfferedIsClaimed, OfferedIsSettled, WaitIsHeard

\* A process that is down, or stranded, owes nothing.
LEMMA DownIsFine ==
  ASSUME JobsTypeOK', jpc' = "down", answers' = {}, offered' = {}, pending' = <<>>
  PROVE  WaitInv'
  BY DEF WaitInv, DownIsDeaf, OfferedIsClaimed, OfferedIsSettled, WaitIsHeard

LEMMA StrandedIsFine ==
  ASSUME JobsTypeOK', jpc' # "down", stranded'
  PROVE  WaitInv'
  BY DEF WaitInv, DownIsDeaf, OfferedIsClaimed, OfferedIsSettled, WaitIsHeard

\* An execution becomes s.  If another one is next afterwards, the client is
\* told; if the same, what was coming still is.
LEMMA BecomesKeepsWait ==
  ASSUME WaitInv, JobsTypeOK', NEW j \in Jobs, NEW s \in Execution, Becomes(j, s),
         UNCHANGED <<sdk, loop, stranded>>, jpc # "down",
         ~stranded => (s = "QUEUED" => exec[j] = "none"), s # "none",
         ~stranded => s \in {"QUEUED", "CANCELED", "IN_PROGRESS"} \cup Final,
         s = "IN_PROGRESS" => exec[j] = "IN_PROGRESS",
         Start \in requests => Start \in requests',
         \A k \in Jobs : k # j \/ s \notin Final => (OutcomeIn(requests, k) => OutcomeIn(requests', k))
  PROVE  WaitInv'
<1>0. exec \in [Jobs -> Execution] /\ exec' = [exec EXCEPT ![j] = s] /\ answers \subseteq answers'
      /\ answers' \subseteq answers \cup {Changed} /\ jpc' = jpc /\ job' = job /\ pending' = pending
      /\ offered' = offered /\ stranded' = stranded /\ offered \subseteq Jobs
  BY BecomesTyped DEF WaitInv, JobsTypeOK, sdk, loop
<1>1. CASE stranded
  BY <1>0, <1>1, StrandedIsFine
<1>2. CASE ~stranded
  <2>1. DownIsDeaf'
    BY <1>0 DEF DownIsDeaf
  <2>2. OfferedIsClaimed'
    <3>1. \A k \in Jobs : Accepted(k) \in answers' => Accepted(k) \in answers
      BY <1>0, AnswersDiffer
    <3>2. exec[j] \notin {"none", "QUEUED"} => exec'[j] \notin {"none", "QUEUED"}
      BY <1>0, <1>2
    <3>3. QED
      BY <1>0, <1>2, <3>1, <3>2 DEF WaitInv, OfferedIsClaimed
  <2>3. OfferedIsSettled'
    <3>1. ASSUME NEW k \in offered
          PROVE  Busy(k)' \/ exec'[k] \in Final \cup {"CANCELED"} \/ OutcomeIn(requests', k)
      <4>1. Busy(k) \/ exec[k] \in Final \cup {"CANCELED"} \/ OutcomeIn(requests, k)
        BY <1>2 DEF WaitInv, OfferedIsSettled
      <4>2. Busy(k) => Busy(k)'
        BY <1>0 DEF Busy
      <4>3. CASE k # j
        BY <1>0, <4>1, <4>2, <4>3
      <4>4. CASE k = j /\ s \in Final \cup {"CANCELED"}
        BY <1>0, <4>4
      <4>5. CASE k = j /\ s \notin Final \cup {"CANCELED"}
        <5>1. exec[j] \notin {"none", "QUEUED"}
          BY <1>2, <4>5 DEF WaitInv, OfferedIsClaimed
        <5>2. s = "IN_PROGRESS" /\ exec[j] = "IN_PROGRESS"
          BY <1>2, <4>5, <5>1
        <5>3. QED
          BY <1>0, <4>1, <4>2, <4>5, <5>2 DEF Final
      <4>6. QED
        BY <4>3, <4>4, <4>5
    <3>2. QED
      BY <1>0, <3>1 DEF OfferedIsSettled
  <2>4. WaitIsHeard'
    <3> SUFFICES ASSUME jpc = "wait", pending = <<>>, Upcoming(exec') # 0
                 PROVE  Coming' \/ (exec'[Upcoming(exec')] = "IN_PROGRESS" /\ OutcomeIn(requests', Upcoming(exec')))
      BY <1>0, <1>2 DEF WaitIsHeard
    <3>1. CASE Upcoming(exec') # Upcoming(exec)
      <4>1. Changed \in answers'
        BY <1>0, <3>1 DEF Becomes
      <4>2. QED
        BY <4>1 DEF Coming
    <3>2. CASE Upcoming(exec') = Upcoming(exec)
      <4> DEFINE u == Upcoming(exec)
      <4>1. u \in Jobs /\ exec[u] \in {"QUEUED", "IN_PROGRESS"} /\ exec'[u] \in {"QUEUED", "IN_PROGRESS"}
        BY <3>2, UpcomingIsAJob
      <4>2. Coming \/ (exec[u] = "IN_PROGRESS" /\ OutcomeIn(requests, u))
        BY <1>2, <3>2 DEF WaitInv, WaitIsHeard
      <4>3. Coming => Coming'
        BY <1>0 DEF Coming
      <4>4. u = j => s \notin Final
        BY <1>0, <4>1 DEF Final
      <4>5. exec[u] = "IN_PROGRESS" => exec'[u] = "IN_PROGRESS"
        BY <1>0, <1>2, <4>1
      <4>6. OutcomeIn(requests, u) => OutcomeIn(requests', u)
        BY <4>1, <4>4
      <4>7. QED
        BY <3>2, <4>2, <4>3, <4>5, <4>6
    <3>3. QED
      BY <3>1, <3>2
  <2>5. QED
    BY <2>1, <2>2, <2>3, <2>4 DEF WaitInv
<1>3. QED
  BY <1>1, <1>2

\* The service, with the process down: nothing is owed to it.
LEMMA ServiceWhileDown == WaitInv /\ ServiceStep /\ jpc = "down" => WaitInv'
<1> SUFFICES ASSUME WaitInv, ServiceStep, jpc = "down" PROVE WaitInv'
  OBVIOUS
<1>1. answers = {} /\ offered = {} /\ pending = <<>> /\ JobsTypeOK /\ JobsTypeOK'
  BY ServiceTyped DEF WaitInv, DownIsDeaf
<1>2. UNCHANGED <<jpc, offered, pending>>
  BY DEF ServiceStep, QueueJob, CancelJob, RetryJob, StartNextPending, UpdateExecution, Lose, loop, sdk
<1>3. answers' = answers
  BY <1>1 DEF ServiceStep, QueueJob, CancelJob, RetryJob, StartNextPending, UpdateExecution, Lose, Becomes
<1>4. QED
  BY <1>1, <1>2, <1>3, DownIsFine

\* A claim reaches the service: its answer is on the way, unless the job was
\* offered before, and then its outcome is.
LEMMA ClaimKeepsWait == WaitInv /\ StartNextPending /\ jpc # "down" => WaitInv'
<1> SUFFICES ASSUME WaitInv, StartNextPending, jpc # "down" PROVE WaitInv'
  OBVIOUS
<1>0. /\ JobsTypeOK /\ JobsTypeOK' /\ exec \in [Jobs -> Execution] /\ offered \subseteq Jobs
      /\ UNCHANGED <<jpc, job, pending, offered, stranded>> /\ requests' = requests \ {Start}
  BY ServiceTyped DEF WaitInv, JobsTypeOK, StartNextPending, sdk, loop, ServiceStep
<1>1. \A j : OutcomeIn(requests, j) => OutcomeIn(requests', j)
  BY <1>0 DEF OutcomeIn
<1>2. CASE Upcoming(exec) = 0
  <2>1. exec' = exec /\ answers' = answers
    BY <1>2 DEF StartNextPending
  <2>2. \A j : Busy(j)' <=> Busy(j)
    BY <1>0 DEF Busy
  <2>3. QED
    BY <1>0, <1>1, <1>2, <2>1, <2>2
    DEF WaitInv, DownIsDeaf, OfferedIsClaimed, OfferedIsSettled, WaitIsHeard
<1>3. CASE Upcoming(exec) # 0
  <2> DEFINE u == Upcoming(exec)
  <2>1. u \in Jobs /\ exec[u] \in {"QUEUED", "IN_PROGRESS"}
    BY <1>3, UpcomingIsAJob
  <2>2. exec' = [exec EXCEPT ![u] = "IN_PROGRESS"] /\ answers' = answers \cup {Accepted(u)}
    BY <1>3 DEF StartNextPending
  <2>3. Upcoming(exec') = u /\ exec'[u] = "IN_PROGRESS"
    BY <1>0, <1>3, <2>1, <2>2, ClaimKeepsUpcoming
  <2>4. DownIsDeaf'
    BY <1>0 DEF DownIsDeaf
  <2>5. OfferedIsClaimed'
    <3>1. \A j \in Jobs : Accepted(j) \in answers' => Accepted(j) \in answers \/ j = u
      BY <2>1, <2>2, AnswersDiffer
    <3>2. \A j \in Jobs : j # u => exec'[j] = exec[j]
      BY <1>0, <2>2
    <3>3. QED
      BY <1>0, <2>3, <3>1, <3>2 DEF WaitInv, OfferedIsClaimed
  <2>6. ASSUME ~stranded, u \in offered, ~Busy(u) PROVE OutcomeIn(requests', u)
    BY <1>1, <2>1, <2>6 DEF WaitInv, OfferedIsSettled, Final
  <2>7. OfferedIsSettled'
    <3>1. \A j \in Jobs : j # u => exec'[j] = exec[j]
      BY <1>0, <2>2
    <3>2. \A j \in Jobs : Busy(j)' <=> Busy(j)
      BY <1>0 DEF Busy
    <3>3. QED
      BY <1>0, <1>1, <2>6, <3>1, <3>2 DEF WaitInv, OfferedIsSettled
  <2>8. WaitIsHeard'
    <3> SUFFICES ASSUME jpc = "wait", pending = <<>>, ~stranded
                 PROVE  Coming' \/ OutcomeIn(requests', u)
      BY <1>0, <2>3 DEF WaitIsHeard
    <3>1. CASE u \in offered
      <4>1. ~Busy(u)
        BY DEF Busy
      <4>2. QED
        BY <2>6, <3>1, <4>1
    <3>2. CASE u \notin offered
      BY <1>0, <2>1, <2>2, <3>2 DEF Coming
    <3>3. QED
      BY <3>1, <3>2
  <2>9. QED
    BY <1>0, <2>4, <2>5, <2>7, <2>8 DEF WaitInv
<1>4. QED
  BY <1>2, <1>3

\* An update reaches the service.
LEMMA UpdateKeepsWait == WaitInv /\ UpdateExecution /\ jpc # "down" => WaitInv'
<1> SUFFICES ASSUME WaitInv, UpdateExecution, jpc # "down" PROVE WaitInv'
  OBVIOUS
<1>0. JobsTypeOK /\ JobsTypeOK' /\ UNCHANGED <<sdk, loop, stranded>> /\ offered \subseteq Jobs
  BY ServiceTyped DEF WaitInv, JobsTypeOK, UpdateExecution, ServiceStep
<1>1. PICK m \in requests :
        /\ m # Start /\ requests' = requests \ {m}
        /\ IF exec[m.job] = "IN_PROGRESS" THEN Becomes(m.job, m.status) ELSE UNCHANGED <<exec, answers>>
  BY DEF UpdateExecution
<1>2. m.job \in Jobs /\ m.status \in Final \cup {"IN_PROGRESS"}
  BY <1>0, <1>1, OtherIsUpdate
<1>3. \A k \in Jobs : (k # m.job \/ m.status \notin Final) =>
        (OutcomeIn(requests, k) => OutcomeIn(requests', k))
  BY <1>1 DEF OutcomeIn
<1>4. Start \in requests => Start \in requests'
  BY <1>1
<1>5. CASE exec[m.job] = "IN_PROGRESS"
  <2>1. Becomes(m.job, m.status) /\ m.status \in Execution
    BY <1>1, <1>2, <1>5 DEF Execution
  <2>2. m.status \notin {"none", "QUEUED"}
    BY <1>2 DEF Final
  <2>3. QED
    BY <1>0, <1>2, <1>3, <1>4, <1>5, <2>1, <2>2, BecomesKeepsWait
<1>6. CASE exec[m.job] # "IN_PROGRESS"
  <2>1. UNCHANGED <<exec, answers, jpc, job, pending, offered, stranded>>
    BY <1>0, <1>1, <1>6 DEF sdk, loop
  <2>2. \A k : Busy(k)' <=> Busy(k)
    BY <2>1 DEF Busy
  <2>3. OfferedIsSettled'
    <3>1. ASSUME ~stranded, m.job \in offered
          PROVE  exec[m.job] \in Final \cup {"CANCELED"}
      <4>1. exec[m.job] \in Execution /\ exec[m.job] \notin {"none", "QUEUED"}
        BY <1>0, <1>2, <3>1 DEF WaitInv, OfferedIsClaimed, JobsTypeOK
      <4>2. QED
        BY <1>6, <4>1 DEF Execution
    <3>2. QED
      BY <1>0, <1>3, <2>1, <2>2, <3>1 DEF WaitInv, OfferedIsSettled
  <2>4. WaitIsHeard'
    <3>1. Coming => Coming'
      BY <1>4, <2>1 DEF Coming
    <3>2. Upcoming(exec) # 0 => Upcoming(exec) \in Jobs
      BY UpcomingIsAJob
    <3>3. exec' = exec /\ Upcoming(exec') = Upcoming(exec)
      BY <2>1
    <3>4. QED
      BY <1>3, <1>6, <2>1, <3>1, <3>2, <3>3 DEF WaitInv, WaitIsHeard
  <2>5. QED
    BY <1>0, <2>1, <2>3, <2>4 DEF WaitInv, DownIsDeaf, OfferedIsClaimed
<1>7. QED
  BY <1>5, <1>6

LEMMA ServiceKeepsWait == WaitInv /\ ServiceStep => WaitInv'
<1> SUFFICES ASSUME WaitInv, ServiceStep, jpc # "down" PROVE WaitInv'
  BY ServiceWhileDown
<1>0. JobsTypeOK /\ JobsTypeOK'
  BY ServiceTyped DEF WaitInv
<1>1. ASSUME NEW j \in Jobs, QueueJob(j) \/ CancelJob(j) PROVE WaitInv'
  <2>1. UNCHANGED <<requests, sdk, loop, stranded>>
    BY <1>1 DEF QueueJob, CancelJob
  <2>2. PICK s \in {"QUEUED", "CANCELED"} : Becomes(j, s) /\ (s = "QUEUED" => exec[j] = "none")
    BY <1>1 DEF QueueJob, CancelJob
  <2>3. s \in Execution /\ s \notin Final
    BY DEF Execution, Final
  <2>4. \A k \in Jobs : OutcomeIn(requests, k) => OutcomeIn(requests', k)
    BY <2>1
  <2>5. QED
    BY <1>0, <2>1, <2>2, <2>3, <2>4, BecomesKeepsWait
<1>2. ASSUME NEW j \in Jobs, RetryJob(j) PROVE WaitInv'
  BY <1>0, <1>2, StrandedIsFine DEF RetryJob, loop
<1>3. CASE Lose
  BY <1>0, <1>3, StrandedIsFine DEF Lose, loop
<1>4. QED
  BY <1>1, <1>2, <1>3, ClaimKeepsWait, UpdateKeepsWait DEF ServiceStep

\* The SDK thread: an answer becomes a place in the queue, a wake-up a claim.
LEMMA SdkKeepsWait == WaitInv /\ SdkStep => WaitInv'
<1> SUFFICES ASSUME WaitInv, SdkStep PROVE WaitInv'
  OBVIOUS
<1>0. /\ JobsTypeOK /\ JobsTypeOK' /\ UNCHANGED <<exec, jpc, job, stranded>> /\ jpc # "down"
      /\ pending \in Seq(Jobs) /\ Len(pending) \in Nat /\ offered \subseteq Jobs
  BY SdkTyped DEF WaitInv, JobsTypeOK, SdkStep, OnStartNext, OnNextChanged, loop
<1>1. CASE OnNextChanged
  <2>1. UNCHANGED <<pending, offered>> /\ requests' = requests \cup {Start} /\ answers' \subseteq answers
    BY <1>1 DEF OnNextChanged, sdk
  <2>2. \A k : (Busy(k)' <=> Busy(k)) /\ (OutcomeIn(requests, k) => OutcomeIn(requests', k))
    BY <1>0, <2>1 DEF Busy, OutcomeIn
  <2>3. Coming'
    BY <2>1 DEF Coming
  <2>4. OfferedIsClaimed'
    BY <1>0, <2>1 DEF WaitInv, OfferedIsClaimed
  <2>5. OfferedIsSettled'
    BY <1>0, <2>1, <2>2 DEF WaitInv, OfferedIsSettled
  <2>6. QED
    BY <1>0, <2>3, <2>4, <2>5 DEF WaitInv, DownIsDeaf, WaitIsHeard
<1>2. CASE OnStartNext
  <2>1. PICK j \in Jobs :
          /\ Accepted(j) \in answers /\ answers' \in {answers \ {Accepted(j)}, answers}
          /\ IF j \in offered THEN UNCHANGED sdk
             ELSE offered' = offered \cup {j} /\ pending' = Append(pending, j)
    BY <1>2 DEF OnStartNext, Again
  <2>2. requests' = requests
    BY <1>2 DEF OnStartNext
  <2>3. OfferedIsClaimed'
    BY <1>0, <2>1 DEF WaitInv, OfferedIsClaimed, sdk
  <2>4. CASE j \in offered
    <3>1. UNCHANGED <<pending, offered>>
      BY <2>1, <2>4 DEF sdk
    <3>2. \A k : Busy(k)' <=> Busy(k)
      BY <1>0, <3>1 DEF Busy
    <3>3. Coming => Coming'
      <4>1. \A k \in Jobs \ offered : Accepted(k) \in answers => Accepted(k) \in answers'
        BY <2>1, <2>4, AnswersDiffer
      <4>2. Changed \in answers => Changed \in answers'
        BY <2>1, AnswersDiffer
      <4>3. QED
        BY <2>2, <3>1, <4>1, <4>2 DEF Coming
    <3>4. OfferedIsSettled'
      BY <1>0, <2>2, <3>1, <3>2 DEF WaitInv, OfferedIsSettled
    <3>5. WaitIsHeard'
      <4>1. Upcoming(exec') = Upcoming(exec) /\ exec' = exec
        BY <1>0
      <4>2. QED
        BY <1>0, <2>2, <3>1, <3>3, <4>1 DEF WaitInv, WaitIsHeard
    <3>6. QED
      BY <1>0, <2>3, <3>4, <3>5 DEF WaitInv, DownIsDeaf
  <2>5. CASE j \notin offered
    <3>1. /\ offered' = offered \cup {j} /\ Len(pending') = Len(pending) + 1
          /\ pending'[Len(pending) + 1] = j
          /\ \A i \in 1..Len(pending) : pending'[i] = pending[i]
      BY <1>0, <2>1, <2>5
    <3>2. \A i \in 1..(Len(pending) + 1) : i \in 1..Len(pending')
      BY <1>0, <3>1
    <3>3. Busy(j)' /\ \A k : Busy(k) => Busy(k)'
      BY <1>0, <3>1, <3>2 DEF Busy
    <3>4. OfferedIsSettled'
      BY <1>0, <2>2, <3>1, <3>3 DEF WaitInv, OfferedIsSettled
    <3>5. pending' # <<>>
      BY <1>0, <3>1
    <3>6. QED
      BY <1>0, <2>3, <3>4, <3>5 DEF WaitInv, DownIsDeaf, WaitIsHeard
  <2>6. QED
    BY <2>4, <2>5
<1>3. QED
  BY <1>1, <1>2 DEF SdkStep

\* The loop: a job stays with it until its outcome is out, and a claim with it.
LEMMA LoopKeepsWait == WaitInv /\ (Connect \/ LoopStep \/ ProcessDies) => WaitInv'
<1> SUFFICES ASSUME WaitInv, Connect \/ LoopStep \/ ProcessDies PROVE WaitInv'
  OBVIOUS
<1>0. /\ JobsTypeOK /\ JobsTypeOK' /\ pending \in Seq(Jobs) /\ Len(pending) \in Nat /\ offered \subseteq Jobs
  BY LoopTyped DEF WaitInv, JobsTypeOK
<1>1. CASE ProcessDies
  BY <1>0, <1>1, DownIsFine DEF ProcessDies
<1>2. CASE Connect
  <2>1. /\ UNCHANGED <<exec, offered, stranded, answers>> /\ offered = {} /\ answers = {}
        /\ jpc' # "down" /\ Start \in requests'
    BY <1>2 DEF Connect, sdk, WaitInv, DownIsDeaf
  <2>2. QED
    BY <1>0, <2>1 DEF WaitInv, DownIsDeaf, OfferedIsClaimed, OfferedIsSettled, WaitIsHeard, Coming
<1>3. CASE LoopStep
  <2>1. UNCHANGED <<exec, offered, stranded, answers>> /\ jpc' # "down" /\ requests \subseteq requests'
    BY <1>3 DEF LoopStep, NextExecution, ReportProgress, RefuseDocument, RunCycle, ReportResult, sdk, rest
  <2>2. \A k : OutcomeIn(requests, k) => OutcomeIn(requests', k)
    BY <2>1 DEF OutcomeIn
  <2>3. ASSUME NEW k \in Jobs, Busy(k) PROVE Busy(k)' \/ OutcomeIn(requests', k)
    <3>1. CASE NextExecution
      <4>1. /\ job' = pending[1] /\ jpc' = "progress" /\ jpc = "wait" /\ Len(pending) > 0
            /\ Len(pending') = Len(pending) - 1
            /\ \A i \in 1..Len(pending') : pending'[i] = pending[i + 1]
        BY <1>0, <3>1 DEF NextExecution
      <4>2. PICK i \in 1..Len(pending) : pending[i] = k
        BY <2>3, <4>1 DEF Busy
      <4>3. CASE i = 1
        BY <4>1, <4>2, <4>3 DEF Busy
      <4>4. CASE i # 1
        <5>1. i - 1 \in 1..Len(pending') /\ pending'[i - 1] = k
          BY <1>0, <4>1, <4>2, <4>4
        <5>2. QED
          BY <5>1 DEF Busy
      <4>5. QED
        BY <4>3, <4>4
    <3>2. CASE ReportProgress \/ RefuseDocument \/ RunCycle
      BY <2>3, <3>2 DEF Busy, ReportProgress, RefuseDocument, RunCycle, sdk
    <3>3. CASE ReportResult
      <4>1. CASE job = k
        <5> DEFINE m == Update(job, StatusFromCycle(phase, last))
        <5>1. m \in requests'
          BY <3>3 DEF ReportResult
        <5>2. m # Start /\ m.status \in Final /\ m.job = k
          BY <4>1, RequestsDiffer, OutcomeIsFinal
        <5>3. QED
          BY <5>1, <5>2 DEF OutcomeIn
      <4>2. CASE job # k
        BY <2>3, <3>3, <4>2 DEF Busy, ReportResult, sdk
      <4>3. QED
        BY <4>1, <4>2
    <3>4. QED
      BY <1>3, <3>1, <3>2, <3>3 DEF LoopStep
  <2>4. OfferedIsSettled'
    BY <1>0, <2>1, <2>2, <2>3 DEF WaitInv, OfferedIsSettled
  <2>5. jpc' = "wait" => Start \in requests'
    BY <1>3 DEF LoopStep, NextExecution, ReportProgress, RefuseDocument, RunCycle, ReportResult
  <2>6. OfferedIsClaimed'
    BY <2>1 DEF WaitInv, OfferedIsClaimed
  <2>7. QED
    BY <1>0, <2>1, <2>4, <2>5, <2>6 DEF WaitInv, DownIsDeaf, WaitIsHeard, Coming
<1>4. QED
  BY <1>1, <1>2, <1>3

\* jobs_runner.py:292: next_execution blocks without a timeout.  Unless a
\* message was lost or an old id came back, it never blocks with a job to do
\* and nothing on its way.
THEOREM LoopIsAnswered == JobsSpec => []NoSilentWait
<1>1. WaitInv /\ [JobsNext]_jobvars => WaitInv'
  <2>1. WaitInv /\ UNCHANGED jobvars => WaitInv'
    BY DEF WaitInv, JobsTypeOK, DownIsDeaf, OfferedIsClaimed, OfferedIsSettled, WaitIsHeard, Busy, Coming, jobvars
  <2>2. QED
    BY <2>1, ServiceKeepsWait, SdkKeepsWait, LoopKeepsWait DEF JobsNext
<1>2. WaitInv => NoSilentWait
  BY DEF WaitInv, WaitIsHeard, NoSilentWait, Coming, OutcomeIn
<1>3. QED
  BY <1>1, <1>2, WaitInit, PTL DEF JobsSpec
=============================================================================
