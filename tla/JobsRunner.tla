----------------------------- MODULE JobsRunner -----------------------------
(***************************************************************************)
(* unoq_ota/jobs_runner.py: `unoq-ota jobs`.  An SDK thread takes messages *)
(* from the broker and fills a queue; the loop takes executions from the   *)
(* queue, runs one verify-only cycle for each and reports its outcome.     *)
(* The jobs service behind the broker is external: it is modelled by what  *)
(* the code relies on (an execution in progress is handed out before a     *)
(* queued one, and a change of the next execution is announced).           *)
(*                                                                         *)
(* Job ids are numbered in the order in which they are queued.             *)
(***************************************************************************)
EXTENDS Naturals, Sequences

CONSTANTS
  NumJobs,
  Refusals,       \* sets of jobs whose documents parse_job_operation may refuse
  MaxCrashes      \* deaths of the process in one behaviour

Jobs == 1..NumJobs

ASSUME JobsAssumption ==
  NumJobs \in Nat /\ MaxCrashes \in Nat /\ Refusals \subseteq SUBSET Jobs

Final == {"SUCCEEDED", "FAILED"}
Execution == {"none", "QUEUED", "IN_PROGRESS", "CANCELED"} \cup Final

\* What run_once can report in a verify-only cycle, the phase it returns, and
\* whether an exception ends it instead (agent.py).
Cycles ==
  {[reports |-> <<>>, phase |-> "idle"],
   [reports |-> <<"verified">>, phase |-> "idle"],
   [reports |-> <<"waiting_for_gate">>, phase |-> "idle"],
   [reports |-> <<"rejected">>, phase |-> "rejected"],
   [reports |-> <<"downloading", "verified">>, phase |-> "idle"],
   [reports |-> <<"downloading", "rejected">>, phase |-> "idle"],
   [reports |-> <<"downloading", "rejected">>, phase |-> "rejected"],
   [reports |-> <<>>, phase |-> "raised"],
   [reports |-> <<"downloading">>, phase |-> "raised"]}

Reports == {"verified", "waiting_for_gate", "rejected", "downloading"}
Phases == {"idle", "rejected", "raised"}

VARIABLES
  bad,        \* the jobs with a document that is not understood
  exec,       \* the service's record of each execution
  requests,   \* messages on their way to the service
  answers,    \* messages on their way to the SDK thread
  jpc,        \* where the loop is
  pending,    \* AwsJobsClient._pending
  offered,    \* AwsJobsClient._offered
  job,        \* the execution the loop is working on
  phase,      \* the phase its cycle returned
  last,       \* wrap_run_cycle: the status last reported
  crashes,
  ran,        \* history: the jobs this process has run a cycle for
  earned,     \* history: the outcomes each job's own cycles have earned it
  stranded    \* history: since it started, this process has missed a message or
              \* been handed an execution under an id it has seen before

jobvars == <<bad, exec, requests, answers, jpc, pending, offered, job, phase, last,
             crashes, ran, earned, stranded>>
sdk == <<pending, offered>>
loop == <<jpc, job, phase, last>>
rest == <<bad, crashes, ran, earned>>

Start == [type |-> "start"]
Changed == [type |-> "changed"]
Accepted(j) == [type |-> "accepted", job |-> j]
Update(j, s) == [type |-> "update", job |-> j, status |-> s]

JobsTypeOK ==
  /\ bad \in Refusals
  /\ exec \in [Jobs -> Execution]
  /\ requests \subseteq {Start} \cup [type: {"update"}, job: Jobs, status: Final \cup {"IN_PROGRESS"}]
  /\ answers \subseteq {Changed} \cup [type: {"accepted"}, job: Jobs]
  /\ jpc \in {"down", "wait", "progress", "handle", "report"}
  /\ pending \in Seq(Jobs) /\ offered \in SUBSET Jobs
  /\ job \in 0..NumJobs /\ (jpc \in {"progress", "handle", "report"} => job \in Jobs)
  /\ phase \in Phases
  /\ last \in Reports \cup {"none"}
  /\ crashes \in 0..MaxCrashes
  /\ ran \in SUBSET Jobs /\ earned \in [Jobs -> SUBSET Final] /\ stranded \in BOOLEAN

JobsInit ==
  /\ bad \in Refusals
  /\ exec = [j \in Jobs |-> "none"] /\ requests = {} /\ answers = {}
  /\ jpc = "down" /\ pending = <<>> /\ offered = {} /\ job = 0 /\ phase = "idle" /\ last = "none"
  /\ crashes = 0 /\ ran = {} /\ earned = [j \in Jobs |-> {}] /\ stranded = FALSE

-----------------------------------------------------------------------------
(* The service behind the broker (external).                               *)

In(e, s) == {j \in Jobs : e[j] = s}
First(S) == CHOOSE j \in S : \A k \in S : j <= k

\* The next execution: the oldest in progress, or else the oldest queued.
Upcoming(e) == IF In(e, "IN_PROGRESS") # {} THEN First(In(e, "IN_PROGRESS"))
               ELSE IF In(e, "QUEUED") # {} THEN First(In(e, "QUEUED")) ELSE 0

\* An execution changes, and a connected client hears of a new next one.
Becomes(j, s) ==
  LET e == [exec EXCEPT ![j] = s]
  IN  /\ exec' = e
      /\ answers' = answers \cup
           (IF jpc # "down" /\ Upcoming(e) \notin {0, Upcoming(exec)} THEN {Changed} ELSE {})

QueueJob(j) ==
  /\ exec[j] = "none" /\ \A k \in 1..(j-1) : exec[k] # "none"
  /\ Becomes(j, "QUEUED")
  /\ UNCHANGED <<requests, sdk, loop, rest, stranded>>

\* Canceled by its owner, or timed out.
CancelJob(j) ==
  /\ exec[j] \in {"QUEUED", "IN_PROGRESS"}
  /\ Becomes(j, "CANCELED")
  /\ UNCHANGED <<requests, sdk, loop, rest, stranded>>

\* The service's own retry of a failed execution: a new execution number for
\* an id that the process may remember.
RetryJob(j) ==
  /\ exec[j] = "FAILED"
  /\ Becomes(j, "QUEUED") /\ stranded' = (stranded \/ jpc # "down")
  /\ UNCHANGED <<requests, sdk, loop, rest>>

\* The answer to a claim may be delivered again later (QoS 1).  A repeated
\* request or announcement has the effect of the extra claims the client
\* makes anyway, or none.
Again(m) == {answers \ {m}, answers}

StartNextPending ==
  /\ Start \in requests /\ requests' = requests \ {Start}
  /\ IF Upcoming(exec) = 0 THEN UNCHANGED <<exec, answers>>
     ELSE /\ exec' = [exec EXCEPT ![Upcoming(exec)] = "IN_PROGRESS"]
          /\ answers' = answers \cup (IF jpc = "down" THEN {} ELSE {Accepted(Upcoming(exec))})
  /\ UNCHANGED <<sdk, loop, rest, stranded>>

\* An execution that has ended, or is not in progress, takes no update.
UpdateExecution ==
  \E m \in requests :
    /\ m # Start /\ requests' = requests \ {m}
    /\ IF exec[m.job] = "IN_PROGRESS" THEN Becomes(m.job, m.status)
       ELSE UNCHANGED <<exec, answers>>
    /\ UNCHANGED <<sdk, loop, rest, stranded>>

\* The connection drops: a request nobody waits for, or an answer, is lost.
Lose ==
  /\ \/ Start \in requests /\ requests' = requests \ {Start} /\ UNCHANGED answers
     \/ \E m \in answers : answers' = answers \ {m} /\ UNCHANGED requests
  /\ stranded' = (stranded \/ jpc # "down")
  /\ UNCHANGED <<exec, sdk, loop, rest>>

-----------------------------------------------------------------------------
(* The process: start, SDK callbacks, loop.                                *)

\* A fresh client, subscribed and connected, asks for the next job, as does
\* the loop when it begins.  Without a clock, a network or the SDK the process
\* exits and systemd tries again: no step.
Connect ==
  /\ jpc = "down"
  /\ jpc' = "wait" /\ requests' = requests \cup {Start}
  /\ UNCHANGED <<exec, answers, sdk, job, phase, last, rest, stranded>>

\* _offer on the SDK thread, at any point of the loop.
OnStartNext_mut ==
  /\ jpc # "down"
  /\ \E j \in Jobs :
       /\ Accepted(j) \in answers /\ answers' \in Again(Accepted(j))
       /\ offered' = offered \cup {j} /\ Len(pending) < NumJobs /\ pending' = Append(pending, j)
  /\ UNCHANGED <<exec, requests, loop, rest, stranded>>

OnStartNext ==
  /\ jpc # "down"
  /\ \E j \in Jobs :
       /\ Accepted(j) \in answers /\ answers' \in Again(Accepted(j))
       /\ IF j \in offered THEN UNCHANGED sdk
          ELSE offered' = offered \cup {j} /\ pending' = Append(pending, j)
  /\ UNCHANGED <<exec, requests, loop, rest, stranded>>

\* _on_next_changed is only a wake-up.
OnNextChanged ==
  /\ jpc # "down" /\ Changed \in answers /\ answers' = answers \ {Changed}
  /\ requests' = requests \cup {Start}
  /\ UNCHANGED <<exec, sdk, loop, rest, stranded>>

\* next_execution blocks on the queue.
NextExecution ==
  /\ jpc = "wait" /\ pending # <<>>
  /\ job' = Head(pending) /\ pending' = Tail(pending) /\ jpc' = "progress"
  /\ UNCHANGED <<exec, requests, answers, offered, phase, last, rest, stranded>>

\* update_execution waits until the broker has the message.
ReportProgress ==
  /\ jpc = "progress"
  /\ requests' = requests \cup {Update(job, "IN_PROGRESS")} /\ jpc' = "handle"
  /\ UNCHANGED <<exec, answers, sdk, job, phase, last, rest, stranded>>

\* parse_job_operation: no document, or one that asks for a check.
ParseJobOperation(j) == j \notin bad

\* handle_execution: a document that is not understood fails without a cycle.
RefuseDocument ==
  /\ jpc = "handle" /\ ~ParseJobOperation(job)
  /\ phase' = "raised"
  /\ earned' = [earned EXCEPT ![job] = @ \cup {"FAILED"}] /\ jpc' = "report"
  /\ UNCHANGED <<bad, exec, requests, answers, sdk, job, last, crashes, ran, stranded>>

\* What a cycle deserves to be reported as, from the whole of it.
Deserves(c) ==
  IF c.phase = "idle" /\ \A i \in DOMAIN c.reports : c.reports[i] \in {"downloading", "verified"}
    THEN "SUCCEEDED" ELSE "FAILED"

RunCycle_mut ==
  /\ jpc = "handle" /\ ParseJobOperation(job)
  /\ \E c \in Cycles :
       /\ phase' = c.phase
       /\ last' = IF c.reports = <<>> THEN last ELSE c.reports[Len(c.reports)]
       /\ earned' = [earned EXCEPT ![job] = @ \cup {Deserves(c)}]
  /\ ran' = ran \cup {job} /\ jpc' = "report"
  /\ UNCHANGED <<bad, exec, requests, answers, sdk, job, crashes, stranded>>

\* run_cycle forgets the last report and calls run_once, which returns or
\* raises; the wrapper saw its reports pass and has kept the last.  Nobody
\* else looks at any of this in between.
RunCycle ==
  /\ jpc = "handle" /\ ParseJobOperation(job)
  /\ \E c \in Cycles :
       /\ phase' = c.phase
       /\ last' = IF c.reports = <<>> THEN "none" ELSE c.reports[Len(c.reports)]
       /\ earned' = [earned EXCEPT ![job] = @ \cup {Deserves(c)}]
  /\ ran' = ran \cup {job} /\ jpc' = "report"
  /\ UNCHANGED <<bad, exec, requests, answers, sdk, job, crashes, stranded>>

StatusFromCycle_mut(result, reported) == IF result = "idle" THEN "SUCCEEDED" ELSE result

\* _status_from_cycle, and handle_execution for an exception.  A verify-only
\* cycle never reports a commit.
StatusFromCycle(result, reported) ==
  IF result \in {"raised", "rejected"} \/ reported \in {"rejected", "waiting_for_gate"}
    THEN "FAILED"
  ELSE IF reported = "verified" \/ (reported = "none" /\ result = "idle")
    THEN "SUCCEEDED" ELSE "FAILED"

\* The outcome goes out, and with it the request for the next job.
ReportResult_mut ==
  /\ jpc = "report"
  /\ requests' = requests \cup {Start}
  /\ jpc' = "wait" /\ job' = 0 /\ phase' = "idle"
  /\ UNCHANGED <<exec, answers, sdk, last, rest, stranded>>

ReportResult ==
  /\ jpc = "report"
  /\ requests' = requests \cup {Update(job, StatusFromCycle(phase, last)), Start}
  /\ jpc' = "wait" /\ job' = 0 /\ phase' = "idle"
  /\ UNCHANGED <<exec, answers, sdk, last, rest, stranded>>

\* The process is killed, or a publish fails and the exception ends it.  What
\* it was publishing may be out already; what was on its way to it is gone.
Unsent == CASE jpc = "progress" -> {Update(job, "IN_PROGRESS")}
            [] jpc = "report"   -> {Update(job, StatusFromCycle(phase, last))}
            [] OTHER            -> {}

ProcessDies ==
  /\ jpc # "down" /\ crashes < MaxCrashes /\ crashes' = crashes + 1
  /\ requests' \in {requests, requests \cup Unsent} /\ answers' = {}
  /\ jpc' = "down" /\ pending' = <<>> /\ offered' = {} /\ job' = 0 /\ phase' = "idle" /\ last' = "none"
  /\ ran' = {} /\ stranded' = FALSE
  /\ UNCHANGED <<bad, exec, earned>>

ServiceStep ==
  \/ \E j \in Jobs : QueueJob(j) \/ CancelJob(j) \/ RetryJob(j)
  \/ StartNextPending \/ UpdateExecution \/ Lose

SdkStep == OnStartNext \/ OnNextChanged

LoopStep == NextExecution \/ ReportProgress \/ RefuseDocument \/ RunCycle \/ ReportResult

JobsNext == ServiceStep \/ SdkStep \/ Connect \/ LoopStep \/ ProcessDies

JobsSpec == JobsInit /\ [][JobsNext]_jobvars

-----------------------------------------------------------------------------
\* The answer to a claim may come twice, and a job in progress is handed out
\* again on every claim: the same process never runs a job's cycle twice.
RunsOnce == [][ran' \subseteq ran \cup {job} /\ (RunCycle => job \notin ran)]_jobvars

\* DESIGN.md:194-196: the agent "runs one verify-only cycle ... then reports
\* SUCCEEDED or FAILED to the job".  What the service holds was earned by a
\* cycle of that very job, never by what an earlier job's cycle reported.
OutcomeIsOwn == \A j \in Jobs : exec[j] \in Final => exec[j] \in earned[j]

\* The loop never waits for something that is not coming: while there is a
\* job to do, a claim, an answer or an announcement is on its way, unless a
\* message was lost or an old id came back since the process started.
NoSilentWait ==
  (jpc = "wait" /\ pending = <<>> /\ ~stranded /\ Upcoming(exec) # 0) =>
    \/ Start \in requests \/ Changed \in answers
    \/ \E j \in Jobs \ offered : Accepted(j) \in answers
    \/ \E m \in requests : m # Start /\ m.status \in Final /\ m.job = Upcoming(exec)

-----------------------------------------------------------------------------
(***************************************************************************)
(* Fairness: the service answers what reaches it, the SDK thread and the   *)
(* loop go on, every cycle ends (run_once has no unbounded wait), and      *)
(* systemd restarts the process (Restart=always).  Nothing is assumed of   *)
(* losses, deaths, cancellations and retries.                              *)
(***************************************************************************)
JobsFairness ==
  /\ WF_jobvars(StartNextPending) /\ WF_jobvars(UpdateExecution)
  /\ WF_jobvars(OnStartNext) /\ WF_jobvars(OnNextChanged)
  /\ WF_jobvars(Connect) /\ WF_jobvars(LoopStep)

FairJobsSpec == JobsSpec /\ JobsFairness

\* Every job comes to an end, through restarts in the middle of its cycle,
\* unless the process goes on for ever with a message it never got or an id
\* it will not take again: only a restart cures those.
EveryJobEnds ==
  <>[](~stranded) => \A j \in Jobs :
    (exec[j] \in {"QUEUED", "IN_PROGRESS"}) ~> (exec[j] \in Final \cup {"CANCELED"})
=============================================================================
