------------------------- MODULE RegisterNewClientJob -------------------------
(***************************************************************************)
(* How the app's messaging token reaches the home monitor's server:        *)
(* com.sourceauditor.sahomemonitor.RegisterNewClientJob, a JobService, and *)
(* its RegisterTask, an AsyncTask.                                         *)
(*                                                                         *)
(* Every call of sendRegistrationToServer schedules job 0, which replaces  *)
(* the one that waits and stops the one that runs.  The system starts and  *)
(* stops the job by callbacks on the main thread; the task runs on the     *)
(* process's serial executor and its result comes back to the main thread. *)
(* The process may die at any time, and the device may restart.            *)
(*                                                                         *)
(* A job is known by the number of the call that scheduled it, a task by   *)
(* the number of the onStartJob that made it.                              *)
(***************************************************************************)
EXTENDS Integers, Sequences

CONSTANTS
    MaxTokens, \* bound: tokens that the messaging service issues
    MaxAsks,   \* bound: menu requests whose token is on its way
    MaxCalls,  \* bound: calls of sendRegistrationToServer
    MaxStarts  \* bound: calls of onStartJob

ASSUME BoundsAssumption ==
    /\ MaxTokens \in Nat
    /\ MaxAsks \in Nat
    /\ MaxCalls \in Nat
    /\ MaxStarts \in Nat

VARIABLES
    token,         \* the newest token; tokens are numbered as issued
    answers,       \* getToken() results on their way to onComplete
    calls,         \* the token of each call of sendRegistrationToServer
    pending,       \* the job 0 that waits to be started, 0 if none does
    active,        \* the job 0 that has been started, 0 if none has
    executing,     \* onStartJob has been called for it
    stopping,      \* the system wants onStopJob to be called for it
    tasks,         \* the RegisterTasks
    mRegisterTask, \* the field: a task, 0 for null
    sent,          \* history: the job of the last request written
    finished,      \* history: the last task that called jobFinished
    acknowledged,  \* history: jobs that ended with success
    failed,        \* history: jobs that ended without
    mishaps        \* history: what has happened beside the code

jobVars     == <<pending, active, executing, stopping>>
taskVars    == <<tasks, mRegisterTask>>
historyVars == <<sent, finished, acknowledged, failed, mishaps>>
vars == <<token, answers, calls, jobVars, taskVars, historyVars>>

-----------------------------------------------------------------------------

\* Where a task is: doInBackground connects, then waits for the response to
\* its request; its result is posted; the task is over.
Background == {"connecting", "reading"}
Posted     == {"succeeded", "failed"}
Steps      == {"queued", "over"} \cup Background \cup Posted

Task == [job : Nat, step : Steps, cancelled : BOOLEAN]

Mishaps == {"lateAnswer", "restart"}

TypeOK ==
    /\ token \in Nat
    /\ answers \in Seq(Nat)
    /\ calls \in Seq(Nat)
    /\ pending \in 0..Len(calls)
    /\ active \in 0..Len(calls)
    /\ executing \in BOOLEAN
    /\ stopping \in BOOLEAN
    /\ tasks \in Seq(Task)
    /\ \A t \in 1..Len(tasks) : tasks[t].job \in 1..Len(calls)
    /\ mRegisterTask \in 0..Len(tasks)
    /\ sent \in 0..Len(calls)
    /\ finished \in 0..Len(tasks)
    /\ acknowledged \in SUBSET (1..Len(calls))
    /\ failed \in SUBSET (1..Len(calls))
    /\ mishaps \in SUBSET Mishaps

Init ==
    /\ token = 0
    /\ answers = <<>>
    /\ calls = <<>>
    /\ pending = 0
    /\ active = 0
    /\ executing = FALSE
    /\ stopping = FALSE
    /\ tasks = <<>>
    /\ mRegisterTask = 0
    /\ sent = 0
    /\ finished = 0
    /\ acknowledged = {}
    /\ failed = {}
    /\ mishaps = {}

-----------------------------------------------------------------------------
(* The callers.                                                            *)

\* Job 0 is scheduled for token t, in the place of the job 0 there is.
sendRegistrationToServer(t) ==
    /\ Len(calls) < MaxCalls
    /\ calls' = Append(calls, t)
    /\ pending' = Len(calls) + 1
    /\ stopping' = (active # 0)
    /\ UNCHANGED <<active, executing, taskVars>>

\* MyFirebaseMessagingService.onNewToken: a new token replaces the last one.
OnNewToken ==
    /\ token < MaxTokens
    /\ token' = token + 1
    /\ sendRegistrationToServer(token')
    /\ UNCHANGED <<answers, historyVars>>

\* MainActivity.registerWithHomeMonitor asks for the token, which is 0 when it
\* cannot be fetched.
RegisterWithHomeMonitor ==
    /\ Len(answers) < MaxAsks
    /\ \E t \in {0, token} : answers' = Append(answers, t)
    /\ UNCHANGED <<token, calls, jobVars, taskVars, historyVars>>

\* Its onComplete, later and on the main thread.
OnComplete ==
    /\ answers # <<>>
    /\ answers' = Tail(answers)
    /\ \/ /\ Head(answers) = 0
          /\ UNCHANGED <<calls, jobVars, taskVars, mishaps>>
       \/ /\ Head(answers) # 0
          /\ sendRegistrationToServer(Head(answers))
          /\ mishaps' = IF Head(answers) # token
                        THEN mishaps \cup {"lateAnswer"} ELSE mishaps
    /\ UNCHANGED <<token, sent, finished, acknowledged, failed>>

-----------------------------------------------------------------------------
(* The job: what the system does, and the callbacks of the JobService.     *)

\* The network is there: the waiting job is to run.
StartJob ==
    /\ pending # 0
    /\ active = 0
    /\ Len(tasks) < MaxStarts
    /\ active' = pending
    /\ pending' = 0
    /\ UNCHANGED <<token, answers, calls, executing, stopping, taskVars,
                   historyVars>>

\* Mutant of onStartJob: the parameters are not looked at.
onStartJobUnchecked ==
    /\ ~executing
    /\ Len(tasks) < MaxStarts
    /\ executing' = TRUE
    /\ tasks' = Append(tasks, [job |-> active, step |-> "queued",
                               cancelled |-> FALSE])
    /\ mRegisterTask' = Len(tasks')
    /\ UNCHANGED <<token, answers, calls, pending, active, stopping,
                   historyVars>>

\* A job with its token, which every job of this class has: a new task.
onStartJob ==
    /\ active # 0
    /\ ~executing
    /\ executing' = TRUE
    /\ tasks' = Append(tasks, [job |-> active, step |-> "queued",
                               cancelled |-> FALSE])
    /\ mRegisterTask' = Len(tasks')
    /\ UNCHANGED <<token, answers, calls, pending, active, stopping,
                   historyVars>>

\* The network is gone, or the job has taken too long.
StopJob ==
    /\ active # 0
    /\ ~stopping
    /\ stopping' = TRUE
    /\ UNCHANGED <<token, answers, calls, pending, active, executing,
                   taskVars, historyVars>>

\* The job is no longer active; it waits again if it is to be retried and no
\* other job has taken its place.
JobEnds(retry) ==
    /\ pending' = IF retry /\ pending = 0 THEN active ELSE pending
    /\ active' = 0
    /\ executing' = FALSE
    /\ stopping' = FALSE

\* The stop comes before onStartJob has been called, which then never is.
StopUnstarted ==
    /\ active # 0
    /\ ~executing
    /\ stopping
    /\ JobEnds(TRUE)
    /\ UNCHANGED <<token, answers, calls, taskVars, historyVars>>

\* Mutant of onStopJob: the job is not to be retried.
onStopJobForGood ==
    /\ executing
    /\ stopping
    /\ tasks' = [t \in 1..Len(tasks) |->
                    [tasks[t] EXCEPT !.cancelled = @ \/ t = mRegisterTask]]
    /\ JobEnds(FALSE)
    /\ UNCHANGED <<token, answers, calls, mRegisterTask, historyVars>>

\* Mutant of onStopJob: the task is not cancelled.
onStopJobUncancelled ==
    /\ executing
    /\ stopping
    /\ JobEnds(mRegisterTask # 0)
    /\ UNCHANGED <<token, answers, calls, taskVars, historyVars>>

\* The task, if there is one, is cancelled: its result will not be looked at.
\* The answer says that the job is to be retried.
onStopJob ==
    /\ executing
    /\ stopping
    /\ tasks' = [t \in 1..Len(tasks) |->
                    [tasks[t] EXCEPT !.cancelled = @ \/ t = mRegisterTask]]
    /\ JobEnds(mRegisterTask # 0)
    /\ UNCHANGED <<token, answers, calls, mRegisterTask, historyVars>>

-----------------------------------------------------------------------------
(* The task.                                                               *)

Goes(t, from, to) ==
    /\ tasks[t].step = from
    /\ tasks' = [tasks EXCEPT ![t].step = to]

\* Mutant of Begin: the executor is not serial.
BeginAtOnce(t) ==
    /\ \/ ~tasks[t].cancelled /\ Goes(t, "queued", "connecting")
       \/ tasks[t].cancelled /\ Goes(t, "queued", "over")
    /\ UNCHANGED sent

\* The executor takes the task when the ones before have left it, and does
\* not run it when it has been cancelled by then.
Begin(t) ==
    /\ \A u \in 1..t - 1 : tasks[u].step \notin {"queued"} \cup Background
    /\ \/ ~tasks[t].cancelled /\ Goes(t, "queued", "connecting")
       \/ tasks[t].cancelled /\ Goes(t, "queued", "over")
    /\ UNCHANGED sent

\* The request is written.  Cancelling the task does not prevent it: neither
\* connect nor the streams of a socket can be interrupted.
Write(t) ==
    /\ Goes(t, "connecting", "reading")
    /\ sent' = tasks[t].job

\* No connection, no complete response in time, or one that is not a success.
Fail(t) ==
    /\ \/ Goes(t, "connecting", "failed")
       \/ Goes(t, "reading", "failed")
    /\ UNCHANGED sent

Succeed(t) ==
    /\ Goes(t, "reading", "succeeded")
    /\ UNCHANGED sent

doInBackground(t) ==
    /\ \/ Begin(t)
       \/ Write(t)
       \/ Fail(t)
       \/ Succeed(t)
    /\ UNCHANGED <<token, answers, calls, jobVars, mRegisterTask, finished,
                   acknowledged, failed, mishaps>>

\* Task t belongs to the run of the job that the system knows of.
IsCurrent(t) ==
    /\ executing
    /\ t = mRegisterTask
    /\ active = tasks[t].job

\* Mutant of jobFinished: a failed job is not finished.
jobFinishedIfSuccess(t, success) ==
    /\ finished' = t
    /\ IF success /\ IsCurrent(t) THEN JobEnds(FALSE) ELSE UNCHANGED jobVars

\* jobFinished(params, false), which the system heeds for the current run only.
jobFinished(t, success) ==
    /\ finished' = t
    /\ IF IsCurrent(t) THEN JobEnds(FALSE) ELSE UNCHANGED jobVars

\* The main thread gets the results in the order of the tasks.  A cancelled
\* task's goes to onCancelled, which does nothing.
onPostExecute(t) ==
    /\ tasks[t].step \in Posted
    /\ \A u \in 1..t - 1 : tasks[u].step = "over"
    /\ tasks' = [tasks EXCEPT ![t].step = "over"]
    /\ \/ /\ tasks[t].cancelled
          /\ UNCHANGED <<jobVars, finished, acknowledged, failed>>
       \/ /\ ~tasks[t].cancelled
          /\ tasks[t].step = "succeeded"
          /\ jobFinished(t, TRUE)
          /\ acknowledged' = acknowledged \cup {tasks[t].job}
          /\ UNCHANGED failed
       \/ /\ ~tasks[t].cancelled
          /\ tasks[t].step = "failed"
          /\ jobFinished(t, FALSE)
          /\ failed' = failed \cup {tasks[t].job}
          /\ UNCHANGED acknowledged
    /\ UNCHANGED <<token, answers, calls, mRegisterTask, sent, mishaps>>

-----------------------------------------------------------------------------
(* The end of the process.                                                 *)

\* Nothing in the process is left.
ProcessEnds ==
    /\ tasks' = [t \in 1..Len(tasks) |-> [tasks[t] EXCEPT !.step = "over"]]
    /\ mRegisterTask' = 0
    /\ answers' = <<>>
    /\ UNCHANGED <<token, calls, sent, finished, acknowledged, failed>>

\* A job that was active is retried.
ProcessDies ==
    /\ ProcessEnds
    /\ JobEnds(active # 0)
    /\ UNCHANGED mishaps

\* The job is not a persisted one: it does not survive a restart.
DeviceRestarts ==
    /\ pending # 0 \/ active # 0
    /\ ProcessEnds
    /\ pending' = 0
    /\ active' = 0
    /\ executing' = FALSE
    /\ stopping' = FALSE
    /\ mishaps' = mishaps \cup {"restart"}

-----------------------------------------------------------------------------

MainThread ==
    \/ onStartJob
    \/ onStopJob
    \/ \E t \in 1..Len(tasks) : onPostExecute(t)

Executor == \E t \in 1..Len(tasks) : doInBackground(t)

Next ==
    \/ OnNewToken
    \/ RegisterWithHomeMonitor
    \/ OnComplete
    \/ StartJob
    \/ StopJob
    \/ StopUnstarted
    \/ MainThread
    \/ Executor
    \/ ProcessDies
    \/ DeviceRestarts

Spec == Init /\ [][Next]_vars

\* The main thread takes its callbacks, and the executor gets on: connect and
\* read have a timeout.  Nothing is assumed of the user, the messaging service
\* and the job scheduler.
Fairness ==
    /\ WF_vars(MainThread)
    /\ WF_vars(Executor)

FairSpec == Spec /\ Fairness

-----------------------------------------------------------------------------
(* Properties.                                                             *)

Token(job) == IF job = 0 THEN 0 ELSE calls[job]

\* The server is never sent an older token after a newer one: not by a task
\* that was stopped and goes on, not by a job that is retried, not by one that
\* died with its process (RegisterNewClientJob.java 188, 193-199, 201-215).
\* The exception is a menu request that got its token before a newer one came
\* and schedules it after.
TokensSentInOrder ==
    [][sent' # sent =>
          Token(sent') >= Token(sent) \/ "lateAnswer" \in mishaps]_vars

\* The last call of sendRegistrationToServer is not forgotten: its job waits,
\* or runs, or has ended with an answer or an error, whatever was stopped,
\* replaced or killed in between.  A restart of the device forgets it.
NoCallForgotten ==
    LET last == Len(calls) IN
        last # 0 => \/ last \in {pending, active} \cup acknowledged \cup failed
                    \/ "restart" \in mishaps

\* jobFinished is called for the job that is running, in the run that is
\* current, and never after its onStopJob: cancel() keeps the result of a
\* stopped task away from it (RegisterNewClientJob.java 181-186, 197).
FinishIsCurrent ==
    [][finished' # finished => IsCurrent(finished')]_vars

\* A job that runs comes to its end: each way out of doInBackground leads to
\* jobFinished, and each stop to an answer.
EveryJobEnds == active # 0 ~> active = 0

=============================================================================
