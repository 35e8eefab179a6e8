---------------------- MODULE RegisterNewClientJob_proof ----------------------
(***************************************************************************)
(* Proofs about RegisterNewClientJob: tokens are sent in order, a job is   *)
(* finished by the task of its current run only, and no call is forgotten. *)
(***************************************************************************)
EXTENDS RegisterNewClientJob, TLAPS

\* Tasks that have not written their request yet.
Unsent == {"queued", "connecting"}

\* Jobs and tasks are in the order of the calls: a task belongs to a call that
\* is no younger than the job that runs, which is older than the one that
\* waits; what has been sent is no younger than what is still to be sent.
OrderInv ==
    /\ active # 0 /\ pending # 0 => active < pending
    /\ active # 0 => sent <= active
    /\ pending # 0 => sent <= pending
    /\ \A t \in 1..Len(tasks) :
          /\ active # 0 => tasks[t].job <= active
          /\ pending # 0 => tasks[t].job <= pending
          /\ tasks[t].step \in Unsent => sent <= tasks[t].job
    /\ \A t, u \in 1..Len(tasks) :
          t < u => tasks[t].job <= tasks[u].job

\* The executor is serial: the tasks before one that has begun have left it.
SerialInv ==
    \A t, u \in 1..Len(tasks) :
        t < u /\ tasks[u].step # "queued"
            => tasks[t].step \notin {"queued"} \cup Background

\* A task whose result will be looked at belongs to the current run.
RunInv ==
    /\ executing => active # 0 /\ mRegisterTask # 0
    /\ \A t \in 1..Len(tasks) :
          ~tasks[t].cancelled /\ tasks[t].step # "over" => IsCurrent(t)

\* Tokens are scheduled in the order they were issued, menu requests apart.
TokenInv ==
    /\ \A i \in 1..Len(answers) : answers[i] <= token
    /\ \A i \in 1..Len(calls) : calls[i] <= token
    /\ \/ "lateAnswer" \in mishaps
       \/ \A i, j \in 1..Len(calls) : i < j => calls[i] <= calls[j]

IInv ==
    /\ TypeOK
    /\ OrderInv
    /\ SerialInv
    /\ RunInv
    /\ TokenInv
    /\ NoCallForgotten

USE BoundsAssumption

-----------------------------------------------------------------------------
(* Sequences.                                                              *)

\* The elements of a sequence, and of the sequence that Append makes of it.
LEMMA AppendFacts ==
    ASSUME NEW S, NEW s \in Seq(S), NEW e \in S
    PROVE  /\ Append(s, e) \in Seq(S)
           /\ Len(Append(s, e)) = Len(s) + 1
           /\ \A i \in 1..Len(s) : Append(s, e)[i] = s[i]
           /\ Append(s, e)[Len(s) + 1] = e
           /\ Len(s) \in Nat
OBVIOUS

\* The tasks, as a function of their numbers.
LEMMA TaskFacts ==
    ASSUME TypeOK, NEW t \in 1..Len(tasks)
    PROVE  /\ tasks[t] \in Task
           /\ tasks[t].job \in 1..Len(calls)
           /\ tasks[t].step \in Steps
           /\ tasks[t].cancelled \in BOOLEAN
           /\ Len(tasks) \in Nat
           /\ Len(calls) \in Nat
<1>1. tasks[t] \in Task
  BY DEF TypeOK
<1> QED
  BY <1>1 DEF TypeOK, Task

\* A task goes from one step to another, and nothing else about it changes.
LEMMA GoesFacts ==
    ASSUME TypeOK, NEW t \in 1..Len(tasks), NEW from, NEW to \in Steps,
           Goes(t, from, to)
    PROVE  /\ tasks[t].step = from
           /\ tasks' \in Seq(Task)
           /\ Len(tasks') = Len(tasks)
           /\ tasks'[t].step = to
           /\ \A u \in 1..Len(tasks) :
                 /\ tasks'[u].job = tasks[u].job
                 /\ tasks'[u].cancelled = tasks[u].cancelled
                 /\ u # t => tasks'[u].step = tasks[u].step
<1>1. \A u \in 1..Len(tasks) : tasks[u] \in Task
  BY TaskFacts
<1>2. tasks' = [tasks EXCEPT ![t].step = to]
  BY DEF Goes
<1>3. /\ DOMAIN tasks = 1..Len(tasks)
      /\ Len(tasks) \in Nat
  BY DEF TypeOK
<1>4. tasks' = [u \in 1..Len(tasks) |->
                  IF u = t THEN [tasks[t] EXCEPT !.step = to] ELSE tasks[u]]
  BY <1>2, <1>3
<1>5. \A u \in 1..Len(tasks) : tasks'[u] \in Task
  BY <1>1, <1>4 DEF Task
<1>6. tasks' \in Seq(Task) /\ Len(tasks') = Len(tasks)
  BY <1>3, <1>4, <1>5
<1>7. \A u \in 1..Len(tasks) :
         /\ tasks'[u].job = tasks[u].job
         /\ tasks'[u].cancelled = tasks[u].cancelled
         /\ u # t => tasks'[u].step = tasks[u].step
  BY <1>1, <1>4 DEF Task
<1> QED
  BY <1>1, <1>4, <1>6, <1>7 DEF Goes, Task

\* Every task keeps its job and its step, and one may be cancelled.
LEMMA CancelFacts ==
    ASSUME TypeOK,
           tasks' = [t \in 1..Len(tasks) |->
                       [tasks[t] EXCEPT !.cancelled = @ \/ t = mRegisterTask]]
    PROVE  /\ tasks' \in Seq(Task)
           /\ Len(tasks') = Len(tasks)
           /\ \A t \in 1..Len(tasks) :
                 /\ tasks'[t].job = tasks[t].job
                 /\ tasks'[t].step = tasks[t].step
                 /\ tasks'[t].cancelled <=> \/ tasks[t].cancelled
                                           \/ t = mRegisterTask
<1>1. \A t \in 1..Len(tasks) : tasks[t] \in Task
  BY TaskFacts
<1>2. Len(tasks) \in Nat
  BY DEF TypeOK
<1>3. \A t \in 1..Len(tasks) : tasks'[t] \in Task
  BY <1>1 DEF Task
<1>4. tasks' \in Seq(Task) /\ Len(tasks') = Len(tasks)
  BY <1>2, <1>3
<1> QED
  BY <1>1, <1>4 DEF Task

\* At the end of the process every task keeps its job, and is over.
LEMMA EndFacts ==
    ASSUME TypeOK, ProcessEnds
    PROVE  /\ tasks' \in Seq(Task)
           /\ Len(tasks') = Len(tasks)
           /\ \A t \in 1..Len(tasks) :
                 /\ tasks'[t].job = tasks[t].job
                 /\ tasks'[t].step = "over"
<1>1. \A t \in 1..Len(tasks) : tasks[t] \in Task
  BY TaskFacts
<1>2. /\ Len(tasks) \in Nat
      /\ tasks' = [t \in 1..Len(tasks) |->
                      [tasks[t] EXCEPT !.step = "over"]]
  BY DEF TypeOK, ProcessEnds
<1>3. \A t \in 1..Len(tasks) : tasks'[t] \in Task
  BY <1>1, <1>2 DEF Task, Steps
<1>4. tasks' \in Seq(Task) /\ Len(tasks') = Len(tasks)
  BY <1>2, <1>3
<1> QED
  BY <1>1, <1>2, <1>4 DEF Task

\* onStartJob adds a task for the active job, and keeps the others.
LEMMA StartFacts ==
    ASSUME TypeOK, onStartJob
    PROVE  /\ active \in 1..Len(calls)
           /\ tasks' \in Seq(Task)
           /\ Len(tasks') = Len(tasks) + 1
           /\ mRegisterTask' = Len(tasks')
           /\ \A t \in 1..Len(tasks) : tasks'[t] = tasks[t]
           /\ tasks'[Len(tasks')].job = active
           /\ tasks'[Len(tasks')].step = "queued"
           /\ tasks'[Len(tasks')].cancelled = FALSE
<1> DEFINE new == [job |-> active, step |-> "queued", cancelled |-> FALSE]
<1>1. active \in 1..Len(calls) /\ new \in Task
  BY DEF TypeOK, onStartJob, Task, Steps
<1>2. tasks' = Append(tasks, new) /\ mRegisterTask' = Len(tasks')
  BY DEF onStartJob
<1> HIDE DEF new
<1>3. /\ tasks' \in Seq(Task)
      /\ Len(tasks') = Len(tasks) + 1
      /\ \A t \in 1..Len(tasks) : tasks'[t] = tasks[t]
      /\ tasks'[Len(tasks')] = new
  BY <1>1, <1>2, AppendFacts DEF TypeOK
<1> QED
  BY <1>1, <1>2, <1>3 DEF new

\* A call of sendRegistrationToServer adds its token to the calls.
LEMMA SendFacts ==
    ASSUME TypeOK, NEW t \in Nat, sendRegistrationToServer(t)
    PROVE  /\ calls' \in Seq(Nat)
           /\ Len(calls) \in Nat
           /\ Len(calls') = Len(calls) + 1
           /\ \A i \in 1..Len(calls) : calls'[i] = calls[i]
           /\ calls'[Len(calls')] = t
           /\ pending' = Len(calls')
<1>1. calls \in Seq(Nat)
  BY DEF TypeOK
<1>2. calls' = Append(calls, t) /\ pending' = Len(calls) + 1
  BY DEF sendRegistrationToServer
<1>3. /\ calls' \in Seq(Nat)
      /\ Len(calls') = Len(calls) + 1
      /\ \A i \in 1..Len(calls) : calls'[i] = calls[i]
      /\ calls'[Len(calls) + 1] = t
      /\ Len(calls) \in Nat
  BY <1>1, <1>2, AppendFacts
<1> QED
  BY <1>2, <1>3

\* The result that onComplete gets is one of those on their way.
LEMMA AnswerFacts ==
    ASSUME TypeOK, OnComplete
    PROVE  /\ Len(answers) \in Nat \ {0}
           /\ Head(answers) = answers[1]
           /\ Head(answers) \in Nat
           /\ answers' \in Seq(Nat)
           /\ Len(answers') = Len(answers) - 1
           /\ \A i \in 1..Len(answers') : answers'[i] = answers[i + 1]
<1>1. answers \in Seq(Nat) /\ answers # <<>> /\ answers' = Tail(answers)
  BY DEF TypeOK, OnComplete
<1>2. Len(answers) \in Nat \ {0}
  BY <1>1
<1>3. Head(answers) = answers[1] /\ answers[1] \in Nat
  BY <1>1, <1>2
<1>4. answers' \in Seq(Nat) /\ Len(answers') = Len(answers) - 1
  BY <1>1, <1>2
<1>5. \A i \in 1..Len(answers') : answers'[i] = answers[i + 1]
  BY <1>1, <1>2, <1>4
<1> QED
  BY <1>2, <1>3, <1>4, <1>5

-----------------------------------------------------------------------------
(* Types.                                                                  *)

\* The initial state has its types.
LEMMA InitTypeOK == Init => TypeOK
<1> SUFFICES ASSUME Init PROVE TypeOK
  OBVIOUS
<1>1. /\ Len(calls) = 0 /\ Len(tasks) = 0
      /\ answers \in Seq(Nat) /\ calls \in Seq(Nat) /\ tasks \in Seq(Task)
  BY DEF Init
<1>2. \A t \in 1..Len(tasks) : tasks[t].job \in 1..Len(calls)
  BY <1>1
<1>3. /\ pending \in 0..Len(calls) /\ active \in 0..Len(calls)
      /\ mRegisterTask \in 0..Len(tasks) /\ finished \in 0..Len(tasks)
      /\ sent \in 0..Len(calls) /\ token \in Nat
  BY <1>1 DEF Init
<1>4. executing \in BOOLEAN /\ stopping \in BOOLEAN
  BY DEF Init
<1> QED
  BY <1>1, <1>2, <1>3, <1>4 DEF Init, TypeOK

\* A new call keeps the types.
LEMMA SendTypeOK ==
    ASSUME TypeOK, NEW t \in Nat, sendRegistrationToServer(t),
           token' \in Nat, answers' \in Seq(Nat), mishaps' \in SUBSET Mishaps,
           UNCHANGED <<sent, finished, acknowledged, failed>>
    PROVE  TypeOK'
<1>1. /\ calls' \in Seq(Nat) /\ Len(calls) \in Nat
      /\ Len(calls') = Len(calls) + 1
      /\ pending' = Len(calls')
  BY SendFacts
<1>2. UNCHANGED <<active, executing, tasks, mRegisterTask>>
  BY DEF sendRegistrationToServer, taskVars
<1>3. stopping' \in BOOLEAN /\ executing' \in BOOLEAN
  BY <1>2 DEF sendRegistrationToServer, TypeOK
<1>4. /\ pending' \in 0..Len(calls') /\ active' \in 0..Len(calls')
      /\ sent' \in 0..Len(calls')
      /\ 1..Len(calls) \subseteq 1..Len(calls')
  BY <1>1, <1>2 DEF TypeOK
<1>5. /\ tasks' \in Seq(Task)
      /\ \A u \in 1..Len(tasks') : tasks'[u].job \in 1..Len(calls')
  BY <1>2, <1>4 DEF TypeOK
<1>6. mRegisterTask' \in 0..Len(tasks') /\ finished' \in 0..Len(tasks')
  BY <1>2 DEF TypeOK
<1>7. /\ acknowledged' \in SUBSET (1..Len(calls'))
      /\ failed' \in SUBSET (1..Len(calls'))
  BY <1>4 DEF TypeOK
<1> QED
  BY <1>1, <1>3, <1>4, <1>5, <1>6, <1>7 DEF TypeOK

\* The end of a job keeps the types of the job's variables.
LEMMA JobEndsTypeOK ==
    ASSUME TypeOK, NEW retry \in BOOLEAN, JobEnds(retry)
    PROVE  /\ pending' \in 0..Len(calls)
           /\ active' \in 0..Len(calls)
           /\ executing' \in BOOLEAN
           /\ stopping' \in BOOLEAN
<1>1. Len(calls) \in Nat
  BY DEF TypeOK
<1>2. pending \in 0..Len(calls) /\ active \in 0..Len(calls)
  BY DEF TypeOK
<1>3. pending' = active \/ pending' = pending
  BY DEF JobEnds
<1>4. active' = 0
  BY DEF JobEnds
<1>5. executing' \in BOOLEAN /\ stopping' \in BOOLEAN
  BY DEF JobEnds
<1>6. pending' \in 0..Len(calls) /\ active' \in 0..Len(calls)
  BY <1>1, <1>2, <1>3, <1>4
<1> QED
  BY <1>5, <1>6

\* Every step keeps the types.
LEMMA StepTypeOK == TypeOK /\ [Next]_vars => TypeOK'
<1> SUFFICES ASSUME TypeOK, [Next]_vars PROVE TypeOK'
  OBVIOUS
<1> USE DEF jobVars, taskVars, historyVars
<1>1. CASE OnNewToken
  <2>1. token' \in Nat /\ sendRegistrationToServer(token')
    BY <1>1 DEF OnNewToken, TypeOK
  <2>2. SUFFICES ASSUME NEW t \in Nat, t = token' PROVE TypeOK'
    BY <2>1
  <2> QED
    BY <1>1, <2>1, <2>2, SendTypeOK DEF OnNewToken, TypeOK
<1>2. CASE RegisterWithHomeMonitor
  <2>1. PICK t \in {0, token} : answers' = Append(answers, t)
    BY <1>2 DEF RegisterWithHomeMonitor
  <2>2. answers' \in Seq(Nat)
    BY <2>1, AppendFacts DEF TypeOK
  <2> QED
    BY <1>2, <2>2 DEF RegisterWithHomeMonitor, TypeOK
<1>3. CASE OnComplete
  <2>1. Head(answers) \in Nat /\ answers' \in Seq(Nat)
    BY <1>3, AnswerFacts
  <2>2. mishaps' \in SUBSET Mishaps
    BY <1>3 DEF OnComplete, TypeOK, Mishaps
  <2>3. CASE Head(answers) = 0
    BY <1>3, <2>1, <2>2, <2>3 DEF OnComplete, TypeOK
  <2>4. CASE Head(answers) # 0
    BY <1>3, <2>1, <2>2, <2>4, SendTypeOK DEF OnComplete, TypeOK
  <2> QED
    BY <2>3, <2>4
<1>4. CASE StartJob
  BY <1>4 DEF StartJob, TypeOK
<1>5. CASE StopJob
  BY <1>5 DEF StopJob, TypeOK
<1>6. CASE onStartJob
  <2>1. /\ tasks' \in Seq(Task)
        /\ Len(tasks) \in Nat
        /\ Len(tasks') = Len(tasks) + 1
        /\ mRegisterTask' = Len(tasks')
    <3>1. Len(tasks) \in Nat
      BY DEF TypeOK
    <3> QED
      BY <1>6, <3>1, StartFacts
  <2>2. \A t \in 1..Len(tasks') : tasks'[t].job \in 1..Len(calls)
    <3>1. \A t \in 1..Len(tasks) : tasks[t].job \in 1..Len(calls)
      BY DEF TypeOK
    <3> QED
      BY <1>6, <2>1, <3>1, StartFacts
  <2> QED
    BY <1>6, <2>1, <2>2 DEF onStartJob, TypeOK
<1>7. CASE onStopJob
  <2>1. /\ tasks' \in Seq(Task) /\ Len(tasks') = Len(tasks)
        /\ \A t \in 1..Len(tasks) : tasks'[t].job = tasks[t].job
    BY <1>7, CancelFacts DEF onStopJob
  <2>2. /\ pending' \in 0..Len(calls) /\ active' \in 0..Len(calls)
        /\ executing' \in BOOLEAN /\ stopping' \in BOOLEAN
    BY <1>7, JobEndsTypeOK DEF onStopJob
  <2> QED
    BY <1>7, <2>1, <2>2 DEF onStopJob, TypeOK
<1>8. ASSUME NEW t \in 1..Len(tasks), onPostExecute(t)
      PROVE  TypeOK'
  <2>1. Goes(t, tasks[t].step, "over") /\ "over" \in Steps
    BY <1>8 DEF onPostExecute, Goes, Steps
  <2>2. /\ tasks' \in Seq(Task) /\ Len(tasks') = Len(tasks)
        /\ \A u \in 1..Len(tasks) : tasks'[u].job = tasks[u].job
    BY <2>1, GoesFacts
  <2>3. /\ pending' \in 0..Len(calls) /\ active' \in 0..Len(calls)
        /\ executing' \in BOOLEAN /\ stopping' \in BOOLEAN
    BY <1>8, JobEndsTypeOK DEF onPostExecute, jobFinished, TypeOK
  <2>4. /\ finished' \in 0..Len(tasks)
        /\ acknowledged' \in SUBSET (1..Len(calls))
        /\ failed' \in SUBSET (1..Len(calls))
    <3>1. tasks[t].job \in 1..Len(calls) /\ Len(tasks) \in Nat
      BY <1>8 DEF TypeOK
    <3>2. finished' \in {finished, t}
      BY <1>8 DEF onPostExecute, jobFinished
    <3>3. /\ acknowledged' \subseteq acknowledged \cup {tasks[t].job}
          /\ failed' \subseteq failed \cup {tasks[t].job}
      BY <1>8 DEF onPostExecute
    <3> QED
      BY <3>1, <3>2, <3>3 DEF TypeOK
  <2>5. UNCHANGED <<token, answers, calls, mRegisterTask, sent, mishaps>>
    BY <1>8 DEF onPostExecute
  <2>6. /\ token' \in Nat /\ answers' \in Seq(Nat) /\ calls' \in Seq(Nat)
        /\ mishaps' \in SUBSET Mishaps
    BY <2>5 DEF TypeOK
  <2>7. \A u \in 1..Len(tasks') : tasks'[u].job \in 1..Len(calls')
    BY <2>2, <2>5 DEF TypeOK
  <2>8. mRegisterTask' \in 0..Len(tasks') /\ sent' \in 0..Len(calls')
    BY <2>2, <2>5 DEF TypeOK
  <2> QED
    BY <2>2, <2>3, <2>4, <2>5, <2>6, <2>7, <2>8 DEF TypeOK
<1>9. ASSUME NEW t \in 1..Len(tasks), doInBackground(t)
      PROVE  TypeOK'
  <2>1. PICK from, to \in Steps : Goes(t, from, to)
    BY <1>9 DEF doInBackground, Begin, Write, Fail, Succeed, Steps, Posted,
       Background
  <2>2. /\ tasks' \in Seq(Task) /\ Len(tasks') = Len(tasks)
        /\ \A u \in 1..Len(tasks) : tasks'[u].job = tasks[u].job
    BY <2>1, GoesFacts
  <2>3. sent' \in 0..Len(calls)
    BY <1>9, TaskFacts DEF doInBackground, Begin, Write, Fail, Succeed, TypeOK
  <2> QED
    BY <1>9, <2>2, <2>3 DEF doInBackground, TypeOK
<1>10. CASE ProcessDies \/ DeviceRestarts
  <2>1. /\ tasks' \in Seq(Task) /\ Len(tasks') = Len(tasks)
        /\ \A u \in 1..Len(tasks) : tasks'[u].job = tasks[u].job
    BY <1>10, EndFacts DEF ProcessDies, DeviceRestarts
  <2>2. /\ pending' \in 0..Len(calls) /\ active' \in 0..Len(calls)
        /\ executing' \in BOOLEAN /\ stopping' \in BOOLEAN
        /\ mishaps' \in SUBSET Mishaps
    <3>1. CASE ProcessDies
      <4>1. JobEnds(active # 0) /\ UNCHANGED mishaps
        BY <3>1 DEF ProcessDies
      <4> QED
        BY <4>1, JobEndsTypeOK DEF TypeOK
    <3>2. CASE DeviceRestarts
      <4>1. Len(calls) \in Nat
        BY DEF TypeOK
      <4>2. pending' \in 0..Len(calls) /\ active' \in 0..Len(calls)
        BY <3>2, <4>1 DEF DeviceRestarts
      <4>3. executing' \in BOOLEAN /\ stopping' \in BOOLEAN
        BY <3>2 DEF DeviceRestarts
      <4>4. mishaps' \in SUBSET Mishaps
        BY <3>2 DEF DeviceRestarts, TypeOK, Mishaps
      <4> QED
        BY <4>2, <4>3, <4>4
    <3> QED
      BY <1>10, <3>1, <3>2
  <2> QED
    <3>1. /\ UNCHANGED <<token, calls, sent, finished, acknowledged, failed>>
          /\ answers' = <<>> /\ mRegisterTask' = 0
      BY <1>10 DEF ProcessDies, DeviceRestarts, ProcessEnds
    <3>2. /\ \A u \in 1..Len(tasks) : tasks[u].job \in 1..Len(calls)
          /\ Len(tasks) \in Nat
      BY DEF TypeOK
    <3>3. answers' \in Seq(Nat) /\ mRegisterTask' \in 0..Len(tasks)
      BY <3>1, <3>2
    <3>4. \A u \in 1..Len(tasks') : tasks'[u].job \in 1..Len(calls')
      BY <2>1, <3>1, <3>2
    <3> QED
      BY <2>1, <2>2, <3>1, <3>3, <3>4 DEF TypeOK
<1>11. CASE UNCHANGED vars
  BY <1>11 DEF vars, TypeOK
<1>12. CASE StopUnstarted
  <2>1. /\ pending' \in 0..Len(calls) /\ active' \in 0..Len(calls)
        /\ executing' \in BOOLEAN /\ stopping' \in BOOLEAN
    BY <1>12, JobEndsTypeOK DEF StopUnstarted
  <2> QED
    BY <1>12, <2>1 DEF StopUnstarted, TypeOK
<1> QED
  BY <1>1, <1>2, <1>3, <1>4, <1>5, <1>6, <1>7, <1>8, <1>9, <1>10, <1>11,
     <1>12
  DEF Next, MainThread, Executor

-----------------------------------------------------------------------------
(* The order of the jobs.                                                  *)

\* What the order of the jobs says of two tasks and of the jobs.
LEMMA InitOrderInv == Init => OrderInv
<1> SUFFICES ASSUME Init PROVE OrderInv
  OBVIOUS
<1>1. Len(tasks) = 0 /\ active = 0 /\ pending = 0
  BY DEF Init
<1> QED
  BY <1>1 DEF OrderInv

\* The order does not depend on more than these variables.
LEMMA QuietOrderInv ==
    ASSUME OrderInv, UNCHANGED <<pending, active, tasks, sent>>
    PROVE  OrderInv'
BY DEF OrderInv

\* It survives tasks that keep their job and do not go back.
LEMMA TasksOrderInv ==
    ASSUME OrderInv, UNCHANGED <<pending, active, sent>>,
           Len(tasks') = Len(tasks),
           \A t \in 1..Len(tasks) :
              /\ tasks'[t].job = tasks[t].job
              /\ tasks'[t].step \in Unsent => tasks[t].step \in Unsent
    PROVE  OrderInv'
BY DEF OrderInv

\* It survives the end of the active job, which may wait again.
LEMMA JobEndsOrderInv ==
    ASSUME TypeOK, OrderInv, UNCHANGED sent,
           Len(tasks') = Len(tasks),
           \A t \in 1..Len(tasks) :
              /\ tasks'[t].job = tasks[t].job
              /\ tasks'[t].step \in Unsent => tasks[t].step \in Unsent,
           active' = 0,
           \/ pending' = pending
           \/ pending = 0 /\ pending' = active
           \/ pending' = 0
    PROVE  OrderInv'
BY DEF OrderInv

\* It survives a new call: its job is younger than all others.
LEMMA SendOrderInv ==
    ASSUME TypeOK, OrderInv, NEW t \in Nat, sendRegistrationToServer(t),
           UNCHANGED sent
    PROVE  OrderInv'
<1>1. /\ pending' = Len(calls) + 1
      /\ UNCHANGED <<active, tasks>>
  BY DEF sendRegistrationToServer, taskVars
<1>2. /\ Len(calls) \in Nat
      /\ active \in 0..Len(calls) /\ sent \in 0..Len(calls)
      /\ \A u \in 1..Len(tasks) : tasks[u].job \in 1..Len(calls)
  BY DEF TypeOK
<1> QED
  BY <1>1, <1>2 DEF OrderInv

\* Every step keeps the order.
LEMMA StepOrderInv ==
    TypeOK /\ OrderInv /\ SerialInv /\ [Next]_vars => OrderInv'
<1> SUFFICES ASSUME TypeOK, OrderInv, SerialInv, [Next]_vars
             PROVE  OrderInv'
  OBVIOUS
<1> USE DEF jobVars, taskVars, historyVars
<1>1. CASE OnNewToken
  <2>1. token' \in Nat /\ sendRegistrationToServer(token') /\ UNCHANGED sent
    BY <1>1 DEF OnNewToken, TypeOK
  <2>2. SUFFICES ASSUME NEW t \in Nat, t = token' PROVE OrderInv'
    BY <2>1
  <2> QED
    BY <2>1, <2>2, SendOrderInv
<1>2. CASE RegisterWithHomeMonitor \/ StopJob \/ UNCHANGED vars
  BY <1>2, QuietOrderInv DEF RegisterWithHomeMonitor, StopJob, vars
<1>3. CASE OnComplete
  <2>1. CASE Head(answers) = 0
    BY <1>3, <2>1, QuietOrderInv DEF OnComplete
  <2>2. CASE Head(answers) # 0
    BY <1>3, <2>2, SendOrderInv, AnswerFacts DEF OnComplete
  <2> QED
    BY <2>1, <2>2
<1>4. CASE StartJob
  BY <1>4 DEF StartJob, OrderInv
<1>5. CASE onStartJob
  <2>1. UNCHANGED <<pending, active, sent>>
    BY <1>5 DEF onStartJob
  <2>2. /\ Len(tasks) \in Nat /\ Len(tasks') = Len(tasks) + 1
        /\ \A t \in 1..Len(tasks) : tasks'[t] = tasks[t]
        /\ tasks'[Len(tasks')].job = active
        /\ active # 0
    <3>1. Len(tasks) \in Nat
      BY DEF TypeOK
    <3> QED
      BY <1>5, <3>1, StartFacts
  <2>3. /\ pending \in Nat /\ active \in Nat /\ sent \in Nat
        /\ \A t \in 1..Len(tasks) : tasks[t].job \in Nat
    BY DEF TypeOK
  <2>4. \A t \in 1..Len(tasks') :
           \/ t \in 1..Len(tasks) /\ tasks'[t] = tasks[t]
           \/ t = Len(tasks') /\ tasks'[t].job = active
    BY <2>2
  <2>5. \A t \in 1..Len(tasks') :
           /\ tasks'[t].job <= active
           /\ pending # 0 => tasks'[t].job <= pending
           /\ tasks'[t].step \in Unsent => sent <= tasks'[t].job
    BY <2>2, <2>3, <2>4 DEF OrderInv
  <2>6. \A t, u \in 1..Len(tasks') :
           t < u => tasks'[t].job <= tasks'[u].job
    BY <2>2, <2>3, <2>4, <2>5 DEF OrderInv
  <2>7. /\ active # 0 /\ pending # 0 => active < pending
        /\ active # 0 => sent <= active
        /\ pending # 0 => sent <= pending
    BY DEF OrderInv
  <2> QED
    BY <2>1, <2>5, <2>6, <2>7 DEF OrderInv
<1>6. CASE onStopJob
  BY <1>6, CancelFacts, JobEndsOrderInv DEF onStopJob, JobEnds
<1>7. ASSUME NEW t \in 1..Len(tasks), onPostExecute(t)
      PROVE  OrderInv'
  <2>1. Goes(t, tasks[t].step, "over") /\ "over" \in Steps
    BY <1>7 DEF onPostExecute, Goes, Steps
  <2>2. /\ Len(tasks') = Len(tasks)
        /\ \A u \in 1..Len(tasks) :
              /\ tasks'[u].job = tasks[u].job
              /\ tasks'[u].step \in Unsent => tasks[u].step \in Unsent
    BY <2>1, GoesFacts DEF Unsent
  <2>3. UNCHANGED sent
    BY <1>7 DEF onPostExecute
  <2>4. CASE UNCHANGED <<pending, active>>
    BY <2>2, <2>3, <2>4, TasksOrderInv
  <2>5. CASE JobEnds(FALSE)
    BY <2>2, <2>3, <2>5, JobEndsOrderInv DEF JobEnds
  <2> QED
    BY <1>7, <2>4, <2>5 DEF onPostExecute, jobFinished
<1>8. ASSUME NEW t \in 1..Len(tasks), Write(t), UNCHANGED <<pending, active>>
      PROVE  OrderInv'
  <2>1. /\ tasks[t].step = "connecting"
        /\ Len(tasks') = Len(tasks)
        /\ tasks'[t].step = "reading"
        /\ \A u \in 1..Len(tasks) :
              /\ tasks'[u].job = tasks[u].job
              /\ u # t => tasks'[u].step = tasks[u].step
    BY <1>8, GoesFacts DEF Write, Steps, Background
  <2>2. /\ Len(tasks) \in Nat
        /\ \A u \in 1..Len(tasks) : tasks[u].job \in Nat
        /\ sent' = tasks[t].job
    BY <1>8 DEF TypeOK, Write
  <2>3. \A u \in 1..Len(tasks) :
           tasks'[u].step \in Unsent => sent' <= tasks[u].job
    <3> SUFFICES ASSUME NEW u \in 1..Len(tasks), tasks'[u].step \in Unsent
                 PROVE  sent' <= tasks[u].job
      OBVIOUS
    <3>1. u # t
      BY <2>1 DEF Unsent
    <3>2. ~(u < t)
      BY <2>1, <3>1 DEF SerialInv, Unsent, Background
    <3>3. t < u
      BY <2>2, <3>1, <3>2
    <3> QED
      BY <2>2, <3>3 DEF OrderInv
  <2> QED
    BY <1>8, <2>1, <2>2, <2>3 DEF OrderInv
<1>9. ASSUME NEW t \in 1..Len(tasks), doInBackground(t)
      PROVE  OrderInv'
  <2>1. UNCHANGED <<pending, active>>
    BY <1>9 DEF doInBackground
  <2>2. CASE Write(t)
    BY <1>8, <2>1, <2>2
  <2>3. CASE Begin(t) \/ Fail(t) \/ Succeed(t)
    <3>1. PICK from, to \in Steps :
             Goes(t, from, to) /\ (to \in Unsent => from \in Unsent)
      BY <2>3 DEF Begin, Fail, Succeed, Steps, Posted, Background, Unsent
    <3>2. UNCHANGED sent
      BY <2>3 DEF Begin, Fail, Succeed
    <3> QED
      BY <2>1, <3>1, <3>2, GoesFacts, TasksOrderInv
  <2> QED
    BY <1>9, <2>2, <2>3 DEF doInBackground
<1>10. CASE ProcessDies \/ DeviceRestarts
  <2>1. /\ Len(tasks') = Len(tasks)
        /\ \A t \in 1..Len(tasks) :
              /\ tasks'[t].job = tasks[t].job
              /\ tasks'[t].step \notin Unsent
    BY <1>10, EndFacts DEF ProcessDies, DeviceRestarts, Unsent
  <2>2. UNCHANGED sent
    BY <1>10 DEF ProcessDies, DeviceRestarts, ProcessEnds
  <2>3. /\ active' = 0
        /\ \/ pending' = pending
           \/ pending = 0 /\ pending' = active
           \/ pending' = 0
    BY <1>10 DEF ProcessDies, DeviceRestarts, JobEnds
  <2> QED
    BY <2>1, <2>2, <2>3, JobEndsOrderInv
<1>11. CASE StopUnstarted
  BY <1>11, JobEndsOrderInv DEF StopUnstarted, JobEnds
<1> QED
  BY <1>1, <1>2, <1>3, <1>4, <1>5, <1>6, <1>7, <1>9, <1>10,
     <1>11
  DEF Next, MainThread, Executor

-----------------------------------------------------------------------------
(* The serial executor.                                                    *)

\* No task, no disorder.
LEMMA InitSerialInv == Init => SerialInv
<1> SUFFICES ASSUME Init PROVE SerialInv
  OBVIOUS
<1>1. Len(tasks) = 0
  BY DEF Init
<1> QED
  BY <1>1 DEF SerialInv

\* Tasks that stay where they are, or are over, keep the executor serial.
LEMMA TasksSerialInv ==
    ASSUME SerialInv, Len(tasks') = Len(tasks),
           \A t \in 1..Len(tasks) :
              \/ tasks'[t].step = tasks[t].step
              \/ tasks[t].step # "queued" /\ tasks'[t].step \in Posted
              \/ tasks'[t].step = "over" /\ tasks[t].step \in Posted
    PROVE  SerialInv'
BY DEF SerialInv, Posted, Background

\* Every step keeps the executor serial.
LEMMA StepSerialInv == TypeOK /\ SerialInv /\ [Next]_vars => SerialInv'
<1> SUFFICES ASSUME TypeOK, SerialInv, [Next]_vars PROVE SerialInv'
  OBVIOUS
<1> USE DEF jobVars, taskVars, historyVars
<1>1. CASE UNCHANGED tasks
  BY <1>1 DEF SerialInv
<1>2. CASE onStartJob
  <2>1. /\ Len(tasks) \in Nat /\ Len(tasks') = Len(tasks) + 1
        /\ \A t \in 1..Len(tasks) : tasks'[t] = tasks[t]
        /\ tasks'[Len(tasks')].step = "queued"
    <3>1. Len(tasks) \in Nat
      BY DEF TypeOK
    <3> QED
      BY <1>2, <3>1, StartFacts
  <2> QED
    BY <2>1 DEF SerialInv
<1>3. CASE onStopJob
  BY <1>3, CancelFacts, TasksSerialInv DEF onStopJob
<1>4. ASSUME NEW t \in 1..Len(tasks), onPostExecute(t)
      PROVE  SerialInv'
  <2>1. /\ Goes(t, tasks[t].step, "over") /\ "over" \in Steps
        /\ tasks[t].step \in Posted
    BY <1>4 DEF onPostExecute, Goes, Steps
  <2> QED
    BY <2>1, GoesFacts, TasksSerialInv
<1>5. ASSUME NEW t \in 1..Len(tasks), Begin(t)
      PROVE  SerialInv'
  <2>1. PICK to \in Steps : Goes(t, "queued", to)
    BY <1>5 DEF Begin, Steps, Background
  <2>2. /\ Len(tasks') = Len(tasks) /\ Len(tasks) \in Nat
        /\ tasks[t].step = "queued"
        /\ \A u \in 1..Len(tasks) :
              u # t => tasks'[u].step = tasks[u].step
    BY <2>1, GoesFacts, TaskFacts
  <2>3. \A u \in 1..t - 1 : tasks[u].step \notin {"queued"} \cup Background
    BY <1>5 DEF Begin
  <2>4. \A u \in 1..Len(tasks) : t < u => tasks[u].step = "queued"
    BY <2>2 DEF SerialInv
  <2>5. SUFFICES ASSUME NEW u \in 1..Len(tasks), NEW v \in 1..Len(tasks),
                        u < v, tasks'[v].step # "queued"
                 PROVE  tasks'[u].step \notin {"queued"} \cup Background
    BY <2>2 DEF SerialInv
  <2>6. CASE v = t
    <3>1. u \in 1..t - 1 /\ u # t
      BY <2>2, <2>5, <2>6
    <3> QED
      BY <2>2, <2>3, <3>1
  <2>7. CASE v # t
    <3>1. tasks[v].step # "queued"
      BY <2>2, <2>5, <2>7
    <3>2. u # t
      BY <2>2, <2>4, <2>5, <3>1
    <3> QED
      BY <2>2, <2>5, <3>1, <3>2 DEF SerialInv
  <2> QED
    BY <2>6, <2>7
<1>6. ASSUME NEW t \in 1..Len(tasks), doInBackground(t)
      PROVE  SerialInv'
  <2>1. CASE Begin(t)
    BY <1>5, <2>1
  <2>2. CASE Write(t)
    <3>1. Goes(t, "connecting", "reading") /\ "reading" \in Steps
      BY <2>2 DEF Write, Steps, Background
    <3>2. /\ Len(tasks') = Len(tasks)
          /\ \A u \in 1..Len(tasks) :
                \/ tasks'[u].step = tasks[u].step
                \/ tasks[u].step = "connecting" /\ tasks'[u].step = "reading"
      BY <3>1, GoesFacts
    <3> QED
      BY <3>2 DEF SerialInv, Background
  <2>3. CASE Fail(t) \/ Succeed(t)
    <3>1. PICK from \in Background, to \in Posted : Goes(t, from, to)
      BY <2>3 DEF Fail, Succeed, Background, Posted
    <3>2. to \in Steps /\ from # "queued"
      BY DEF Steps, Background
    <3> QED
      BY <3>1, <3>2, GoesFacts, TasksSerialInv
  <2> QED
    BY <1>6, <2>1, <2>2, <2>3 DEF doInBackground
<1>7. CASE ProcessDies \/ DeviceRestarts
  <2>1. /\ Len(tasks') = Len(tasks)
        /\ \A t \in 1..Len(tasks) : tasks'[t].step = "over"
    BY <1>7, EndFacts DEF ProcessDies, DeviceRestarts
  <2> QED
    BY <2>1 DEF SerialInv, Background
<1> QED
  BY <1>1, <1>2, <1>3, <1>4, <1>6, <1>7
  DEF Next, MainThread, Executor, OnNewToken, RegisterWithHomeMonitor,
      OnComplete, sendRegistrationToServer, StartJob, StopJob,
      StopUnstarted, vars

-----------------------------------------------------------------------------
(* The current run.                                                        *)

\* Nothing runs.
LEMMA InitRunInv == Init => RunInv
<1> SUFFICES ASSUME Init PROVE RunInv
  OBVIOUS
<1>1. Len(tasks) = 0 /\ ~executing
  BY DEF Init
<1> QED
  BY <1>1 DEF RunInv

\* Tasks that keep their job, and are not woken or revived, stay current.
LEMMA TasksRunInv ==
    ASSUME RunInv, UNCHANGED <<executing, active, mRegisterTask>>,
           Len(tasks') = Len(tasks),
           \A t \in 1..Len(tasks) :
              /\ tasks'[t].job = tasks[t].job
              /\ tasks[t].cancelled => tasks'[t].cancelled
              /\ tasks[t].step = "over" => tasks'[t].step = "over"
    PROVE  RunInv'
BY DEF RunInv, IsCurrent

\* When no task's result will be looked at, nothing can be wrong about them.
LEMMA NoLiveTask ==
    ASSUME ~executing',
           \A t \in 1..Len(tasks') :
              tasks'[t].cancelled \/ tasks'[t].step = "over"
    PROVE  RunInv'
BY DEF RunInv

\* Every step keeps the results with the current run.
LEMMA StepRunInv == TypeOK /\ RunInv /\ [Next]_vars => RunInv'
<1> SUFFICES ASSUME TypeOK, RunInv, [Next]_vars PROVE RunInv'
  OBVIOUS
<1> USE DEF jobVars, taskVars, historyVars
<1>1. CASE UNCHANGED <<executing, active, mRegisterTask, tasks>>
  BY <1>1 DEF RunInv, IsCurrent
<1>2. CASE StartJob
  BY <1>2 DEF StartJob, RunInv, IsCurrent
<1>3. CASE onStartJob
  <2>1. /\ Len(tasks) \in Nat /\ Len(tasks') = Len(tasks) + 1
        /\ \A t \in 1..Len(tasks) : tasks'[t] = tasks[t]
        /\ mRegisterTask' = Len(tasks')
        /\ tasks'[Len(tasks')].job = active
    <3>1. Len(tasks) \in Nat
      BY DEF TypeOK
    <3> QED
      BY <1>3, <3>1, StartFacts
  <2>2. executing' /\ active' = active /\ active # 0 /\ ~executing
    BY <1>3 DEF onStartJob
  <2>3. \A t \in 1..Len(tasks) :
           tasks[t].cancelled \/ tasks[t].step = "over"
    BY <2>2 DEF RunInv, IsCurrent
  <2>4. \A t \in 1..Len(tasks') :
           ~tasks'[t].cancelled /\ tasks'[t].step # "over"
              => t = Len(tasks')
    BY <2>1, <2>3
  <2> QED
    BY <2>1, <2>2, <2>4 DEF RunInv, IsCurrent
<1>4. CASE onStopJob
  <2>1. /\ Len(tasks') = Len(tasks)
        /\ \A t \in 1..Len(tasks) :
              /\ tasks'[t].step = tasks[t].step
              /\ tasks'[t].cancelled <=> \/ tasks[t].cancelled
                                        \/ t = mRegisterTask
    BY <1>4, CancelFacts DEF onStopJob
  <2>2. ~executing'
    BY <1>4 DEF onStopJob, JobEnds
  <2>3. \A t \in 1..Len(tasks') :
           tasks'[t].cancelled \/ tasks'[t].step = "over"
    BY <2>1 DEF RunInv, IsCurrent
  <2> QED
    BY <2>2, <2>3, NoLiveTask
<1>5. ASSUME NEW t \in 1..Len(tasks), onPostExecute(t)
      PROVE  RunInv'
  <2>1. /\ Goes(t, tasks[t].step, "over") /\ "over" \in Steps
        /\ UNCHANGED mRegisterTask
    BY <1>5 DEF onPostExecute, Goes, Steps
  <2>2. /\ Len(tasks') = Len(tasks)
        /\ tasks'[t].step = "over"
        /\ \A u \in 1..Len(tasks) :
              /\ tasks'[u].job = tasks[u].job
              /\ tasks'[u].cancelled = tasks[u].cancelled
              /\ u # t => tasks'[u].step = tasks[u].step
    BY <2>1, GoesFacts
  <2>3. CASE UNCHANGED <<executing, active>>
    BY <2>1, <2>2, <2>3, TasksRunInv
  <2>4. CASE IsCurrent(t) /\ JobEnds(FALSE)
    <3>1. \A u \in 1..Len(tasks) :
             u # t => tasks[u].cancelled \/ tasks[u].step = "over"
      BY <2>4 DEF RunInv, IsCurrent
    <3>2. \A u \in 1..Len(tasks') :
             tasks'[u].cancelled \/ tasks'[u].step = "over"
      BY <2>2, <3>1
    <3>3. ~executing'
      BY <2>4 DEF JobEnds
    <3> QED
      BY <3>2, <3>3, NoLiveTask
  <2> QED
    BY <1>5, <2>3, <2>4 DEF onPostExecute, jobFinished
<1>6. ASSUME NEW t \in 1..Len(tasks), doInBackground(t)
      PROVE  RunInv'
  <2>1. PICK from, to \in Steps : Goes(t, from, to) /\ from # "over"
    BY <1>6 DEF doInBackground, Begin, Write, Fail, Succeed, Steps, Posted,
       Background
  <2>2. UNCHANGED <<executing, active, mRegisterTask>>
    BY <1>6 DEF doInBackground
  <2> QED
    BY <2>1, <2>2, GoesFacts, TasksRunInv
<1>7. CASE ProcessDies \/ DeviceRestarts
  <2>1. /\ Len(tasks') = Len(tasks)
        /\ \A t \in 1..Len(tasks) : tasks'[t].step = "over"
    BY <1>7, EndFacts DEF ProcessDies, DeviceRestarts
  <2>2. ~executing'
    BY <1>7 DEF ProcessDies, DeviceRestarts, JobEnds
  <2> QED
    BY <2>1, <2>2, NoLiveTask
<1>8. CASE StopUnstarted
  <2>1. \A t \in 1..Len(tasks) :
           tasks[t].cancelled \/ tasks[t].step = "over"
    BY <1>8 DEF StopUnstarted, RunInv, IsCurrent
  <2>2. ~executing' /\ UNCHANGED tasks
    BY <1>8 DEF StopUnstarted, JobEnds
  <2> QED
    BY <2>1, <2>2, NoLiveTask
<1> QED
  BY <1>1, <1>2, <1>3, <1>4, <1>5, <1>6, <1>7, <1>8
  DEF Next, MainThread, Executor, OnNewToken, RegisterWithHomeMonitor,
      OnComplete, sendRegistrationToServer, StopJob, vars

-----------------------------------------------------------------------------
(* The order of the tokens.                                                *)

\* No token, no disorder.
LEMMA InitTokenInv == Init => TokenInv
<1> SUFFICES ASSUME Init PROVE TokenInv
  OBVIOUS
<1>1. Len(answers) = 0 /\ Len(calls) = 0
  BY DEF Init
<1> QED
  BY <1>1 DEF TokenInv

\* A call with the newest token keeps the order, and any other call is late.
LEMMA SendTokenInv ==
    ASSUME TypeOK, TokenInv, NEW t \in Nat, sendRegistrationToServer(t),
           token' \in Nat, token <= token', t <= token',
           t = token' \/ "lateAnswer" \in mishaps',
           mishaps \subseteq mishaps',
           \A i \in 1..Len(answers') : answers'[i] <= token'
    PROVE  TokenInv'
<1>1. /\ Len(calls) \in Nat /\ Len(calls') = Len(calls) + 1
      /\ \A i \in 1..Len(calls) : calls'[i] = calls[i]
      /\ calls'[Len(calls')] = t
  BY SendFacts
<1>2. token \in Nat /\ \A i \in 1..Len(calls) : calls[i] \in Nat
  BY DEF TypeOK
<1>3. \A i \in 1..Len(calls) : calls[i] <= token'
  BY <1>2 DEF TokenInv
<1>4. \A i \in 1..Len(calls') : calls'[i] <= token'
  BY <1>1, <1>3
<1>5. \/ "lateAnswer" \in mishaps'
      \/ \A i, j \in 1..Len(calls') : i < j => calls'[i] <= calls'[j]
  <2>1. SUFFICES ASSUME "lateAnswer" \notin mishaps'
                 PROVE  \A i, j \in 1..Len(calls') :
                           i < j => calls'[i] <= calls'[j]
    OBVIOUS
  <2>2. /\ t = token'
        /\ \A i, j \in 1..Len(calls) : i < j => calls[i] <= calls[j]
    BY <2>1 DEF TokenInv
  <2> QED
    BY <1>1, <1>3, <2>2
<1> QED
  BY <1>4, <1>5 DEF TokenInv

\* Every step keeps the order of the tokens.
LEMMA StepTokenInv == TypeOK /\ TokenInv /\ [Next]_vars => TokenInv'
<1> SUFFICES ASSUME TypeOK, TokenInv, [Next]_vars PROVE TokenInv'
  OBVIOUS
<1> USE DEF jobVars, taskVars, historyVars
<1>1. CASE OnNewToken
  <2>1. /\ token' = token + 1 /\ token \in Nat
        /\ sendRegistrationToServer(token')
        /\ UNCHANGED <<answers, mishaps>>
    BY <1>1 DEF OnNewToken, TypeOK
  <2>2. \A i \in 1..Len(answers') : answers'[i] <= token'
    <3>1. \A i \in 1..Len(answers) : answers[i] \in Nat /\ answers[i] <= token
      BY DEF TypeOK, TokenInv
    <3> QED
      BY <2>1, <3>1
  <2>3. SUFFICES ASSUME NEW t \in Nat, t = token' PROVE TokenInv'
    BY <2>1
  <2> QED
    BY <2>1, <2>2, <2>3, SendTokenInv
<1>2. CASE RegisterWithHomeMonitor
  <2>1. PICK t \in {0, token} : answers' = Append(answers, t)
    BY <1>2 DEF RegisterWithHomeMonitor
  <2>2. answers \in Seq(Nat) /\ token \in Nat
    BY DEF TypeOK
  <2>3. /\ Len(answers') = Len(answers) + 1 /\ Len(answers) \in Nat
        /\ \A i \in 1..Len(answers) : answers'[i] = answers[i]
        /\ answers'[Len(answers')] = t
    BY <2>1, <2>2, AppendFacts
  <2>4. \A i \in 1..Len(answers') : answers'[i] <= token
    BY <2>1, <2>2, <2>3 DEF TokenInv
  <2> QED
    BY <1>2, <2>4 DEF RegisterWithHomeMonitor, TokenInv
<1>3. CASE OnComplete
  <2>1. /\ Len(answers) \in Nat \ {0} /\ Len(answers') = Len(answers) - 1
        /\ Head(answers) = answers[1] /\ Head(answers) \in Nat
        /\ \A i \in 1..Len(answers') : answers'[i] = answers[i + 1]
    BY <1>3, AnswerFacts
  <2>2. token' = token /\ token \in Nat
    BY <1>3 DEF OnComplete, TypeOK
  <2>3. \A i \in 1..Len(answers') : answers'[i] <= token'
    BY <2>1, <2>2 DEF TokenInv
  <2>4. CASE Head(answers) = 0
    BY <1>3, <2>2, <2>3, <2>4 DEF OnComplete, TokenInv
  <2>5. CASE Head(answers) # 0
    <3>1. /\ sendRegistrationToServer(Head(answers))
          /\ Head(answers) = token' \/ "lateAnswer" \in mishaps'
          /\ mishaps \subseteq mishaps'
      BY <1>3, <2>2, <2>5 DEF OnComplete
    <3>2. Head(answers) <= token' /\ token <= token'
      BY <2>1, <2>2 DEF TokenInv
    <3> QED
      BY <2>1, <2>2, <2>3, <3>1, <3>2, SendTokenInv
  <2> QED
    BY <2>4, <2>5
<1>4. CASE ProcessDies \/ DeviceRestarts
  <2>1. /\ UNCHANGED <<token, calls>> /\ Len(answers') = 0
        /\ mishaps \subseteq mishaps'
    BY <1>4 DEF ProcessDies, DeviceRestarts, ProcessEnds
  <2> QED
    BY <2>1 DEF TokenInv
<1>5. CASE UNCHANGED <<token, answers, calls, mishaps>>
  BY <1>5 DEF TokenInv
<1> QED
  BY <1>1, <1>2, <1>3, <1>4, <1>5
  DEF Next, MainThread, Executor, StartJob, StopJob, StopUnstarted, onStartJob,
      onStopJob, onPostExecute, doInBackground, vars

-----------------------------------------------------------------------------
(* The last call.                                                          *)

\* There is no last call.
LEMMA InitNoCallForgotten == Init => NoCallForgotten
<1> SUFFICES ASSUME Init PROVE NoCallForgotten
  OBVIOUS
<1>1. Len(calls) = 0
  BY DEF Init
<1> QED
  BY <1>1 DEF NoCallForgotten

\* The last call survives the end of the active job, if that job is retried.
LEMMA RetryNoCallForgotten ==
    ASSUME TypeOK, OrderInv, NoCallForgotten, JobEnds(TRUE),
           UNCHANGED <<calls, acknowledged, failed>>,
           mishaps \subseteq mishaps'
    PROVE  NoCallForgotten'
<1>1. /\ Len(calls) \in Nat
      /\ pending \in 0..Len(calls) /\ active \in 0..Len(calls)
  BY DEF TypeOK
<1> QED
  BY <1>1 DEF NoCallForgotten, OrderInv, JobEnds

\* Every step remembers the last call.
LEMMA StepNoCallForgotten ==
    IInv /\ [Next]_vars => NoCallForgotten'
<1> SUFFICES ASSUME IInv, [Next]_vars PROVE NoCallForgotten'
  OBVIOUS
<1> USE DEF jobVars, taskVars, historyVars
<1>1. TypeOK /\ OrderInv /\ RunInv /\ NoCallForgotten
  BY DEF IInv
<1>2. ASSUME NEW t \in Nat, sendRegistrationToServer(t)
      PROVE  NoCallForgotten'
  <2>1. pending' = Len(calls')
    BY <1>1, <1>2, SendFacts
  <2> QED
    BY <2>1 DEF NoCallForgotten
<1>3. CASE OnNewToken
  <2>1. token' \in Nat /\ sendRegistrationToServer(token')
    BY <1>1, <1>3 DEF OnNewToken, TypeOK
  <2>2. SUFFICES ASSUME NEW t \in Nat, t = token' PROVE NoCallForgotten'
    BY <2>1
  <2> QED
    BY <1>2, <2>1, <2>2
<1>4. CASE OnComplete
  <2>1. CASE Head(answers) = 0
    BY <1>1, <1>4, <2>1 DEF OnComplete, NoCallForgotten
  <2>2. CASE Head(answers) # 0
    BY <1>1, <1>2, <1>4, <2>2, AnswerFacts DEF OnComplete
  <2> QED
    BY <2>1, <2>2
<1>5. CASE StartJob
  <2>1. active = 0 /\ active' = pending
    BY <1>5 DEF StartJob
  <2> QED
    BY <1>1, <1>5, <2>1 DEF StartJob, NoCallForgotten
<1>6. CASE onStopJob
  <2>1. mRegisterTask # 0
    BY <1>1, <1>6 DEF onStopJob, RunInv
  <2>2. JobEnds(TRUE)
    BY <1>6, <2>1 DEF onStopJob, JobEnds
  <2>3. UNCHANGED <<calls, acknowledged, failed, mishaps>>
    BY <1>6 DEF onStopJob
  <2> QED
    BY <1>1, <2>2, <2>3, RetryNoCallForgotten
<1>7. ASSUME NEW t \in 1..Len(tasks), onPostExecute(t)
      PROVE  NoCallForgotten'
  <2>1. /\ UNCHANGED <<calls, mishaps>>
        /\ acknowledged \subseteq acknowledged'
        /\ failed \subseteq failed'
    BY <1>7 DEF onPostExecute
  <2>2. CASE UNCHANGED <<pending, active>>
    BY <1>1, <2>1, <2>2 DEF NoCallForgotten
  <2>3. CASE /\ active = tasks[t].job
             /\ JobEnds(FALSE)
             /\ tasks[t].job \in acknowledged' \cup failed'
    BY <1>1, <2>1, <2>3 DEF NoCallForgotten, JobEnds
  <2> QED
    BY <1>7, <2>2, <2>3 DEF onPostExecute, jobFinished, IsCurrent
<1>8. CASE ProcessDies
  <2>1. UNCHANGED <<calls, acknowledged, failed, mishaps>>
    BY <1>8 DEF ProcessDies, ProcessEnds
  <2>2. CASE active # 0
    <3>1. JobEnds(TRUE)
      BY <1>8, <2>2 DEF ProcessDies, JobEnds
    <3> QED
      BY <1>1, <2>1, <3>1, RetryNoCallForgotten
  <2>3. CASE active = 0
    <3>1. UNCHANGED <<pending, active>>
      BY <1>8, <2>3 DEF ProcessDies, JobEnds
    <3> QED
      BY <1>1, <2>1, <3>1 DEF NoCallForgotten
  <2> QED
    BY <2>2, <2>3
<1>9. CASE DeviceRestarts
  BY <1>9 DEF DeviceRestarts, NoCallForgotten
<1>10. CASE UNCHANGED <<calls, pending, active, acknowledged, failed, mishaps>>
  BY <1>1, <1>10 DEF NoCallForgotten
<1>11. CASE StopUnstarted
  BY <1>1, <1>11, RetryNoCallForgotten DEF StopUnstarted
<1> QED
  BY <1>3, <1>4, <1>5, <1>6, <1>7, <1>8, <1>9, <1>10,
     <1>11
  DEF Next, MainThread, Executor, RegisterWithHomeMonitor, StopJob,
      onStartJob, doInBackground, vars

-----------------------------------------------------------------------------
(* The theorems.                                                           *)

\* The inductive invariant holds initially and is kept by every step.
THEOREM Invariance == Spec => []IInv
<1>1. Init => IInv
  BY InitTypeOK, InitOrderInv, InitSerialInv, InitRunInv, InitTokenInv,
     InitNoCallForgotten DEF IInv
<1>2. IInv /\ [Next]_vars => IInv'
  BY StepTypeOK, StepOrderInv, StepSerialInv, StepRunInv, StepTokenInv,
     StepNoCallForgotten DEF IInv
<1> QED
  BY <1>1, <1>2, PTL DEF Spec

\* Every variable keeps its type (onStartJob never runs without a job).
THEOREM TypeCorrect == Spec => []TypeOK
<1>1. IInv => TypeOK
  BY DEF IInv
<1> QED
  BY <1>1, Invariance, PTL

\* sendRegistrationToServer's last call waits, runs, or has been answered,
\* unless the device has been restarted.
THEOREM CallsRemembered == Spec => []NoCallForgotten
<1>1. IInv => NoCallForgotten
  BY DEF IInv
<1> QED
  BY <1>1, Invariance, PTL

\* A request is written for a call that is no older than those before.
LEMMA WritesInOrder ==
    ASSUME IInv, [Next]_vars, sent' # sent
    PROVE  /\ sent' \in 1..Len(calls)
           /\ sent <= sent'
           /\ UNCHANGED <<calls, mishaps>>
<1> USE DEF jobVars, taskVars, historyVars
<1>1. PICK t \in 1..Len(tasks) : doInBackground(t)
  BY DEF Next, MainThread, Executor, OnNewToken, RegisterWithHomeMonitor,
     OnComplete, StartJob, StopJob, StopUnstarted, onStartJob, onStopJob,
     onPostExecute,
     ProcessDies, DeviceRestarts, ProcessEnds, vars
<1>2. sent' = tasks[t].job /\ tasks[t].step = "connecting"
  BY <1>1 DEF doInBackground, Begin, Write, Fail, Succeed, Goes
<1>3. sent <= tasks[t].job
  BY <1>2 DEF IInv, OrderInv, Unsent
<1>4. tasks[t].job \in 1..Len(calls)
  BY DEF IInv, TypeOK
<1> QED
  BY <1>1, <1>2, <1>3, <1>4 DEF doInBackground

\* doInBackground never writes an older token after a newer one, unless a menu
\* request has scheduled the older one late.
THEOREM TokensInOrder == Spec => TokensSentInOrder
<1>1. ASSUME IInv, [Next]_vars
      PROVE  [sent' # sent => \/ Token(sent') >= Token(sent)
                              \/ "lateAnswer" \in mishaps]_vars
  <2>1. SUFFICES ASSUME sent' # sent, "lateAnswer" \notin mishaps
                 PROVE  Token(sent') >= Token(sent)
    OBVIOUS
  <2>2. sent' \in 1..Len(calls) /\ sent <= sent' /\ UNCHANGED calls
    BY <1>1, <2>1, WritesInOrder
  <2>3. /\ sent \in 0..Len(calls)
        /\ \A i \in 1..Len(calls) : calls[i] \in Nat
        /\ Len(calls) \in Nat
    BY <1>1 DEF IInv, TypeOK
  <2>4. \A i, j \in 1..Len(calls) : i < j => calls[i] <= calls[j]
    BY <1>1, <2>1 DEF IInv, TokenInv
  <2>5. sent < sent'
    BY <2>1, <2>2, <2>3
  <2>6. CASE sent = 0
    BY <2>2, <2>3, <2>6 DEF Token
  <2>7. CASE sent # 0
    <3>1. calls[sent] <= calls[sent']
      BY <2>2, <2>3, <2>4, <2>5, <2>7
    <3>2. Token(sent) = calls[sent] /\ Token(sent') = calls[sent']
      BY <2>2, <2>7 DEF Token
    <3> QED
      BY <2>2, <2>3, <2>7, <3>1, <3>2
  <2> QED
    BY <2>6, <2>7
<1> QED
  BY <1>1, Invariance, PTL DEF Spec, TokensSentInOrder

\* onPostExecute calls jobFinished in the current run of the job only.
THEOREM FinishesCurrentRun == Spec => FinishIsCurrent
<1>1. ASSUME IInv, [Next]_vars
      PROVE  [finished' # finished => IsCurrent(finished')]_vars
  <2> USE DEF jobVars, taskVars, historyVars
  <2>1. SUFFICES ASSUME finished' # finished PROVE IsCurrent(finished')
    OBVIOUS
  <2>2. PICK t \in 1..Len(tasks) : onPostExecute(t)
    BY <1>1, <2>1
    DEF Next, MainThread, Executor, OnNewToken, RegisterWithHomeMonitor,
        OnComplete, StartJob, StopJob, StopUnstarted, onStartJob, onStopJob,
        doInBackground,
        ProcessDies, DeviceRestarts, ProcessEnds, vars
  <2>3. /\ finished' = t
        /\ ~tasks[t].cancelled
        /\ tasks[t].step # "over"
    BY <2>1, <2>2 DEF onPostExecute, jobFinished, Posted
  <2>4. IsCurrent(t)
    BY <1>1, <2>3 DEF IInv, RunInv
  <2> QED
    BY <2>3, <2>4
<1> QED
  BY <1>1, Invariance, PTL DEF Spec, FinishIsCurrent

=============================================================================
