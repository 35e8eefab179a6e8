----------------------------- MODULE HomeExecutor -----------------------------
(***************************************************************************)
(* The one background thread of the application: DoRead (from playVideo)   *)
(* and RegisterTask (from onStartJob) are AsyncTasks started by execute(), *)
(* which gives them one after another to the process's serial executor.    *)
(* Their results come to the main thread as messages.  MjpegView and       *)
(* RegisterNewClientJob look at each of them alone; here they share the    *)
(* thread.                                                                 *)
(***************************************************************************)
EXTENDS Naturals, Sequences

CONSTANTS
    MaxTasks \* bound: tasks started

TasksAssumption == MaxTasks \in Nat

VARIABLES
    tasks,  \* in the order of their execute(): what they do, how far they are
    posted, \* results on their way to the main thread
    source, \* the read whose stream the view was given last, 0 for none
    silent, \* servers that do not answer
    job     \* the registration that job 0 waits for, 0 if none

vars == <<tasks, posted, source, silent, job>>

Kinds == {"read", "register"}
Steps == {"queued", "running", "done"}

Init ==
    /\ tasks = <<>>
    /\ posted = <<>>
    /\ source = 0
    /\ silent \in SUBSET Kinds
    /\ job = 0

TypeOK ==
    /\ tasks \in Seq([kind : Kinds, step : Steps])
    /\ posted \in Seq(1..Len(tasks))
    /\ source \in 0..Len(tasks)
    /\ silent \subseteq Kinds
    /\ job \in 0..Len(tasks)

At(step) == {t \in DOMAIN tasks : tasks[t].step = step}
SetStep(t, step) == tasks' = [tasks EXCEPT ![t].step = step]

-----------------------------------------------------------------------------

Execute(kind) ==
    /\ Len(tasks) < MaxTasks
    /\ tasks' = Append(tasks, [kind |-> kind, step |-> "queued"])

\* playVideo: new DoRead(mv).execute(...).
PlayVideo ==
    /\ Execute("read")
    /\ UNCHANGED <<posted, source, silent, job>>

\* onStartJob of job 0, of which there is one at a time.
onStartJob ==
    /\ job = 0
    /\ Execute("register")
    /\ job' = Len(tasks) + 1
    /\ UNCHANGED <<posted, source, silent>>

\* A slip: the newest task first.
MayBeginNewest(t) ==
    /\ At("running") = {}
    /\ t \in At("queued")
    /\ \A u \in At("queued") : u <= t

\* The serial executor takes the oldest task when the last one is over.
MayBegin(t) ==
    /\ At("running") = {}
    /\ t \in At("queued")
    /\ \A u \in At("queued") : t <= u

Begin ==
    /\ \E t \in DOMAIN tasks : MayBegin(t) /\ SetStep(t, "running")
    /\ UNCHANGED <<posted, source, silent, job>>

\* connect and read have SERVER_TIMEOUT in RegisterTask, whatever the server
\* does; DoRead sets none, so it ends only when the camera answers.
Ends(t) == tasks[t].kind = "register" \/ "read" \notin silent

End ==
    /\ \E t \in At("running") :
         /\ Ends(t)
         /\ SetStep(t, "done")
         /\ posted' = Append(posted, t)
    /\ UNCHANGED <<source, silent, job>>

\* onPostExecute: setSource, or jobFinished.
onPostExecute ==
    /\ posted # <<>>
    /\ posted' = Tail(posted)
    /\ LET t == Head(posted)
       IN  IF tasks[t].kind = "read"
           THEN source' = t /\ UNCHANGED job
           ELSE job' = 0 /\ UNCHANGED source
    /\ UNCHANGED <<tasks, silent>>

Idle == Len(tasks) = MaxTasks /\ UNCHANGED vars

Next == PlayVideo \/ onStartJob \/ Begin \/ End \/ onPostExecute \/ Idle

\* The executor's thread and the main thread go on as long as they can.
Fairness == WF_vars(Begin) /\ WF_vars(End) /\ WF_vars(onPostExecute)

Spec == Init /\ [][Next]_vars /\ Fairness

-----------------------------------------------------------------------------
(* Properties.                                                             *)

\* The stream of an older playVideo never replaces that of a newer one: the
\* URL that was asked for last is the one that stays (DoRead, playVideo).
NewestStreamStays == [][source' >= source]_vars

\* A registration comes to its end unless a read is in its way for ever:
\* only a camera that does not answer can hold up job 0 (DoRead,
\* RegisterTask: SERVER_TIMEOUT).
OnlyCameraHoldsJob ==
    \A t \in 1..MaxTasks :
        job = t ~> \/ job # t
                   \/ \E u \in At("running") : tasks[u].kind = "read"
                                               /\ "read" \in silent

\* A task that waits is waited for: a result is never out of reach while a
\* server answers.
ReadsComeThrough ==
    silent = {} => \A t \in 1..MaxTasks :
        (t \in DOMAIN tasks /\ tasks[t].kind = "read") ~> source >= t
=============================================================================
