---------------------------- MODULE TaskScheduler ----------------------------
(***************************************************************************)
(* The task scheduler of the core (src/libr/core/task.c) with the commands *)
(* that drive it (cmd_task.inc.c), the quit sequence of the main program   *)
(* (radare2.c) and the teardown of the core (core.c).  One thread per      *)
(* background task plus the main thread; the thread of a task and the task *)
(* have one name.  A critical section under the scheduler's lock is one    *)
(* step, except the end of a task, which enters the lock of the core and    *)
(* posts, one after the other, under the lock of the scheduler.  tasks_queue is never appended to   *)
(* while it is empty, so the dispatch code of r_core_task_schedule never   *)
(* runs and is left out.                                                   *)
(***************************************************************************)
EXTENDS Integers, Sequences, SequencesExt, FiniteSets

CONSTANTS
  Tasks,      \* the background tasks, each a number above 0
  NoOne,      \* the owner of a free lock
  MainCmds,   \* bound: commands the main thread is given
  TaskCmds,   \* bound: commands inside the command line of one task
  Critical,   \* built with R_CRITICAL_ENABLED (the threadsafety option)
  Nested,     \* the command line of a task may start another task
  Interrupts, \* the user may press ^C while the main thread waits for a task
  WaitsFor    \* pairs <<a, b>>: the command line of task a may wait for b

Main == 0
Threads == Tasks \cup {Main}

ASSUME TaskAssumption ==
  /\ Tasks \subseteq Nat \ {0} /\ IsFiniteSet(Tasks)
  /\ NoOne \notin Threads
  /\ MainCmds \in Nat /\ TaskCmds \in Nat
  /\ Critical \in BOOLEAN /\ Nested \in BOOLEAN /\ Interrupts \in BOOLEAN
  /\ WaitsFor \subseteq Tasks \X Tasks

VARIABLES
  thread,         \* per thread: where it is, and its local variables
  task,           \* per task: the RCoreTask
  tasks,          \* scheduler->tasks, in order
  tasks_running,  \* scheduler->tasks_running
  task_id_next,   \* scheduler->task_id_next
  lock,           \* the owner of scheduler->lock
  core_lock,      \* the owner of core->lock
  doomed          \* history: tasks broken after they were listed, before they ran

vars == <<thread, task, tasks, tasks_running, task_id_next, lock, core_lock, doomed>>

States == {"none", "before_start", "running", "sleeping", "done"}
NoSem == -1   \* running_sem is NULL
PCs == {"none", "start", "check", "cmd", "new", "enqueue", "schedule", "critical",
        "join", "wait", "end", "ending", "post", "posted", "event", "exited",
        "input", "ask", "cancel", "leaving", "sync_end", "fini", "fini_wait",
        "teardown", "reap", "over"}

Init ==
  /\ thread = [th \in Threads |->
       [pc |-> IF th = Main THEN "cmd" ELSE "none",
        next |-> "running",         \* the argument of r_core_task_schedule
        ret |-> "cmd",              \* where r_core_task_schedule returns to
        after |-> "cmd",            \* where r_core_task_join returns to
        queue |-> <<>>,             \* the tasks that remain to be joined
        cursor |-> 1,               \* the list position of r_core_task_cancel_all
        born |-> Main,              \* the task it is creating
        cmds |-> IF th = Main THEN MainCmds ELSE TaskCmds]]
  /\ task = [t \in Threads |->
       [id |-> 0, state |-> IF t = Main THEN "running" ELSE "none",
        sem |-> NoSem, breaked |-> FALSE, res |-> FALSE]]
  /\ tasks = <<Main>>
  /\ tasks_running = 0      \* r_core_task_sync_begin does not count the main task
  /\ task_id_next = 1
  /\ lock = NoOne /\ core_lock = NoOne
  /\ doomed = {}

At(th, pc) == thread[th].pc = pc
Goto(th, pc) == thread' = [thread EXCEPT ![th].pc = pc]

\* r_core_task_get: the first listed task with that id.
Listed(i) == {n \in DOMAIN tasks : task[tasks[n]].id = i}
Get(i) == tasks[CHOOSE n \in Listed(i) : \A m \in Listed(i) : n <= m]

-----------------------------------------------------------------------------
(* r_core_task_schedule *)

\* The count of running tasks afterwards.  (Mutants: without the test, and
\* for a task that sleeps only.)
CountUnguarded(next) == IF next # "running" THEN tasks_running - 1 ELSE tasks_running
CountSleepers(next) ==
  IF next = "sleeping" /\ tasks_running > 0 THEN tasks_running - 1 ELSE tasks_running
Count(next) ==
  IF next # "running" /\ tasks_running > 0 THEN tasks_running - 1 ELSE tasks_running

\* What it does, unless the only task that is counted goes on running.
Schedule(t, next) ==
  IF next = "running" /\ tasks_running = 1
  THEN UNCHANGED <<task, tasks_running>>
  ELSE /\ task' = [task EXCEPT ![t].state = next]
       /\ tasks_running' = Count(next)

\* The call; the thread's other locals are given by f.
Call(th, f, next, ret) ==
  thread' = [thread EXCEPT ![th] = [f EXCEPT !.pc = "schedule", !.next = next, !.ret = ret]]

\* R_CRITICAL_ENTER (core), in a build that has it.
EnterCritical(th) ==
  /\ Critical
  /\ At(th, "schedule")
  /\ core_lock = NoOne
  /\ core_lock' = th
  /\ Goto(th, "critical")
  /\ UNCHANGED <<task, tasks, tasks_running, task_id_next, lock, doomed>>

DoSchedule(th) ==
  /\ At(th, IF Critical THEN "critical" ELSE "schedule")
  /\ lock = NoOne
  /\ Schedule(th, thread[th].next)
  /\ core_lock' = NoOne
  /\ Goto(th, thread[th].ret)
  /\ UNCHANGED <<tasks, task_id_next, lock, doomed>>

-----------------------------------------------------------------------------
(* The life of a background task: task_run *)

\* Mutant: the console of the task opens its break context when it runs, not when it is listed.
TaskStartFresh(t) ==
  /\ At(t, "start")
  /\ lock = NoOne
  /\ task' = [task EXCEPT ![t].state = "running", ![t].breaked = FALSE]
  /\ tasks_running' = tasks_running + 1
  /\ Goto(t, "check")
  /\ UNCHANGED <<tasks, task_id_next, lock, core_lock, doomed>>

TaskStart(t) ==
  /\ At(t, "start")
  /\ lock = NoOne
  /\ task' = [task EXCEPT ![t].state = "running"]
  /\ tasks_running' = tasks_running + 1
  /\ Goto(t, "check")
  /\ UNCHANGED <<tasks, task_id_next, lock, core_lock, doomed>>

\* Broken before it started: stillbirth, the command line never runs.
TaskCheck(t) ==
  /\ At(t, "check")
  /\ Goto(t, IF task[t].breaked THEN "end" ELSE "cmd")
  /\ UNCHANGED <<task, tasks, tasks_running, task_id_next, lock, core_lock, doomed>>

\* The command line is over: its output is the result.
FinishCmd(t) ==
  /\ At(t, "cmd")
  /\ task' = [task EXCEPT ![t].res = TRUE]
  /\ Goto(t, "end")
  /\ UNCHANGED <<tasks, tasks_running, task_id_next, lock, core_lock, doomed>>

\* The command loop sees the break, which consumes it, and leaves.
SeeBreak(t) ==
  /\ At(t, "cmd")
  /\ task[t].breaked
  /\ task' = [task EXCEPT ![t].res = TRUE, ![t].breaked = FALSE]
  /\ Goto(t, "end")
  /\ UNCHANGED <<tasks, tasks_running, task_id_next, lock, core_lock, doomed>>

TaskEndEnter(t) ==
  /\ At(t, "end")
  /\ lock = NoOne
  /\ lock' = t
  /\ Goto(t, "ending")
  /\ UNCHANGED <<task, tasks, tasks_running, task_id_next, core_lock, doomed>>

\* task_end, which enters and leaves the lock of the core.
TaskEnd(t) ==
  /\ At(t, "ending")
  /\ Critical => core_lock = NoOne
  /\ task' = [task EXCEPT ![t].state = "done"]
  /\ tasks_running' = Count("done")
  /\ Goto(t, "post")
  /\ UNCHANGED <<tasks, task_id_next, lock, core_lock, doomed>>

\* The post, still under the lock: from here on whoever waits for the task may pass.
\* Mutant: a task that was broken does not post.
PostUnlessBroken(t) == IF task[t].breaked THEN 0 ELSE 1
Post(t) == 1

TaskPost(t) ==
  /\ At(t, "post")
  /\ task' = [task EXCEPT ![t].sem = @ + Post(t)]
  /\ Goto(t, "posted")
  /\ UNCHANGED <<tasks, tasks_running, task_id_next, lock, core_lock, doomed>>

TaskEndLeave(t) ==
  /\ At(t, "posted")
  /\ lock' = NoOne
  /\ Goto(t, "event")
  /\ UNCHANGED <<task, tasks, tasks_running, task_id_next, core_lock, doomed>>

\* The event FINISHED or INTERRUPTED goes out on core->ev, and the thread returns.
TaskReturn(t) ==
  /\ At(t, "event")
  /\ Goto(t, "exited")
  /\ UNCHANGED <<task, tasks, tasks_running, task_id_next, lock, core_lock, doomed>>

-----------------------------------------------------------------------------
(* Commands: what a thread at "cmd" may do next *)

MayCommand(th) == At(th, "cmd") /\ thread[th].cmds > 0
Spent(th) == [thread[th] EXCEPT !.cmds = @ - 1]
MayWait(th, t) == th = Main \/ t = Main \/ <<th, t>> \in WaitsFor

\* r_core_task_yield, between two commands of a script.
Yield(th) ==
  /\ MayCommand(th)
  /\ Call(th, Spent(th), "running", "cmd")
  /\ UNCHANGED <<task, tasks, tasks_running, task_id_next, lock, core_lock, doomed>>

\* "& cmd": r_core_task_new reads task_id_next ...
NewTask(th) ==
  /\ MayCommand(th)
  /\ th = Main \/ Nested
  /\ \E t \in Tasks :
       /\ task[t].state = "none"
       /\ \A u \in Tasks : task[u].state = "none" => t <= u
       /\ task' = [task EXCEPT ![t].state = "before_start", ![t].id = task_id_next]
       /\ thread' = [thread EXCEPT ![th] = [Spent(th) EXCEPT !.pc = "new", !.born = t]]
  /\ UNCHANGED <<tasks, tasks_running, task_id_next, lock, core_lock, doomed>>

\* ... and increments it, without a lock ...
StoreNextId(th) ==
  /\ At(th, "new")
  /\ task_id_next' = task[thread[th].born].id + 1
  /\ Goto(th, "enqueue")
  /\ UNCHANGED <<task, tasks, tasks_running, lock, core_lock, doomed>>

\* ... and r_core_task_enqueue lists the task and starts its thread.
\* running_sem is created with one token, which is taken.
\* (Mutant: the token is left in it.)
NotTaken == 1
Taken == 0

Enqueue(th) ==
  LET t == thread[th].born IN
  /\ At(th, "enqueue")
  /\ lock = NoOne
  /\ task' = [task EXCEPT ![t].sem = Taken, ![t].breaked = FALSE]
  /\ tasks' = Append(tasks, t)
  /\ thread' = [thread EXCEPT ![th].pc = "cmd", ![t].pc = "start"]
  /\ UNCHANGED <<tasks_running, task_id_next, lock, core_lock, doomed>>

\* r_core_task_cancel: only a task that owns a console can be broken.
Broken(t) == IF t = Main THEN task ELSE [task EXCEPT ![t].breaked = TRUE]
DoomedBy(t) == doomed \cup (IF task[t].state = "before_start" THEN {t} ELSE {})

\* "&b id"
Break(th, i) ==
  /\ MayCommand(th)
  /\ lock = NoOne
  /\ i # 0 /\ Listed(i) # {}
  /\ task' = Broken(Get(i))
  /\ doomed' = DoomedBy(Get(i))
  /\ thread' = [thread EXCEPT ![th] = Spent(th)]
  /\ UNCHANGED <<tasks, tasks_running, task_id_next, lock, core_lock>>

\* "&& id": r_core_task_join of one task.
JoinOne(th, i) ==
  /\ MayCommand(th)
  /\ lock = NoOne
  /\ i # 0 /\ i # task[th].id /\ Listed(i) # {}
  /\ MayWait(th, Get(i))
  /\ thread' = [thread EXCEPT ![th] =
       [Spent(th) EXCEPT !.pc = "join", !.queue = <<Get(i)>>, !.after = "cmd"]]
  /\ UNCHANGED <<task, tasks, tasks_running, task_id_next, lock, core_lock, doomed>>

\* The list as r_core_task_join (.., -1) copies it.
\* (Mutant: only of the tasks that have started.)
SnapshotStarted == SelectSeq(tasks, LAMBDA t : task[t].state # "before_start")
Snapshot == tasks

\* "&&": r_core_task_join of every task listed now.
JoinAll(th) ==
  /\ MayCommand(th)
  /\ lock = NoOne
  /\ \A t \in ToSet(tasks) \ {th} : MayWait(th, t)
  /\ thread' = [thread EXCEPT ![th] =
       [Spent(th) EXCEPT !.pc = "join", !.queue = Snapshot, !.after = "cmd"]]
  /\ UNCHANGED <<task, tasks, tasks_running, task_id_next, lock, core_lock, doomed>>

\* The loop of r_core_task_join: skip the waiting task itself, sleep before each
\* other wait, wake after it.
JoinNext(th) ==
  LET queue == thread[th].queue IN
  /\ At(th, "join")
  /\ \/ queue = <<>> /\ Goto(th, thread[th].after)
     \/ /\ queue # <<>> /\ Head(queue) = th
        /\ thread' = [thread EXCEPT ![th].queue = Tail(queue)]
     \/ /\ queue # <<>> /\ Head(queue) # th
        /\ Call(th, thread[th], "sleeping", "wait")
  /\ UNCHANGED <<task, tasks, tasks_running, task_id_next, lock, core_lock, doomed>>

\* task_join: take the token and post it again; the main task has none.
CanPass(t) == task[t].sem # 0
\* (Mutant: the token is not posted again.)
PassedOnce(t) == [task EXCEPT ![t].sem = IF t = Main THEN @ ELSE 0]
Passed(t) == task

JoinWait(th) ==
  /\ At(th, "wait")
  /\ CanPass(Head(thread[th].queue))
  /\ task' = Passed(Head(thread[th].queue))
  /\ Call(th, [thread[th] EXCEPT !.queue = Tail(@)], "running", "join")
  /\ UNCHANGED <<tasks, tasks_running, task_id_next, lock, core_lock, doomed>>

\* The handler of SIGINT is installed without SA_RESTART and r_th_sem_wait does
\* not look at what sem_wait returns: the wait is over without the token, and
\* the post that follows adds one.
JoinInterrupted(th) ==
  LET t == Head(thread[th].queue) IN
  /\ Interrupts
  /\ th = Main /\ At(th, "wait")
  /\ ~CanPass(t)
  /\ task' = [task EXCEPT ![t].sem = @ + 1]
  /\ Call(th, [thread[th] EXCEPT !.queue = Tail(@)], "running", "join")
  /\ UNCHANGED <<tasks, tasks_running, task_id_next, lock, core_lock, doomed>>

-----------------------------------------------------------------------------
(* The main thread: the prompt, the end of the program, r_core_fini *)

MainTo(pc) ==
  /\ Goto(Main, pc)
  /\ UNCHANGED <<task, tasks, tasks_running, task_id_next, lock, core_lock, doomed>>

MainCall(next, ret) ==
  /\ Call(Main, thread[Main], next, ret)
  /\ UNCHANGED <<task, tasks, tasks_running, task_id_next, lock, core_lock, doomed>>

\* Reading a line or a key sleeps: r_cons_sleep_begin, r_cons_sleep_end.
Prompt == At(Main, "cmd") /\ MainCall("sleeping", "input")
Input == At(Main, "input") /\ MainCall("running", "cmd")

\* r_core_task_running_tasks_count
RunningTasks == {t \in ToSet(tasks) \ {Main} : task[t].state # "done"}

\* "q": with tasks that are not done the user is asked about them.
Quit ==
  /\ At(Main, "cmd")
  /\ lock = NoOne
  /\ IF RunningTasks # {} THEN MainCall("sleeping", "ask") ELSE MainTo("leaving")

\* Without a user to ask (no interactive console, the end of the input), at once.
QuitUnasked == At(Main, "cmd") /\ MainTo("sync_end")

AnswerNo == At(Main, "ask") /\ MainCall("running", "cmd")
AnswerYes ==
  /\ At(Main, "ask")
  /\ Call(Main, [thread[Main] EXCEPT !.cursor = 1, !.after = "leaving"], "running", "cancel")
  /\ UNCHANGED <<task, tasks, tasks_running, task_id_next, lock, core_lock, doomed>>

\* r_core_task_cancel_all, one list item at a time: it leaves the lock for each.
CancelItem ==
  LET cursor == thread[Main].cursor IN
  /\ At(Main, "cancel")
  /\ lock = NoOne
  /\ cursor <= Len(tasks)
  /\ IF task[tasks[cursor]].state = "done" THEN UNCHANGED <<task, doomed>>
     ELSE task' = Broken(tasks[cursor]) /\ doomed' = DoomedBy(tasks[cursor])
  /\ thread' = [thread EXCEPT ![Main].cursor = @ + 1]
  /\ UNCHANGED <<tasks, tasks_running, task_id_next, lock, core_lock>>

\* Then r_core_task_join (.., -1): as the main task, which sleeps and skips
\* itself, when the user quits, and as no task at all from r_core_fini.
CancelDone ==
  /\ At(Main, "cancel")
  /\ lock = NoOne
  /\ thread[Main].cursor > Len(tasks)
  /\ thread' = [thread EXCEPT ![Main] =
       [@ EXCEPT !.pc = IF thread[Main].after = "leaving" THEN "join" ELSE "fini_wait",
                 !.queue = Snapshot]]
  /\ UNCHANGED <<task, tasks, tasks_running, task_id_next, lock, core_lock, doomed>>

\* Other questions (a process to kill, a project to save) may still return to
\* the prompt; they sleep and wake like Prompt.
Stay == At(Main, "leaving") /\ MainTo("cmd")
Leave == At(Main, "leaving") /\ MainTo("sync_end")

\* r_core_task_sync_end
SyncEnd == At(Main, "sync_end") /\ MainCall("done", "fini")

\* r_core_fini frees core->lock first of all: what a build that uses it does
\* from there on is not modelled.
Fini ==
  /\ ~Critical
  /\ At(Main, "fini")
  /\ thread' = [thread EXCEPT ![Main] = [@ EXCEPT !.pc = "cancel", !.cursor = 1, !.after = "teardown"]]
  /\ UNCHANGED <<task, tasks, tasks_running, task_id_next, lock, core_lock, doomed>>

FiniWait ==
  /\ At(Main, "fini_wait")
  /\ thread[Main].queue # <<>>
  /\ CanPass(Head(thread[Main].queue))
  /\ task' = Passed(Head(thread[Main].queue))
  /\ thread' = [thread EXCEPT ![Main].queue = Tail(@)]
  /\ UNCHANGED <<tasks, tasks_running, task_id_next, lock, core_lock, doomed>>

FiniJoined == At(Main, "fini_wait") /\ thread[Main].queue = <<>> /\ MainTo("teardown")

\* The parts of the core are freed, and then the tasks, each once its thread
\* has ended (r_core_task_scheduler_fini, r_core_task_free).
Teardown == At(Main, "teardown") /\ MainTo("reap")
Reap ==
  /\ At(Main, "reap")
  /\ \A t \in ToSet(tasks) \ {Main} : At(t, "exited")
  /\ MainTo("over")

-----------------------------------------------------------------------------
\* What the code does of itself, and what the user decides.
BodyNext(t) == TaskStart(t) \/ TaskCheck(t) \/ FinishCmd(t) \/ SeeBreak(t)
               \/ TaskEndEnter(t) \/ TaskEnd(t) \/ TaskPost(t)
               \/ TaskEndLeave(t) \/ TaskReturn(t)
CallNext(th) == EnterCritical(th) \/ DoSchedule(th) \/ JoinNext(th) \/ JoinWait(th)
                \/ StoreNextId(th) \/ Enqueue(th)
Command(th) == \/ Yield(th) \/ NewTask(th) \/ JoinAll(th)
               \/ \E i \in 1 .. Cardinality(Tasks) : JoinOne(th, i) \/ Break(th, i)
UserNext == JoinInterrupted(Main) \/ Prompt \/ Input \/ Quit \/ QuitUnasked \/ AnswerNo \/ AnswerYes \/ Stay \/ Leave
EndNext == CancelItem \/ CancelDone \/ SyncEnd \/ Fini \/ FiniWait \/ FiniJoined
           \/ Teardown \/ Reap

Next ==
  \/ \E t \in Tasks : BodyNext(t)
  \/ \E th \in Threads : CallNext(th) \/ Command(th)
  \/ UserNext
  \/ EndNext

Spec == Init /\ [][Next]_vars

\* Every thread is scheduled, and every command line of a task ends.
Fairness ==
  /\ \A t \in Tasks : WF_vars(BodyNext(t) \/ CallNext(t))
  /\ WF_vars(CallNext(Main) \/ EndNext)

FairSpec == Spec /\ Fairness

-----------------------------------------------------------------------------
\* The kind of every variable.
TypeOK ==
  /\ thread \in [Threads -> [pc : PCs, next : States, ret : PCs, after : PCs,
                             queue : Seq(Threads), cursor : Nat \ {0}, born : Threads, cmds : Nat]]
  /\ task \in [Threads -> [id : Nat, state : States, sem : Nat \cup {NoSem},
                           breaked : BOOLEAN, res : BOOLEAN]]
  /\ tasks \in Seq(Threads)
  /\ tasks_running \in Nat
  /\ task_id_next \in Nat
  /\ lock \in Threads \cup {NoOne} /\ core_lock \in Threads \cup {NoOne}
  /\ doomed \subseteq Tasks

\* Where a thread is once it has posted: it leaves the lock, sends its event and
\* returns, and touches the scheduler and core->ev only.
PastPost == {"posted", "event", "exited"}

\* The threads that are inside task_run, from the count up to task_end.
Outside == {"none", "start", "post"} \cup PastPost
Inside == {t \in Tasks : thread[t].pc \notin Outside}

(* "&& returns only after the task result is complete"                      *)
(* (test_core_task.c:117): a thread passes a task in its list of waits only *)
(* when that task is done and has posted, so that its result is written.    *)
JoinSeesResult ==
  [][\A th \in Threads :
       thread[th].queue # <<>> /\ thread'[th].queue = Tail(thread[th].queue) =>
         LET t == Head(thread[th].queue) IN
         t \in {Main, th} \/ (task[t].state = "done" /\ thread[t].pc \in PastPost)]_vars

(* A task that is broken between its listing and its start ("breaked in      *)
(* R_CORE_TASK_STATE_BEFORE_START", task.c:518) never runs its command line, *)
(* whoever broke it and whatever ran in between.                             *)
StillbornNeverRuns ==
  \A t \in doomed : thread[t].pc \in {"start", "check", "end", "ending", "post"} \cup PastPost

(* r_core_fini frees the parts of the core only when no task has a thread on *)
(* its way to, in or out of its command line: what still runs is past its    *)
(* post, where it uses the scheduler and core->ev only; and these are freed  *)
(* when every thread has returned.                                           *)
TeardownAlone ==
  /\ thread[Main].pc \in {"teardown", "reap"} =>
       \A t \in Tasks : thread[t].pc \in {"none"} \cup PastPost
  /\ thread[Main].pc = "over" => \A t \in Tasks : thread[t].pc \in {"none", "exited"}

(* tasks_running, which decides whether r_core_task_schedule does anything,  *)
(* never counts a task that is not inside task_run, however the main thread, *)
(* which is never counted, sleeps and wakes.                                 *)
CountsTheInside == tasks_running <= Cardinality(Inside)

(* "wait until task 3 is finished" (cmd_task.inc.c:17): every wait ends.     *)
JoinReturns == \A th \in Threads : At(th, "wait") ~> ~At(th, "wait")

(* Once the tasks are being cancelled, when the user quits or by r_core_fini, *)
(* the program gets past the tasks and, at the end, past their threads.       *)
QuitProceeds == At(Main, "cancel") ~> thread[Main].pc \in {"leaving", "over"}
=============================================================================
