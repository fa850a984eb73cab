------------------------ MODULE TaskSchedulerProofs ------------------------
(***************************************************************************)
(* Theorems about TaskScheduler, for any number of tasks and of commands.   *)
(* Three invariants, each resting on the one before:                        *)
(*   IInv  where the threads can be, and what a break before the start and   *)
(*         the count of running tasks rely on,                              *)
(*   WInv  what a wait relies on: the tokens of the semaphores and the tasks *)
(*         that are still to be waited for; ^C breaks it,                   *)
(*   EInv  what the teardown of the core relies on; so do nested tasks.     *)
(***************************************************************************)
EXTENDS TaskScheduler, TLAPS, FiniteSetTheorems, NatFacts

-----------------------------------------------------------------------------
(* The invariants.                                                          *)

\* Where a thread can be, that of a task and the main one.
BodyPCs == {"none", "start", "check", "cmd", "new", "enqueue", "schedule", "critical",
            "join", "wait", "end", "ending", "post", "posted", "event", "exited"}
EndPCs == {"cancel", "fini_wait", "teardown", "reap", "over"}
MainPCs == {"cmd", "new", "enqueue", "schedule", "critical", "join", "wait",
            "input", "ask", "leaving", "sync_end", "fini"} \cup EndPCs

\* Where r_core_task_schedule and r_core_task_join return to.
Returns(th) == IF th = Main THEN {"cmd", "wait", "join", "input", "ask", "cancel", "fini"}
               ELSE {"cmd", "wait", "join"}
Afters(th) == IF th = Main THEN {"cmd", "leaving", "teardown"} ELSE {"cmd"}

\* A thread that waits, or is about to once it has been scheduled.
Awaits(r) == r.pc = "wait" \/ (r.pc \in {"schedule", "critical"} /\ r.ret = "wait")

Places ==
  \A th \in Threads :
    /\ thread[th].pc \in IF th = Main THEN MainPCs ELSE BodyPCs
    /\ thread[th].ret \in Returns(th)
    /\ thread[th].after \in Afters(th)
    /\ thread[th].next \in {"running", "sleeping", "done"}
    /\ Awaits(thread[th]) => thread[th].queue # <<>>

\* A thread that is between r_core_task_new and r_core_task_enqueue.
Bears(th) == thread[th].pc \in {"new", "enqueue"}

\* A task that is being made is not listed and has no thread, and two threads
\* never make the same task.
Births ==
  /\ \A t \in Tasks : task[t].state = "none" => thread[t].pc = "none"
  /\ \A t \in Threads : task[t].state = "before_start" => thread[t].pc \in {"none", "start"}
  /\ \A n \in DOMAIN tasks : thread[tasks[n]].pc # "none"
  /\ \A th \in Threads : Bears(th) =>
       /\ thread[th].born \in Tasks
       /\ thread[thread[th].born].pc = "none"
       /\ task[thread[th].born].state = "before_start"
  /\ \A th, uh \in Threads : Bears(th) /\ Bears(uh) /\ th # uh =>
       thread[th].born # thread[uh].born

\* The break of a task that had not begun is still there when its thread looks.
Doom ==
  \A t \in doomed : /\ thread[t].pc \in {"start", "check", "end", "ending", "post"} \cup PastPost
                    /\ thread[t].pc \in {"start", "check"} => task[t].breaked

IInv == TypeOK /\ Places /\ Births /\ Doom /\ CountsTheInside

\* running_sem has no token before the post, and one from then on; by then the task is done.
Tokens ==
  \A t \in Tasks :
    /\ thread[t].pc \notin {"none"} \cup PastPost => task[t].sem = 0
    /\ thread[t].pc \in {"post"} \cup PastPost => task[t].state = "done"

\* Only a thread that waits has tasks to wait for, and they have been started.
MayQueue(r) == \/ r.pc \in {"join", "wait", "fini_wait"}
               \/ r.pc \in {"schedule", "critical"} /\ r.ret \in {"join", "wait"}
Queues ==
  \A th \in Threads :
    /\ thread[th].queue # <<>> => MayQueue(thread[th])
    /\ \A n \in DOMAIN thread[th].queue : thread[thread[th].queue[n]].pc # "none"

WInv == Tokens /\ Queues

\* The tasks that r_core_fini still has to wait for are in its list.
Ending ==
  /\ \A t \in Tasks : thread[t].pc # "none" => \E n \in DOMAIN tasks : tasks[n] = t
  /\ \A t \in Tasks : ~Bears(t)
  /\ thread[Main].after = "teardown" => thread[Main].pc \in EndPCs
  /\ thread[Main].pc = "fini_wait" =>
       \A t \in Tasks : \/ thread[t].pc \in {"none"} \cup PastPost
                        \/ \E n \in DOMAIN thread[Main].queue : thread[Main].queue[n] = t

EInv == Ending /\ TeardownAlone

-----------------------------------------------------------------------------
(* Kinds.                                                                   *)

Thread == [pc : PCs, next : States, ret : PCs, after : PCs,
           queue : Seq(Threads), cursor : Nat \ {0}, born : Threads, cmds : Nat]
Task == [id : Nat, state : States, sem : Nat \cup {NoSem}, breaked : BOOLEAN, res : BOOLEAN]

\* A thread that is in no place of its own kind where something depends on it.
Inner == {"cmd", "schedule", "critical", "join", "wait", "input", "ask", "leaving",
          "sync_end", "fini"} \cup EndPCs

\* TypeOK, one variable at a time.
LEMMA Typed ==
  ASSUME TypeOK
  PROVE  /\ thread \in [Threads -> Thread] /\ task \in [Threads -> Task]
         /\ tasks \in Seq(Threads) /\ tasks_running \in Nat /\ task_id_next \in Nat
         /\ lock \in Threads \cup {NoOne} /\ core_lock \in Threads \cup {NoOne}
         /\ doomed \subseteq Tasks
BY DEF TypeOK, Thread, Task

\* The list holds threads.
LEMMA ListedThreads ==
  ASSUME TypeOK
  PROVE  \A n \in DOMAIN tasks : tasks[n] \in Threads
BY DEF TypeOK

\* The main thread is no task.
LEMMA MainApart == Main \notin Tasks /\ Main \in Threads /\ Tasks \subseteq Threads
BY TaskAssumption DEF Main, Threads

\* The next state of one thread, the rest of the variable being what it was.
OneThread(th, r) == thread' = [thread EXCEPT ![th] = r]

\* Another place for a thread leaves the rest of its record.
LEMMA PlaceKind ==
  ASSUME NEW r \in Thread, NEW pc \in PCs
  PROVE  LET v == [r EXCEPT !.pc = pc] IN
         /\ v \in Thread /\ v.pc = pc /\ v.ret = r.ret /\ v.after = r.after
         /\ v.next = r.next /\ v.born = r.born /\ v.queue = r.queue /\ v.cursor = r.cursor
BY DEF Thread

\* The threads inside task_run can be counted.
LEMMA InsideFinite ==
  /\ IsFiniteSet(Inside) /\ Cardinality(Inside) \in Nat
  /\ IsFiniteSet(Inside') /\ Cardinality(Inside') \in Nat
<1>1. Inside \subseteq Tasks /\ Inside' \subseteq Tasks
  BY DEF Inside
<1> QED BY <1>1, TaskAssumption, FS_Subset, FS_CardinalityType

-----------------------------------------------------------------------------
(* Steps that only take one thread from place to place.                     *)

\* No break is lost, and the tasks broken before they ran are still to start.
BreaksKept ==
  /\ \A t \in Threads : task[t].breaked => task'[t].breaked
  /\ \A t \in doomed' : \/ t \in doomed
                        \/ t \in Tasks /\ thread[t].pc = "start" /\ task'[t].breaked

\* A step of th that leaves every task where it is in its life; it may break some.
Walk(th) ==
  /\ OneThread(th, thread'[th]) /\ thread'[th] \in Thread
  /\ thread[th].pc \in Inner /\ thread'[th].pc \in Inner
  /\ thread'[th].pc \in (IF th = Main THEN MainPCs ELSE BodyPCs)
  /\ thread'[th].ret \in Returns(th) /\ thread'[th].after \in Afters(th)
  /\ thread'[th].next \in {"running", "sleeping", "done"}
  /\ Awaits(thread'[th]) => thread'[th].queue # <<>>
  /\ task' \in [Threads -> Task]
  /\ \A t \in Threads : \/ task'[t].state = task[t].state
                        \/ t = th /\ task'[t].state \in {"running", "sleeping", "done"}
  /\ BreaksKept
  /\ tasks_running' \in Nat /\ tasks_running' <= tasks_running
  /\ core_lock' \in Threads \cup {NoOne}
  /\ UNCHANGED <<tasks, task_id_next, lock>>

\* Such a step keeps the invariant.
LEMMA WalkKeeps ==
  ASSUME IInv, NEW th \in Threads, Walk(th)
  PROVE  IInv'
<1>1. /\ thread \in [Threads -> Thread] /\ task \in [Threads -> Task]
      /\ TypeOK /\ Places /\ Births /\ Doom /\ CountsTheInside
  BY Typed DEF IInv
<1>2. \A u \in Threads : u # th => thread'[u] = thread[u]
  BY <1>1 DEF Walk, OneThread
<1>3. TypeOK'
  <2>1. thread' \in [Threads -> Thread]
    BY <1>1 DEF Walk, OneThread
  <2>2. doomed' \subseteq Tasks
    BY <1>1 DEF Walk, BreaksKept, TypeOK
  <2> QED BY <1>1, <2>1, <2>2 DEF Walk, TypeOK, Thread, Task
<1>4. Places'
  BY <1>1, <1>2 DEF Walk, Places
<1>5. /\ ~Bears(th)' /\ ~Bears(th)
      /\ thread[th].pc \notin {"none", "start"} /\ thread'[th].pc \notin {"none", "start"}
  BY DEF Walk, Inner, EndPCs, Bears
<1>6. Births'
  <2>1. \A t \in Tasks : task'[t].state = "none" => thread'[t].pc = "none"
    BY <1>1, <1>2, <1>5, MainApart DEF Walk, Births
  <2>2. \A t \in Threads : task'[t].state = "before_start" => thread'[t].pc \in {"none", "start"}
    BY <1>1, <1>2, <1>5 DEF Walk, Births
  <2>3. \A n \in DOMAIN tasks' : thread'[tasks'[n]].pc # "none"
    <3>1. tasks' = tasks /\ \A n \in DOMAIN tasks : tasks[n] \in Threads
      BY <1>1, ListedThreads DEF Walk
    <3>2. \A t \in Threads : thread[t].pc # "none" => thread'[t].pc # "none"
      BY <1>2, <1>5
    <3>3. \A n \in DOMAIN tasks : thread[tasks[n]].pc # "none"
      BY <1>1 DEF Births
    <3> QED BY <3>1, <3>2, <3>3
  <2>4. \A u \in Threads : Bears(u)' =>
           /\ Bears(u) /\ u # th /\ thread'[u].born = thread[u].born
    BY <1>2, <1>5 DEF Bears
  <2>5. \A u \in Threads : Bears(u)' =>
           /\ thread'[u].born \in Tasks
           /\ thread'[thread'[u].born].pc = "none"
           /\ task'[thread'[u].born].state = "before_start"
    <3>1. SUFFICES ASSUME NEW u \in Threads, Bears(u)'
                   PROVE  /\ thread'[u].born \in Tasks
                          /\ thread'[thread'[u].born].pc = "none"
                          /\ task'[thread'[u].born].state = "before_start"
      OBVIOUS
    <3> DEFINE t == thread[u].born
    <3>2. Bears(u) /\ thread'[u].born = t
      BY <2>4, <3>1
    <3>3. t \in Tasks /\ thread[t].pc = "none" /\ task[t].state = "before_start"
      BY <1>1, <3>2 DEF Births
    <3>4. t # th /\ t \in Threads
      BY <1>5, <3>3, MainApart
    <3>5. thread'[t] = thread[t] /\ task'[t].state = task[t].state
      BY <1>2, <3>4 DEF Walk
    <3> QED BY <3>2, <3>3, <3>5
  <2>6. \A u, v \in Threads : Bears(u)' /\ Bears(v)' /\ u # v =>
           thread'[u].born # thread'[v].born
    BY <1>1, <2>4 DEF Births
  <2> QED BY <2>1, <2>2, <2>3, <2>5, <2>6 DEF Births
<1>7. Doom'
  <2>1. \A t \in doomed' : t \in Threads /\ t # th
    BY <1>1, MainApart DEF Walk, BreaksKept, Doom, Inner, EndPCs, TypeOK, PastPost
  <2>2. \A t \in doomed' : thread'[t] = thread[t] /\ (task[t].breaked => task'[t].breaked)
    BY <1>2, <2>1 DEF Walk, BreaksKept
  <2> QED BY <1>1, <2>2 DEF Walk, BreaksKept, Doom
<1>8. CountsTheInside'
  <2>1. Inside' = Inside
    BY <1>2, MainApart DEF Inside, Outside, PastPost, Walk, Inner, EndPCs
  <2>2. Cardinality(Inside)' = Cardinality(Inside)
    BY <2>1
  <2> QED BY <1>1, <2>2, InsideFinite, Typed DEF Walk, CountsTheInside
<1> QED BY <1>3, <1>4, <1>6, <1>7, <1>8 DEF IInv

\* A step that breaks no task leaves every break as Walk wants it.
LEMMA Unbroken ==
  ASSUME doomed' = doomed, \A t \in Threads : task'[t].breaked = task[t].breaked
  PROVE  BreaksKept
BY DEF BreaksKept

\* A step that changes thread th only, within its places, is a walk.
LEMMA RecordWalk ==
  ASSUME IInv, NEW th \in Threads, NEW r \in Thread, OneThread(th, r),
         thread[th].pc \in Inner, r.pc \in Inner,
         r.pc \in (IF th = Main THEN MainPCs ELSE BodyPCs),
         r.ret \in Returns(th), r.after \in Afters(th),
         r.next \in {"running", "sleeping", "done"},
         Awaits(r) => r.queue # <<>>,
         core_lock' \in Threads \cup {NoOne},
         UNCHANGED <<task, tasks, tasks_running, task_id_next, lock, doomed>>
  PROVE  Walk(th)
<1>1. thread \in [Threads -> Thread] /\ task \in [Threads -> Task] /\ tasks_running \in Nat
  BY Typed DEF IInv
<1>2. thread'[th] = r
  BY <1>1 DEF OneThread
<1>3. OneThread(th, thread'[th])
  BY <1>2 DEF OneThread
<1>4. task' = task /\ tasks_running' = tasks_running /\ doomed' = doomed
  OBVIOUS
<1> QED BY <1>1, <1>2, <1>3, <1>4, Unbroken DEF Walk

\* Going from place to place is a walk.
LEMMA GotoWalk ==
  ASSUME IInv, NEW th \in Threads, NEW pc, Goto(th, pc),
         thread[th].pc \in Inner, pc \in Inner,
         \/ pc \notin {"wait", "schedule", "critical"}
         \/ pc = "critical" /\ thread[th].pc = "schedule",
         pc \in (IF th = Main THEN MainPCs ELSE BodyPCs),
         core_lock' \in Threads \cup {NoOne},
         UNCHANGED <<task, tasks, tasks_running, task_id_next, lock, doomed>>
  PROVE  Walk(th)
<1> DEFINE r == [thread[th] EXCEPT !.pc = pc]
<1>1. thread \in [Threads -> Thread] /\ Places
  BY Typed DEF IInv
<1>2. thread[th] \in Thread /\ pc \in PCs
  BY <1>1 DEF Inner, EndPCs, PCs
<1>3. r \in Thread /\ r.pc = pc /\ r.ret = thread[th].ret /\ r.after = thread[th].after
      /\ r.next = thread[th].next
  BY <1>2 DEF Thread
<1>4. OneThread(th, r)
  BY <1>1 DEF Goto, OneThread
<1>5. r.ret \in Returns(th) /\ r.after \in Afters(th)
      /\ r.next \in {"running", "sleeping", "done"}
      /\ (Awaits(r) => r.queue # <<>>)
  BY <1>1, <1>2, <1>3 DEF Places, Awaits, Thread
<1> HIDE DEF r
<1> QED BY <1>3, <1>4, <1>5, RecordWalk

\* Calling r_core_task_schedule is a walk, with the locals of f.
LEMMA CallWalk ==
  ASSUME IInv, NEW th \in Threads, NEW f \in Thread,
         NEW next \in {"running", "sleeping", "done"}, NEW ret \in Returns(th),
         Call(th, f, next, ret), f.after \in Afters(th), thread[th].pc \in Inner,
         ret = "wait" => f.queue # <<>>,
         core_lock' \in Threads \cup {NoOne},
         UNCHANGED <<task, tasks, tasks_running, task_id_next, lock, doomed>>
  PROVE  Walk(th)
<1> DEFINE r == [f EXCEPT !.pc = "schedule", !.next = next, !.ret = ret]
<1>1. ret \in PCs /\ next \in States /\ "schedule" \in PCs
  BY DEF Returns, PCs, States
<1>2. r \in Thread /\ r.pc = "schedule" /\ r.ret = ret /\ r.after = f.after /\ r.next = next
      /\ (Awaits(r) => r.queue # <<>>)
  BY <1>1 DEF Thread, Awaits
<1>3. OneThread(th, r)
  BY DEF Call, OneThread
<1>4. "schedule" \in Inner /\ "schedule" \in (IF th = Main THEN MainPCs ELSE BodyPCs)
  BY DEF Inner, MainPCs, BodyPCs
<1> HIDE DEF r
<1> QED BY <1>2, <1>3, <1>4, RecordWalk

\* What the invariant says of one thread.
LEMMA OfThread ==
  ASSUME IInv, NEW th \in Threads
  PROVE  /\ thread[th] \in Thread
         /\ thread[th].pc \in (IF th = Main THEN MainPCs ELSE BodyPCs)
         /\ thread[th].ret \in Returns(th) /\ thread[th].after \in Afters(th)
         /\ thread[th].next \in {"running", "sleeping", "done"}
         /\ Awaits(thread[th]) => thread[th].queue # <<>>
         /\ core_lock \in Threads \cup {NoOne} /\ lock \in Threads \cup {NoOne}
BY Typed DEF IInv, Places

\* r_core_task_schedule is a walk, whatever it sets the state to.
LEMMA ScheduleWalk ==
  ASSUME IInv, NEW th \in Threads, EnterCritical(th) \/ DoSchedule(th)
  PROVE  Walk(th)
<1>1. CASE EnterCritical(th)
  <2>1. thread[th].pc \in Inner /\ "critical" \in Inner
        /\ "critical" \in (IF th = Main THEN MainPCs ELSE BodyPCs)
    BY <1>1 DEF EnterCritical, At, Inner, MainPCs, BodyPCs
  <2>2. Goto(th, "critical") /\ core_lock' \in Threads \cup {NoOne}
        /\ UNCHANGED <<task, tasks, tasks_running, task_id_next, lock, doomed>>
    BY <1>1 DEF EnterCritical
  <2>3. thread[th].pc = "schedule"
    BY <1>1 DEF EnterCritical, At
  <2> QED BY <2>1, <2>2, <2>3, GotoWalk
<1>2. CASE DoSchedule(th)
  <2> DEFINE r == [thread[th] EXCEPT !.pc = thread[th].ret]
  <2>1. /\ thread \in [Threads -> Thread] /\ task \in [Threads -> Task] /\ tasks_running \in Nat
        /\ thread[th] \in Thread
    BY Typed, OfThread DEF IInv
  <2>2. OneThread(th, r) /\ r \in Thread
        /\ r.pc = thread[th].ret /\ r.ret = thread[th].ret
        /\ r.after = thread[th].after /\ r.next = thread[th].next
        /\ (Awaits(r) => r.queue # <<>>)
    BY <1>2, <2>1, OfThread DEF DoSchedule, At, Goto, OneThread, Thread, Awaits, Returns
  <2>3. r.pc \in Inner /\ r.pc \in (IF th = Main THEN MainPCs ELSE BodyPCs)
        /\ thread[th].pc \in Inner
    BY <1>2, <2>2, OfThread DEF DoSchedule, At, Inner, EndPCs, MainPCs, BodyPCs, Returns
  <2> HIDE DEF r
  <2>4. thread'[th] = r /\ OneThread(th, thread'[th])
    BY <2>1, <2>2 DEF OneThread
  <2>5. Schedule(th, thread[th].next) /\ core_lock' = NoOne
        /\ UNCHANGED <<tasks, task_id_next, lock, doomed>>
    BY <1>2 DEF DoSchedule
  <2>6. /\ task' \in [Threads -> Task]
        /\ \A t \in Threads : /\ task'[t].breaked = task[t].breaked
                              /\ \/ task'[t].state = task[t].state
                                 \/ t = th /\ task'[t].state \in {"running", "sleeping", "done"}
    <3>1. thread[th].next \in {"running", "sleeping", "done"} /\ thread[th].next \in States
      BY OfThread DEF States
    <3> QED BY <2>1, <2>5, <3>1 DEF Schedule, Task
  <2>7. tasks_running' \in Nat /\ tasks_running' <= tasks_running
    BY <2>1, <2>5 DEF Schedule, Count
  <2>8. doomed' = doomed
    BY <2>5
  <2> QED BY <2>2, <2>3, <2>4, <2>5, <2>6, <2>7, <2>8, Unbroken, OfThread DEF Walk
<1> QED BY <1>1, <1>2

\* Spending a command leaves the rest of a thread as it is.
LEMMA SpentKind ==
  ASSUME IInv, NEW th \in Threads, MayCommand(th)
  PROVE  /\ Spent(th) \in Thread /\ Spent(th).after = thread[th].after
         /\ Spent(th).ret = thread[th].ret /\ Spent(th).next = thread[th].next
         /\ Spent(th).queue = thread[th].queue /\ Spent(th).pc = "cmd"
         /\ Spent(th).born = thread[th].born
         /\ thread[th].pc \in Inner
<1>1. thread[th] \in Thread /\ thread[th].cmds > 0 /\ thread[th].pc = "cmd"
  BY OfThread DEF MayCommand, At
<1>2. thread[th].cmds - 1 \in Nat
  BY <1>1 DEF Thread
<1> QED BY <1>1, <1>2 DEF Spent, Thread, Inner

\* The task an id stands for is a listed one.
LEMMA GetListed ==
  ASSUME TypeOK, NEW i, Listed(i) # {}
  PROVE  /\ Get(i) \in Threads
         /\ \E n \in DOMAIN tasks : tasks[n] = Get(i)
         /\ task[Get(i)].id = i
<1>1. Listed(i) \subseteq Nat /\ Listed(i) \subseteq DOMAIN tasks
  BY DEF Listed, TypeOK
<1>2. PICK n \in Listed(i) : \A m \in Listed(i) : n <= m
  BY <1>1, LeastExists
<1> DEFINE k == CHOOSE m \in Listed(i) : \A j \in Listed(i) : m <= j
<1>3. k \in Listed(i)
  BY <1>2
<1>4. k \in DOMAIN tasks /\ task[tasks[k]].id = i /\ Get(i) = tasks[k]
  BY <1>3 DEF Listed, Get
<1> QED BY <1>4, ListedThreads

\* Yielding, and beginning to wait for one task or for all, is a walk.
LEMMA CommandWalk ==
  ASSUME IInv, NEW th \in Threads, NEW i, Yield(th) \/ JoinOne(th, i) \/ JoinAll(th)
  PROVE  Walk(th)
<1>1. /\ MayCommand(th)
      /\ core_lock' \in Threads \cup {NoOne}
      /\ UNCHANGED <<task, tasks, tasks_running, task_id_next, lock, doomed>>
  BY OfThread DEF Yield, JoinOne, JoinAll
<1>2. /\ Spent(th) \in Thread /\ Spent(th).after = thread[th].after
      /\ Spent(th).ret = thread[th].ret /\ Spent(th).next = thread[th].next
      /\ thread[th].pc \in Inner
  BY <1>1, SpentKind
<1>3. CASE Yield(th)
  <2>1. "cmd" \in Returns(th) /\ "running" \in {"running", "sleeping", "done"}
    BY DEF Returns
  <2>2. Call(th, Spent(th), "running", "cmd") /\ Spent(th).after \in Afters(th)
    BY <1>2, <1>3, OfThread DEF Yield
  <2> QED BY <1>1, <1>2, <2>1, <2>2, CallWalk
<1>4. ASSUME NEW q \in Seq(Threads),
             OneThread(th, [Spent(th) EXCEPT !.pc = "join", !.queue = q, !.after = "cmd"])
      PROVE  Walk(th)
  <2> DEFINE r == [Spent(th) EXCEPT !.pc = "join", !.queue = q, !.after = "cmd"]
  <2>1. r \in Thread /\ r.pc = "join" /\ r.after = "cmd" /\ ~Awaits(r)
        /\ r.ret = thread[th].ret /\ r.next = thread[th].next
    BY <1>2, <1>4 DEF Thread, PCs, Awaits
  <2>2. "join" \in Inner /\ "join" \in (IF th = Main THEN MainPCs ELSE BodyPCs)
        /\ "cmd" \in Afters(th)
    BY DEF Inner, MainPCs, BodyPCs, Afters
  <2>3. OneThread(th, r)
    BY <1>4
  <2> HIDE DEF r
  <2> QED BY <1>1, <1>2, <2>1, <2>2, <2>3, OfThread, RecordWalk
<1>5. CASE JoinOne(th, i)
  <2>1. Get(i) \in Threads
    BY <1>5, GetListed DEF JoinOne, IInv
  <2>2. <<Get(i)>> \in Seq(Threads)
        /\ OneThread(th, [Spent(th) EXCEPT !.pc = "join", !.queue = <<Get(i)>>, !.after = "cmd"])
    BY <1>5, <2>1 DEF JoinOne, OneThread
  <2> QED BY <1>4, <2>2
<1>6. CASE JoinAll(th)
  <2>1. tasks \in Seq(Threads)
        /\ OneThread(th, [Spent(th) EXCEPT !.pc = "join", !.queue = tasks, !.after = "cmd"])
    BY <1>6, Typed DEF JoinAll, OneThread, Snapshot, IInv
  <2> QED BY <1>4, <2>1
<1> QED BY <1>1, <1>3, <1>5, <1>6

\* Dropping the head of the list of waits keeps a thread's record in its kind.
LEMMA TailKind ==
  ASSUME NEW r \in Thread, r.queue # <<>>
  PROVE  /\ Head(r.queue) \in Threads
         /\ [r EXCEPT !.queue = Tail(@)] \in Thread
         /\ [r EXCEPT !.queue = Tail(@)].queue = Tail(r.queue)
<1>1. r.queue \in Seq(Threads)
  BY DEF Thread
<1>2. Head(r.queue) \in Threads /\ Tail(r.queue) \in Seq(Threads)
  BY <1>1
<1>3. \A q \in Seq(Threads) :
        [r EXCEPT !.queue = q] \in Thread /\ [r EXCEPT !.queue = q].queue = q
  BY DEF Thread
<1> QED BY <1>2, <1>3

\* The loop of r_core_task_join and its waits are walks.
LEMMA JoinWalk ==
  ASSUME IInv, NEW th \in Threads,
         JoinNext(th) \/ JoinWait(th) \/ JoinInterrupted(th)
  PROVE  Walk(th)
<1> DEFINE q == thread[th].queue
           f == [thread[th] EXCEPT !.queue = Tail(@)]
<1>1. /\ core_lock' \in Threads \cup {NoOne} /\ thread[th].pc \in Inner
      /\ UNCHANGED <<tasks, tasks_running, task_id_next, lock, doomed>>
      /\ "wait" \in Returns(th) /\ "join" \in Returns(th)
  BY OfThread DEF JoinNext, JoinWait, JoinInterrupted, At, Inner, Returns
<1>2. thread[th] \in Thread /\ thread[th].after \in Afters(th)
  BY OfThread
<1>6. JoinWait(th) \/ JoinInterrupted(th) => q # <<>>
  BY OfThread DEF JoinWait, JoinInterrupted, At, Awaits
<1>3. CASE JoinNext(th)
  <2>1. UNCHANGED task
    BY <1>3 DEF JoinNext
  <2>2. CASE q = <<>> /\ Goto(th, thread[th].after)
    <3>1. thread[th].after \in Inner /\ thread[th].after \notin {"wait", "schedule", "critical"}
          /\ thread[th].after \in (IF th = Main THEN MainPCs ELSE BodyPCs)
      BY <1>2 DEF Inner, EndPCs, MainPCs, BodyPCs, Afters
    <3> QED BY <1>1, <2>1, <2>2, <3>1, GotoWalk
  <2>3. CASE q # <<>> /\ thread' = [thread EXCEPT ![th].queue = Tail(q)]
    <3>1. f \in Thread /\ f.pc = thread[th].pc /\ f.ret = thread[th].ret
          /\ f.after = thread[th].after /\ f.next = thread[th].next /\ ~Awaits(f)
      BY <1>2, <1>3, <2>3, TailKind DEF JoinNext, At, Awaits
    <3>2. OneThread(th, f)
      BY <2>3, Typed DEF OneThread, IInv
    <3> HIDE DEF f
    <3> QED BY <1>1, <2>1, <3>1, <3>2, OfThread, RecordWalk
  <2>4. CASE q # <<>> /\ Call(th, thread[th], "sleeping", "wait")
    BY <1>1, <1>2, <2>1, <2>4, CallWalk
  <2> QED BY <1>3, <2>2, <2>3, <2>4 DEF JoinNext
<1>4. CASE JoinWait(th)
  <2>1. f \in Thread /\ f.after \in Afters(th)
    BY <1>2, <1>4, <1>6, TailKind
  <2>2. UNCHANGED task /\ Call(th, f, "running", "join")
    BY <1>4 DEF JoinWait, Passed
  <2> HIDE DEF f
  <2> QED BY <1>1, <2>1, <2>2, CallWalk
<1>5. CASE JoinInterrupted(th)
  <2> DEFINE t == Head(q)
             r == [f EXCEPT !.pc = "schedule", !.next = "running", !.ret = "join"]
  <2>1. f \in Thread /\ f.after = thread[th].after /\ t \in Threads
    <3>1. q # <<>>
      BY <1>5, <1>6
    <3> QED BY <1>2, <3>1, TailKind
  <2>2. task' = [task EXCEPT ![t].sem = @ + 1] /\ thread' = [thread EXCEPT ![th] = r]
    BY <1>5 DEF JoinInterrupted, Call
  <2>3. /\ thread \in [Threads -> Thread] /\ task \in [Threads -> Task]
        /\ tasks_running \in Nat
    BY Typed DEF IInv
  <2>4. r \in Thread /\ r.pc = "schedule" /\ r.ret = "join" /\ r.next = "running"
        /\ r.after = thread[th].after
    <3> HIDE DEF f
    <3> QED BY <2>1 DEF Thread, PCs, States
  <2>5. /\ "schedule" \in Inner /\ "schedule" \in (IF th = Main THEN MainPCs ELSE BodyPCs)
    BY DEF Inner, MainPCs, BodyPCs
  <2> HIDE DEF r
  <2>6. thread'[th] = r /\ OneThread(th, thread'[th]) /\ ~Awaits(r)
    BY <2>2, <2>3, <2>4 DEF OneThread, Awaits
  <2>7. /\ task' \in [Threads -> Task]
        /\ \A u \in Threads : task'[u].breaked = task[u].breaked /\ task'[u].state = task[u].state
    <3> HIDE DEF t
    <3>1. task[t] \in Task /\ (task[t].sem \in Nat \/ task[t].sem = -1)
      BY <2>1, <2>3 DEF Task, NoSem
    <3>2. task[t].sem + 1 \in Nat \cup {NoSem}
      BY <3>1
    <3> QED BY <2>1, <2>2, <2>3, <3>2 DEF Task
  <2>8. tasks_running' \in Nat /\ tasks_running' <= tasks_running
    BY <1>1, <2>3
  <2> QED BY <1>1, <1>2, <2>4, <2>5, <2>6, <2>7, <2>8, Unbroken DEF Walk
<1> QED BY <1>3, <1>4, <1>5

\* What the main thread does at the prompt and at the end is a walk, except that it
\* breaks tasks.
LEMMA MainWalk ==
  ASSUME IInv,
         \/ Prompt \/ Input \/ Quit \/ QuitUnasked \/ AnswerNo \/ AnswerYes \/ Stay \/ Leave
         \/ CancelDone \/ SyncEnd \/ Fini \/ FiniWait \/ FiniJoined \/ Teardown \/ Reap
  PROVE  Walk(Main)
<1> DEFINE m == thread[Main]
<1>1. /\ m \in Thread /\ m.pc \in MainPCs /\ m.ret \in Returns(Main) /\ m.after \in Afters(Main)
      /\ m.next \in {"running", "sleeping", "done"}
      /\ Main \in Threads /\ tasks \in Seq(Threads) /\ thread \in [Threads -> Thread]
  BY OfThread, MainApart, Typed DEF IInv
<1>2. /\ m.pc \in Inner /\ core_lock' \in Threads \cup {NoOne}
      /\ UNCHANGED <<task, tasks, tasks_running, task_id_next, lock, doomed>>
  <2>1. UNCHANGED core_lock
        /\ UNCHANGED <<task, tasks, tasks_running, task_id_next, lock, doomed>>
    BY DEF Prompt, Input, Quit, QuitUnasked, AnswerNo, AnswerYes, Stay, Leave, CancelDone,
           SyncEnd, Fini, FiniWait, FiniJoined, Teardown, Reap, MainTo, MainCall, Passed
  <2>2. m.pc \in {"cmd", "input", "ask", "leaving", "sync_end", "fini"} \cup EndPCs
    BY DEF Prompt, Input, Quit, QuitUnasked, AnswerNo, AnswerYes, Stay, Leave, CancelDone,
           SyncEnd, Fini, FiniWait, FiniJoined, Teardown, Reap, At, EndPCs
  <2> QED BY <2>1, <2>2, OfThread, MainApart DEF Inner
<1>3. ASSUME NEW pc \in {"cmd", "leaving", "sync_end", "teardown", "reap", "over"}, MainTo(pc)
      PROVE  Walk(Main)
  <2>1. pc \in Inner /\ pc \in (IF Main = Main THEN MainPCs ELSE BodyPCs)
        /\ pc \notin {"wait", "schedule", "critical"}
    BY DEF Inner, EndPCs, MainPCs
  <2> QED BY <1>1, <1>2, <1>3, <2>1, GotoWalk DEF MainTo
<1>4. ASSUME NEW next \in {"running", "sleeping", "done"},
             NEW ret \in {"cmd", "input", "ask", "fini"}, MainCall(next, ret)
      PROVE  Walk(Main)
  <2>1. ret \in Returns(Main) /\ ret # "wait"
    BY DEF Returns
  <2> QED BY <1>1, <1>2, <1>4, <2>1, CallWalk DEF MainCall
<1>5. CASE \/ Prompt \/ Input \/ Quit \/ QuitUnasked \/ AnswerNo \/ Stay \/ Leave
           \/ SyncEnd \/ FiniJoined \/ Teardown \/ Reap
  BY <1>3, <1>4, <1>5 DEF Prompt, Input, Quit, QuitUnasked, AnswerNo, Stay, Leave, SyncEnd,
                          FiniJoined, Teardown, Reap
<1>6. CASE AnswerYes
  <2> DEFINE f == [m EXCEPT !.cursor = 1, !.after = "leaving"]
  <2>3. 1 \in Nat \ {0}
    OBVIOUS
  <2>1. f \in Thread /\ f.after \in Afters(Main)
    BY <1>1, <2>3 DEF Thread, PCs, Afters
  <2>2. "cancel" \in Returns(Main) /\ Call(Main, f, "running", "cancel")
    BY <1>6 DEF AnswerYes, Returns
  <2> HIDE DEF f
  <2> QED BY <1>1, <1>2, <2>1, <2>2, CallWalk
<1>7. CASE CancelDone
  <2> DEFINE r == [m EXCEPT !.pc = IF m.after = "leaving" THEN "join" ELSE "fini_wait",
                            !.queue = tasks]
  <2>1. r \in Thread /\ r.pc \in {"join", "fini_wait"} /\ r.ret = m.ret /\ r.after = m.after
        /\ r.next = m.next
    BY <1>1 DEF Thread, PCs
  <2>2. OneThread(Main, r)
    BY <1>7 DEF CancelDone, OneThread, Snapshot
  <2> HIDE DEF r
  <2>3. ~Awaits(r) /\ r.pc \in Inner /\ r.pc \in (IF Main = Main THEN MainPCs ELSE BodyPCs)
    BY <2>1 DEF Awaits, Inner, EndPCs, MainPCs
  <2> QED BY <1>1, <1>2, <2>1, <2>2, <2>3, RecordWalk
<1>8. CASE Fini
  <2> DEFINE r == [m EXCEPT !.pc = "cancel", !.cursor = 1, !.after = "teardown"]
  <2>0. 1 \in Nat \ {0}
    OBVIOUS
  <2>1. r \in Thread /\ r.pc = "cancel" /\ r.ret = m.ret /\ r.after = "teardown"
        /\ r.next = m.next
    BY <1>1, <2>0 DEF Thread, PCs
  <2>2. OneThread(Main, r)
    BY <1>8 DEF Fini, OneThread
  <2> HIDE DEF r
  <2>3. ~Awaits(r) /\ r.pc \in Inner /\ r.pc \in (IF Main = Main THEN MainPCs ELSE BodyPCs)
        /\ r.after \in Afters(Main)
    BY <2>1 DEF Awaits, Inner, EndPCs, MainPCs, Afters
  <2> QED BY <1>1, <1>2, <2>1, <2>2, <2>3, RecordWalk
<1>9. CASE FiniWait
  <2> DEFINE r == [m EXCEPT !.queue = Tail(@)]
  <2>1. r \in Thread /\ r.pc = "fini_wait" /\ r.ret = m.ret /\ r.after = m.after
        /\ r.next = m.next
    BY <1>1, <1>9, TailKind DEF FiniWait, At
  <2>2. OneThread(Main, r)
    BY <1>1, <1>9 DEF FiniWait, OneThread
  <2> HIDE DEF r
  <2>3. ~Awaits(r) /\ r.pc \in Inner /\ r.pc \in (IF Main = Main THEN MainPCs ELSE BodyPCs)
    BY <2>1 DEF Awaits, Inner, EndPCs, MainPCs
  <2> QED BY <1>1, <1>2, <2>1, <2>2, <2>3, RecordWalk
<1> QED BY <1>5, <1>6, <1>7, <1>8, <1>9

\* Breaking a task is a walk of the thread that breaks it.
LEMMA BreakWalk ==
  ASSUME IInv, NEW th \in Threads, NEW i, Break(th, i) \/ (th = Main /\ CancelItem)
  PROVE  Walk(th)
<1>1. /\ thread \in [Threads -> Thread] /\ task \in [Threads -> Task] /\ tasks_running \in Nat
      /\ thread[th] \in Thread /\ TypeOK /\ Births
  BY Typed, OfThread DEF IInv
<1>2. ASSUME NEW t \in Threads, NEW n \in DOMAIN tasks, tasks[n] = t,
             task' = Broken(t), doomed' = DoomedBy(t)
      PROVE  /\ task' \in [Threads -> Task] /\ BreaksKept
             /\ \A u \in Threads : task'[u].state = task[u].state
  <2>1. /\ task' \in [Threads -> Task]
        /\ \A u \in Threads : /\ task[u].breaked => task'[u].breaked
                              /\ task'[u].state = task[u].state
    <3>1. CASE t = Main
      BY <1>1, <1>2, <3>1 DEF Broken
    <3>2. CASE t # Main
      <4>1. task' = [task EXCEPT ![t].breaked = TRUE]
        BY <1>2, <3>2 DEF Broken
      <4>2. \A u \in Threads : task'[u] = IF u = t THEN [task[u] EXCEPT !.breaked = TRUE]
                               ELSE task[u]
        BY <1>1, <4>1
      <4>3. \A u \in Threads : task'[u] \in Task /\ task'[u].state = task[u].state
        BY <1>1, <4>2 DEF Task
      <4>4. \A u \in Threads : task[u].breaked => task'[u].breaked
        BY <1>1, <4>2 DEF Task
      <4> QED BY <1>1, <4>1, <4>3, <4>4
    <3> QED BY <3>1, <3>2
  <2>2. thread[t].pc # "none"
    BY <1>1, <1>2 DEF Births
  <2>3. task[t].state = "before_start" => thread[t].pc = "start"
    BY <1>1, <2>2 DEF Births
  <2>4. thread[t].pc = "start" => t # Main /\ t \in Tasks
    BY <1>2, OfThread DEF MainPCs, EndPCs, Threads
  <2>5. t # Main => task'[t].breaked
    BY <1>1, <1>2 DEF Broken
  <2> QED BY <1>2, <2>1, <2>3, <2>4, <2>5 DEF DoomedBy, BreaksKept
<1>3. CASE Break(th, i)
  <2> DEFINE r == Spent(th)
  <2>1. MayCommand(th) /\ OneThread(th, r) /\ Listed(i) # {}
        /\ task' = Broken(Get(i)) /\ doomed' = DoomedBy(Get(i))
        /\ UNCHANGED <<tasks, tasks_running, task_id_next, lock, core_lock>>
    BY <1>3 DEF Break, OneThread
  <2>2. r \in Thread /\ r.pc = "cmd" /\ r.ret = thread[th].ret /\ r.after = thread[th].after
        /\ r.next = thread[th].next /\ thread[th].pc \in Inner
    BY <2>1, SpentKind
  <2>3. Get(i) \in Threads /\ \E n \in DOMAIN tasks : tasks[n] = Get(i)
    BY <1>1, <2>1, GetListed
  <2>4. /\ task' \in [Threads -> Task] /\ BreaksKept
        /\ \A u \in Threads : task'[u].state = task[u].state
    BY <1>2, <2>1, <2>3
  <2> HIDE DEF r
  <2>5. ~Awaits(r) /\ r.pc \in Inner /\ r.pc \in (IF th = Main THEN MainPCs ELSE BodyPCs)
    BY <2>2 DEF Awaits, Inner, MainPCs, BodyPCs
  <2>6. thread'[th] = r /\ OneThread(th, thread'[th])
    BY <1>1, <2>1 DEF OneThread
  <2>7. tasks_running' \in Nat /\ tasks_running' <= tasks_running
    BY <1>1, <2>1
  <2> QED BY <2>1, <2>2, <2>4, <2>5, <2>6, <2>7, OfThread DEF Walk
<1>4. CASE th = Main /\ CancelItem
  <2> DEFINE r == [thread[th] EXCEPT !.cursor = @ + 1]
             t == tasks[thread[th].cursor]
  <2>1. /\ thread[th].pc = "cancel" /\ OneThread(th, r)
        /\ thread[th].cursor <= Len(tasks)
        /\ UNCHANGED <<tasks, tasks_running, task_id_next, lock, core_lock>>
        /\ \/ UNCHANGED <<task, doomed>>
           \/ task' = Broken(t) /\ doomed' = DoomedBy(t)
    BY <1>4 DEF CancelItem, At, OneThread
  <2>0. thread[th].cursor + 1 \in Nat \ {0}
    BY <1>1 DEF Thread
  <2>2. r \in Thread /\ r.pc = "cancel" /\ r.ret = thread[th].ret /\ r.after = thread[th].after
        /\ r.next = thread[th].next
    BY <1>1, <2>0, <2>1 DEF Thread
  <2>3. /\ task' \in [Threads -> Task] /\ BreaksKept
        /\ \A u \in Threads : task'[u].state = task[u].state
    <3>1. CASE UNCHANGED <<task, doomed>>
      BY <1>1, <3>1, Unbroken
    <3>2. CASE task' = Broken(t) /\ doomed' = DoomedBy(t)
      <4>1. thread[th].cursor \in DOMAIN tasks
        BY <1>1, <1>4, <2>1 DEF Thread, TypeOK
      <4>2. t \in Threads
        BY <1>1, <4>1, ListedThreads
      <4> HIDE DEF t
      <4>3. \E n \in DOMAIN tasks : tasks[n] = t
        BY <4>1 DEF t
      <4> QED BY <1>2, <3>2, <4>2, <4>3
    <3> QED BY <2>1, <3>1, <3>2
  <2> HIDE DEF r
  <2>4. ~Awaits(r) /\ r.pc \in Inner /\ r.pc \in (IF th = Main THEN MainPCs ELSE BodyPCs)
        /\ thread[th].pc \in Inner
    BY <1>4, <2>1, <2>2 DEF Awaits, Inner, EndPCs, MainPCs
  <2>5. thread'[th] = r /\ OneThread(th, thread'[th])
    BY <1>1, <2>1 DEF OneThread
  <2>6. tasks_running' \in Nat /\ tasks_running' <= tasks_running
    BY <1>1, <2>1
  <2> QED BY <2>1, <2>2, <2>3, <2>4, <2>5, <2>6, OfThread DEF Walk
<1> QED BY <1>3, <1>4

-----------------------------------------------------------------------------
(* The life of a task.                                                      *)

\* How the step of one thread moves the set of threads inside task_run.
LEMMA InsideMoves ==
  ASSUME thread \in [Threads -> Thread], NEW t \in Threads, NEW r, OneThread(t, r)
  PROVE  Inside' = IF t \notin Tasks THEN Inside
                   ELSE IF r.pc \in Outside THEN Inside \ {t}
                   ELSE Inside \cup {t}
<1>1. \A u \in Threads : thread'[u] = IF u = t THEN r ELSE thread[u]
  BY DEF OneThread
<1> QED BY <1>1, MainApart DEF Inside

\* A step of task_run itself keeps the invariant, if it counts well and if it
\* takes no task to its command line that was broken before it ran.
LEMMA BodyKeeps ==
  ASSUME IInv, NEW t \in Tasks, NEW r \in Thread, NEW v \in Task,
         OneThread(t, r), task' = [task EXCEPT ![t] = v],
         thread[t].pc \in {"start", "check", "cmd", "end", "ending", "post", "posted", "event"},
         r.pc \in {"check", "cmd", "end", "ending", "post"} \cup PastPost,
         r.ret = thread[t].ret, r.after = thread[t].after, r.next = thread[t].next,
         \/ v.state \in {"running", "sleeping", "done"}
         \/ v.state = task[t].state /\ thread[t].pc # "start",
         t \in doomed => r.pc # "cmd" /\ (r.pc = "check" => v.breaked),
         tasks_running' \in Nat, tasks_running' <= Cardinality(Inside'),
         lock' \in Threads \cup {NoOne},
         UNCHANGED <<tasks, task_id_next, core_lock, doomed>>
  PROVE  IInv'
<1>1. /\ thread \in [Threads -> Thread] /\ task \in [Threads -> Task]
      /\ TypeOK /\ Places /\ Births /\ Doom
      /\ t \in Threads /\ t # Main
  BY Typed, MainApart DEF IInv
<1>2. /\ \A u \in Threads : thread'[u] = IF u = t THEN r ELSE thread[u]
      /\ \A u \in Threads : task'[u] = IF u = t THEN v ELSE task[u]
  BY <1>1 DEF OneThread
<1>3. TypeOK'
  <2>1. thread' \in [Threads -> Thread] /\ task' \in [Threads -> Task]
    BY <1>1 DEF OneThread
  <2> QED BY <1>1, <2>1 DEF TypeOK, Thread, Task
<1>4. Places'
  <2>1. ~Awaits(r) /\ r.pc \in BodyPCs
    BY DEF Awaits, BodyPCs, PastPost
  <2> QED BY <1>1, <1>2, <2>1 DEF Places
<1>5. ~Bears(t) /\ ~Bears(t)'
  BY <1>1, <1>2 DEF Bears, PastPost
<1>6. v.state # "none" /\ v.state # "before_start"
  BY <1>1 DEF Births
<1>7. Births'
  <2>1. \A u \in Tasks : task'[u].state = "none" => thread'[u].pc = "none"
    BY <1>1, <1>2, <1>6, MainApart DEF Births
  <2>2. \A u \in Threads : task'[u].state = "before_start" => thread'[u].pc \in {"none", "start"}
    BY <1>1, <1>2, <1>6 DEF Births
  <2>3. \A n \in DOMAIN tasks' : thread'[tasks'[n]].pc # "none"
    BY <1>1, <1>2, ListedThreads DEF Births, PastPost
  <2>4. \A u \in Threads : Bears(u)' => Bears(u) /\ u # t /\ thread'[u].born = thread[u].born
    BY <1>2, <1>5 DEF Bears
  <2>5. \A u \in Threads : Bears(u)' =>
           /\ thread'[u].born \in Tasks
           /\ thread'[thread'[u].born].pc = "none"
           /\ task'[thread'[u].born].state = "before_start"
    <3>1. SUFFICES ASSUME NEW u \in Threads, Bears(u)'
                   PROVE  /\ thread'[u].born \in Tasks
                          /\ thread'[thread'[u].born].pc = "none"
                          /\ task'[thread'[u].born].state = "before_start"
      OBVIOUS
    <3> DEFINE b == thread[u].born
    <3>2. Bears(u) /\ thread'[u].born = b
      BY <2>4, <3>1
    <3>3. b \in Tasks /\ thread[b].pc = "none" /\ task[b].state = "before_start"
      BY <1>1, <3>2 DEF Births
    <3>4. b # t /\ b \in Threads
      BY <3>3, MainApart
    <3>5. thread'[b] = thread[b] /\ task'[b] = task[b]
      BY <1>2, <3>4
    <3> QED BY <3>2, <3>3, <3>5
  <2>6. \A u, w \in Threads : Bears(u)' /\ Bears(w)' /\ u # w =>
           thread'[u].born # thread'[w].born
    BY <1>1, <2>4 DEF Births
  <2> QED BY <2>1, <2>2, <2>3, <2>5, <2>6 DEF Births
<1>8. Doom'
  <2>1. \A u \in doomed : u \in Threads
    BY <1>1, MainApart DEF TypeOK
  <2>2. t \in doomed => r.pc \in {"start", "check", "end", "ending", "post"} \cup PastPost
    OBVIOUS
  <2>3. \A u \in doomed : u # t => thread'[u] = thread[u] /\ task'[u] = task[u]
    BY <1>2, <2>1
  <2>4. t \in doomed => thread'[t].pc = r.pc /\ (r.pc \in {"start", "check"} => task'[t].breaked)
    BY <1>1, <1>2 DEF PastPost
  <2> QED BY <1>1, <2>2, <2>3, <2>4 DEF Doom
<1>9. CountsTheInside'
  BY DEF CountsTheInside
<1> QED BY <1>3, <1>4, <1>7, <1>8, <1>9 DEF IInv

\* The start of a task counts it; its end takes it from the count.
LEMMA BodyStep ==
  ASSUME IInv, NEW t \in Tasks, BodyNext(t)
  PROVE  IInv'
<1>1. /\ thread \in [Threads -> Thread] /\ task \in [Threads -> Task]
      /\ tasks_running \in Nat /\ tasks_running <= Cardinality(Inside)
      /\ Doom /\ Births
      /\ t \in Threads /\ thread[t] \in Thread /\ task[t] \in Task
      /\ lock \in Threads \cup {NoOne}
  BY Typed, MainApart DEF IInv, CountsTheInside
<1>2. ASSUME NEW pc \in PCs
      PROVE  LET r == [thread[t] EXCEPT !.pc = pc] IN
             /\ r \in Thread /\ r.pc = pc
             /\ r.ret = thread[t].ret /\ r.after = thread[t].after /\ r.next = thread[t].next
             /\ Goto(t, pc) => OneThread(t, r)
  BY <1>1, <1>2 DEF Thread, Goto, OneThread
<1>3. /\ {"check", "cmd", "end", "ending", "post", "posted", "event", "exited"} \subseteq PCs
      /\ {"running", "done"} \subseteq States
  BY DEF PCs, States
<1>4. CASE TaskStart(t)
  <2> DEFINE r == [thread[t] EXCEPT !.pc = "check"]
             v == [task[t] EXCEPT !.state = "running"]
  <2>1. /\ r \in Thread /\ r.pc = "check" /\ OneThread(t, r)
        /\ r.ret = thread[t].ret /\ r.after = thread[t].after /\ r.next = thread[t].next
        /\ thread[t].pc = "start"
    BY <1>2, <1>3, <1>4 DEF TaskStart, At
  <2>2. v \in Task /\ v.state = "running" /\ v.breaked = task[t].breaked
        /\ task' = [task EXCEPT ![t] = v]
    BY <1>1, <1>3, <1>4 DEF TaskStart, Task
  <2> HIDE DEF r, v
  <2>3. t \in doomed => v.breaked
    BY <1>1, <2>1, <2>2 DEF Doom
  <2>4. Inside' = Inside \cup {t} /\ t \notin Inside
    BY <1>1, <2>1, InsideMoves DEF Inside, Outside, PastPost
  <2>5. Cardinality(Inside') = Cardinality(Inside) + 1
    BY <2>4, InsideFinite, FS_AddElement
  <2>6. tasks_running' \in Nat /\ tasks_running' <= Cardinality(Inside')
    BY <1>1, <1>4, <2>5, InsideFinite DEF TaskStart
  <2>7. lock' \in Threads \cup {NoOne} /\ UNCHANGED <<tasks, task_id_next, core_lock, doomed>>
    BY <1>1, <1>4 DEF TaskStart
  <2> QED BY <2>1, <2>2, <2>3, <2>6, <2>7, BodyKeeps
<1>5. ASSUME NEW pc \in {"cmd", "end", "ending", "posted", "event", "exited"}, NEW v \in Task,
             thread[t].pc \in {"check", "cmd", "end", "post", "posted", "event"}, Goto(t, pc),
             pc \in Outside <=> thread[t].pc \in Outside,
             task' = [task EXCEPT ![t] = v], v.state = task[t].state,
             t \in doomed => pc # "cmd", lock' \in Threads \cup {NoOne},
             UNCHANGED <<tasks, tasks_running, task_id_next, core_lock, doomed>>
      PROVE  IInv'
  <2> DEFINE r == [thread[t] EXCEPT !.pc = pc]
  <2>1. /\ r \in Thread /\ r.pc = pc /\ OneThread(t, r)
        /\ r.ret = thread[t].ret /\ r.after = thread[t].after /\ r.next = thread[t].next
    BY <1>2, <1>3, <1>5
  <2> HIDE DEF r
  <2>2. Inside' = Inside
    <3>1. t \in Inside <=> r.pc \notin Outside
      BY <1>5, <2>1 DEF Inside
    <3> QED BY <1>1, <1>5, <2>1, <3>1, InsideMoves
  <2>3. tasks_running' \in Nat /\ tasks_running' <= Cardinality(Inside')
    BY <1>1, <1>5, <2>2
  <2>4. /\ thread[t].pc \in {"start", "check", "cmd", "end", "ending", "post", "posted", "event"}
        /\ r.pc \in {"check", "cmd", "end", "ending", "post"} \cup PastPost
        /\ thread[t].pc # "start" /\ r.pc # "check"
    BY <1>5, <2>1 DEF PastPost
  <2> QED BY <1>5, <2>1, <2>3, <2>4, BodyKeeps
<1>6. /\ task[t] \in Task /\ task = [task EXCEPT ![t] = task[t]]
      /\ \A pc \in {"check", "cmd", "end", "ending"} : pc \notin Outside
      /\ {"post", "posted", "event", "exited"} \subseteq Outside
  BY <1>1 DEF Outside, PastPost
<1>7. CASE TaskCheck(t)
  <2>1. thread[t].pc = "check" /\ Goto(t, IF task[t].breaked THEN "end" ELSE "cmd")
        /\ UNCHANGED <<task, tasks, tasks_running, task_id_next, lock, core_lock, doomed>>
    BY <1>7 DEF TaskCheck, At
  <2>2. t \in doomed => task[t].breaked
    BY <1>1, <2>1 DEF Doom
  <2>3. task' = [task EXCEPT ![t] = task[t]] /\ lock' \in Threads \cup {NoOne}
    BY <1>1, <1>6, <2>1
  <2>4. CASE task[t].breaked
    BY <1>5, <1>6, <2>1, <2>3, <2>4
  <2>5. CASE ~task[t].breaked
    BY <1>5, <1>6, <2>1, <2>2, <2>3, <2>5
  <2> QED BY <2>4, <2>5
<1>8. CASE FinishCmd(t)
  <2> DEFINE v == [task[t] EXCEPT !.res = TRUE]
  <2>1. v \in Task /\ v.state = task[t].state /\ task' = [task EXCEPT ![t] = v]
    BY <1>1, <1>8 DEF FinishCmd, Task
  <2> HIDE DEF v
  <2> QED BY <1>1, <1>5, <1>6, <1>8, <2>1 DEF FinishCmd, At
<1>9. CASE SeeBreak(t)
  <2> DEFINE v == [task[t] EXCEPT !.res = TRUE, !.breaked = FALSE]
  <2>1. v \in Task /\ v.state = task[t].state /\ task' = [task EXCEPT ![t] = v]
    BY <1>1, <1>9 DEF SeeBreak, Task
  <2> HIDE DEF v
  <2> QED BY <1>1, <1>5, <1>6, <1>9, <2>1 DEF SeeBreak, At
<1>10. CASE TaskEndEnter(t)
  <2>1. task' = [task EXCEPT ![t] = task[t]] /\ lock' \in Threads \cup {NoOne}
    BY <1>1, <1>6, <1>10 DEF TaskEndEnter
  <2> QED BY <1>5, <1>6, <1>10, <2>1 DEF TaskEndEnter, At
<1>11. CASE TaskEnd(t)
  <2> DEFINE r == [thread[t] EXCEPT !.pc = "post"]
             v == [task[t] EXCEPT !.state = "done"]
  <2>1. /\ r \in Thread /\ r.pc = "post" /\ OneThread(t, r)
        /\ r.ret = thread[t].ret /\ r.after = thread[t].after /\ r.next = thread[t].next
        /\ thread[t].pc = "ending"
    BY <1>2, <1>3, <1>11 DEF TaskEnd, At
  <2>2. v \in Task /\ v.state = "done" /\ task' = [task EXCEPT ![t] = v]
    BY <1>1, <1>3, <1>11 DEF TaskEnd, Task
  <2> HIDE DEF r, v
  <2>3. Inside' = Inside \ {t} /\ t \in Inside
    BY <1>1, <1>6, <2>1, InsideMoves DEF Inside
  <2>4. Cardinality(Inside') = Cardinality(Inside) - 1
    BY <2>3, InsideFinite, FS_RemoveElement
  <2>5. tasks_running' \in Nat /\ tasks_running' <= Cardinality(Inside')
    <3>1. tasks_running' = IF tasks_running > 0 THEN tasks_running - 1 ELSE tasks_running
      BY <1>11 DEF TaskEnd, Count
    <3> QED BY <1>1, <2>4, <3>1, InsideFinite
  <2>6. lock' \in Threads \cup {NoOne} /\ UNCHANGED <<tasks, task_id_next, core_lock, doomed>>
    BY <1>1, <1>11 DEF TaskEnd
  <2> QED BY <2>1, <2>2, <2>5, <2>6, BodyKeeps
<1>12. CASE TaskPost(t)
  <2> DEFINE v == [task[t] EXCEPT !.sem = @ + 1]
  <2>1. v \in Task /\ v.state = task[t].state /\ task' = [task EXCEPT ![t] = v]
    <3>1. task[t].sem + 1 \in Nat \cup {NoSem}
      BY <1>1 DEF Task, NoSem
    <3> QED BY <1>1, <1>12, <3>1 DEF TaskPost, Task, Post
  <2> HIDE DEF v
  <2>2. thread[t].pc = "post" /\ Goto(t, "posted") /\ lock' \in Threads \cup {NoOne}
        /\ UNCHANGED <<tasks, tasks_running, task_id_next, core_lock, doomed>>
    BY <1>1, <1>12 DEF TaskPost, At
  <2> QED BY <1>5, <1>6, <2>1, <2>2
<1>13. CASE TaskEndLeave(t)
  <2>1. thread[t].pc = "posted" /\ Goto(t, "event") /\ lock' \in Threads \cup {NoOne}
        /\ UNCHANGED <<task, tasks, tasks_running, task_id_next, core_lock, doomed>>
    BY <1>13 DEF TaskEndLeave, At
  <2> QED BY <1>5, <1>6, <2>1
<1>14. CASE TaskReturn(t)
  <2>1. thread[t].pc = "event" /\ Goto(t, "exited") /\ lock' \in Threads \cup {NoOne}
        /\ UNCHANGED <<task, tasks, tasks_running, task_id_next, core_lock, doomed>>
    BY <1>1, <1>14 DEF TaskReturn, At
  <2> QED BY <1>5, <1>6, <2>1
<1> QED BY <1>4, <1>7, <1>8, <1>9, <1>10, <1>11, <1>12, <1>13, <1>14 DEF BodyNext

-----------------------------------------------------------------------------
(* The birth of a task.                                                     *)

\* r_core_task_new takes a task that nobody has taken.
LEMMA NewTaskStep ==
  ASSUME IInv, NEW th \in Threads, NewTask(th)
  PROVE  IInv'
<1>1. /\ thread \in [Threads -> Thread] /\ task \in [Threads -> Task]
      /\ TypeOK /\ Places /\ Births /\ Doom /\ CountsTheInside
  BY Typed DEF IInv
<1>2. PICK t \in Tasks :
        /\ task[t].state = "none"
        /\ task' = [task EXCEPT ![t].state = "before_start", ![t].id = task_id_next]
        /\ OneThread(th, [Spent(th) EXCEPT !.pc = "new", !.born = t])
  BY DEF NewTask, OneThread
<1> DEFINE r == [Spent(th) EXCEPT !.pc = "new", !.born = t]
<1>3. /\ MayCommand(th)
      /\ UNCHANGED <<tasks, tasks_running, task_id_next, lock, core_lock, doomed>>
  BY DEF NewTask
<1>4. t \in Threads /\ thread[t].pc = "none" /\ thread[th].pc = "cmd" /\ t # th
  BY <1>1, <1>2, <1>3, MainApart DEF Births, MayCommand, At
<1>5. /\ r \in Thread /\ r.pc = "new" /\ r.born = t /\ ~Awaits(r)
      /\ r.ret = thread[th].ret /\ r.after = thread[th].after /\ r.next = thread[th].next
  <2>1. /\ Spent(th) \in Thread /\ Spent(th).after = thread[th].after
        /\ Spent(th).ret = thread[th].ret /\ Spent(th).next = thread[th].next
    BY <1>3, SpentKind
  <2>2. /\ r \in Thread /\ r.pc = "new" /\ r.born = t
        /\ r.ret = thread[th].ret /\ r.after = thread[th].after /\ r.next = thread[th].next
    BY <1>4, <2>1 DEF Thread, PCs
  <2> HIDE DEF r
  <2> QED BY <2>2 DEF Awaits
<1>6. OneThread(th, r)
  BY <1>2
<1> HIDE DEF r
<1>7. /\ \A u \in Threads : thread'[u] = IF u = th THEN r ELSE thread[u]
      /\ thread' \in [Threads -> Thread]
  BY <1>1, <1>5, <1>6 DEF OneThread
<1>8. /\ task' \in [Threads -> Task]
      /\ \A u \in Threads : /\ task'[u].breaked = task[u].breaked
                            /\ u # t => task'[u].state = task[u].state
      /\ task'[t].state = "before_start"
  <2>1. task_id_next \in Nat /\ "before_start" \in States
    BY <1>1, Typed DEF States
  <2> QED BY <1>1, <1>2, <1>4, <2>1 DEF Task
<1>9. TypeOK'
  BY <1>1, <1>3, <1>7, <1>8 DEF TypeOK, Thread, Task
<1>10. Places'
  <2>1. r.pc \in (IF th = Main THEN MainPCs ELSE BodyPCs)
    BY <1>5 DEF MainPCs, BodyPCs
  <2> QED BY <1>1, <1>5, <1>7, <2>1 DEF Places
<1>11. Births'
  <2>1. \A u \in Tasks : task'[u].state = "none" => thread'[u].pc = "none"
    BY <1>1, <1>4, <1>7, <1>8, MainApart DEF Births
  <2>2. \A u \in Threads : task'[u].state = "before_start" => thread'[u].pc \in {"none", "start"}
    BY <1>1, <1>4, <1>7, <1>8 DEF Births
  <2>3. \A n \in DOMAIN tasks' : thread'[tasks'[n]].pc # "none"
    BY <1>1, <1>3, <1>5, <1>7, ListedThreads DEF Births
  <2>4. \A u \in Threads : u # th /\ Bears(u)' => Bears(u) /\ thread'[u].born = thread[u].born
    BY <1>7 DEF Bears
  <2>5. \A u \in Threads : u # th /\ Bears(u)' => thread'[u].born # t
    BY <1>1, <1>2, <2>4 DEF Births
  <2>6. thread'[th].born = t
    BY <1>5, <1>7
  <2>7. \A u \in Threads : Bears(u)' =>
           /\ thread'[u].born \in Tasks
           /\ thread'[thread'[u].born].pc = "none"
           /\ task'[thread'[u].born].state = "before_start"
    <3>1. SUFFICES ASSUME NEW u \in Threads, Bears(u)', u # th
                   PROVE  /\ thread'[u].born \in Tasks
                          /\ thread'[thread'[u].born].pc = "none"
                          /\ task'[thread'[u].born].state = "before_start"
      BY <1>4, <1>7, <1>8, <2>6
    <3> DEFINE b == thread[u].born
    <3>2. Bears(u) /\ thread'[u].born = b /\ b # t
      BY <2>4, <2>5, <3>1
    <3>3. b \in Tasks /\ thread[b].pc = "none" /\ task[b].state = "before_start"
      BY <1>1, <3>2 DEF Births
    <3>4. b # th /\ b \in Threads
      BY <1>4, <3>3, MainApart
    <3>5. thread'[b] = thread[b] /\ task'[b].state = task[b].state
      BY <1>7, <1>8, <3>2, <3>4
    <3> QED BY <3>2, <3>3, <3>5
  <2>8. \A u, w \in Threads : Bears(u)' /\ Bears(w)' /\ u # w =>
           thread'[u].born # thread'[w].born
    BY <1>1, <2>4, <2>5, <2>6 DEF Births
  <2> QED BY <2>1, <2>2, <2>3, <2>7, <2>8 DEF Births
<1>12. Doom'
  <2>1. \A u \in doomed : u \in Threads /\ u # th
    BY <1>1, <1>4, MainApart DEF Doom, TypeOK, PastPost
  <2> QED BY <1>1, <1>3, <1>7, <1>8, <2>1 DEF Doom
<1>13. CountsTheInside'
  <2>1. Inside' = Inside
    BY <1>1, <1>4, <1>5, <1>6, InsideMoves DEF Inside, Outside, PastPost
  <2> QED BY <1>1, <1>3, <2>1 DEF CountsTheInside
<1> QED BY <1>9, <1>10, <1>11, <1>12, <1>13 DEF IInv

\* The id is stored; the task that is being made stays the same.
LEMMA StoreNextIdStep ==
  ASSUME IInv, NEW th \in Threads, StoreNextId(th)
  PROVE  IInv'
<1>1. /\ thread \in [Threads -> Thread] /\ task \in [Threads -> Task]
      /\ TypeOK /\ Places /\ Births /\ Doom /\ CountsTheInside
  BY Typed DEF IInv
<1>2. /\ thread[th].pc = "new" /\ Goto(th, "enqueue")
      /\ task_id_next' = task[thread[th].born].id + 1
      /\ UNCHANGED <<task, tasks, tasks_running, lock, core_lock, doomed>>
  BY DEF StoreNextId, At
<1> DEFINE r == [thread[th] EXCEPT !.pc = "enqueue"]
<1>3. /\ r \in Thread /\ r.pc = "enqueue" /\ r.born = thread[th].born /\ ~Awaits(r)
      /\ r.ret = thread[th].ret /\ r.after = thread[th].after /\ r.next = thread[th].next
  <2>1. /\ r \in Thread /\ r.pc = "enqueue" /\ r.born = thread[th].born
        /\ r.ret = thread[th].ret /\ r.after = thread[th].after /\ r.next = thread[th].next
    <3>1. thread[th] \in Thread /\ "enqueue" \in PCs
      BY <1>1 DEF PCs
    <3> QED BY <3>1, PlaceKind
  <2> HIDE DEF r
  <2> QED BY <2>1 DEF Awaits
<1>4. OneThread(th, r)
  BY <1>1, <1>2 DEF Goto, OneThread
<1> HIDE DEF r
<1>5. /\ \A u \in Threads : thread'[u] = IF u = th THEN r ELSE thread[u]
      /\ thread' \in [Threads -> Thread]
  BY <1>1, <1>3, <1>4 DEF OneThread
<1>6. task_id_next' \in Nat
  <2>1. thread[th].born \in Threads
    BY <1>1 DEF Thread
  <2> QED BY <1>1, <1>2, <2>1 DEF Task
<1>7. TypeOK'
  BY <1>1, <1>2, <1>5, <1>6 DEF TypeOK, Thread, Task
<1>8. Places'
  <2>1. r.pc \in (IF th = Main THEN MainPCs ELSE BodyPCs)
    BY <1>3 DEF MainPCs, BodyPCs
  <2> QED BY <1>1, <1>3, <1>5, <2>1 DEF Places
<1>9. Births'
  <2>1. \A u \in Threads : /\ thread'[u].pc = "none" <=> thread[u].pc = "none"
                           /\ thread'[u].pc = "start" <=> thread[u].pc = "start"
                           /\ Bears(u)' <=> Bears(u)
                           /\ thread'[u].born = thread[u].born
    BY <1>2, <1>3, <1>5 DEF Bears
  <2>2. \A u \in Threads : Bears(u) => thread[u].born \in Threads
    BY <1>1 DEF Thread
  <2>3. task' = task /\ tasks' = tasks
    BY <1>2
  <2>4. \A u \in Tasks : task'[u].state = "none" => thread'[u].pc = "none"
    BY <1>1, <2>1, <2>3, MainApart DEF Births
  <2>5. \A u \in Threads : task'[u].state = "before_start" => thread'[u].pc \in {"none", "start"}
    BY <1>1, <2>1, <2>3 DEF Births
  <2>6. \A n \in DOMAIN tasks' : thread'[tasks'[n]].pc # "none"
    BY <1>1, <2>1, <2>3, ListedThreads DEF Births
  <2>7. \A u \in Threads : Bears(u)' =>
           /\ thread'[u].born \in Tasks
           /\ thread'[thread'[u].born].pc = "none"
           /\ task'[thread'[u].born].state = "before_start"
    BY <1>1, <2>1, <2>2, <2>3 DEF Births
  <2>8. \A u, w \in Threads : Bears(u)' /\ Bears(w)' /\ u # w =>
           thread'[u].born # thread'[w].born
    BY <1>1, <2>1 DEF Births
  <2> QED BY <2>4, <2>5, <2>6, <2>7, <2>8 DEF Births
<1>10. Doom'
  <2>1. \A u \in doomed : u \in Threads /\ u # th
    BY <1>1, <1>2, MainApart DEF Doom, TypeOK, PastPost
  <2> QED BY <1>1, <1>2, <1>5, <2>1 DEF Doom
<1>11. CountsTheInside'
  <2>1. Inside' = Inside
    BY <1>1, <1>2, <1>3, <1>4, InsideMoves DEF Inside, Outside, PastPost
  <2> QED BY <1>1, <1>2, <2>1 DEF CountsTheInside
<1> QED BY <1>7, <1>8, <1>9, <1>10, <1>11 DEF IInv

\* r_core_task_enqueue lists the task and gives it its thread.
LEMMA EnqueueStep ==
  ASSUME IInv, NEW th \in Threads, Enqueue(th)
  PROVE  IInv'
<1> DEFINE t == thread[th].born
<1>1. /\ thread \in [Threads -> Thread] /\ task \in [Threads -> Task]
      /\ TypeOK /\ Places /\ Births /\ Doom /\ CountsTheInside
      /\ tasks \in Seq(Threads)
  BY Typed DEF IInv
<1>2. /\ thread[th].pc = "enqueue"
      /\ task' = [task EXCEPT ![t].sem = 0, ![t].breaked = FALSE]
      /\ tasks' = Append(tasks, t)
      /\ thread' = [thread EXCEPT ![th].pc = "cmd", ![t].pc = "start"]
      /\ UNCHANGED <<tasks_running, task_id_next, lock, core_lock, doomed>>
  BY DEF Enqueue, At, Taken
<1>3. /\ t \in Tasks /\ t \in Threads /\ t # th /\ t # Main
      /\ thread[t].pc = "none" /\ task[t].state = "before_start"
  BY <1>1, <1>2, MainApart DEF Births, Bears
<1> HIDE DEF t
<1>4. /\ \A u \in Threads : u # th /\ u # t => thread'[u] = thread[u]
      /\ thread'[th] = [thread[th] EXCEPT !.pc = "cmd"]
      /\ thread'[t] = [thread[t] EXCEPT !.pc = "start"]
  BY <1>1, <1>2, <1>3
<1>5. /\ thread' \in [Threads -> Thread]
      /\ thread'[th].pc = "cmd" /\ thread'[t].pc = "start"
      /\ \A u \in Threads : /\ thread'[u].ret = thread[u].ret
                            /\ thread'[u].after = thread[u].after
                            /\ thread'[u].next = thread[u].next
                            /\ thread'[u].born = thread[u].born
                            /\ thread'[u].queue = thread[u].queue
  <2>1. "cmd" \in PCs /\ "start" \in PCs
    BY DEF PCs
  <2>2. \A pc \in PCs, u \in Threads : LET v == [thread[u] EXCEPT !.pc = pc] IN
           /\ v \in Thread /\ v.pc = pc /\ v.ret = thread[u].ret /\ v.after = thread[u].after
           /\ v.next = thread[u].next /\ v.born = thread[u].born /\ v.queue = thread[u].queue
    BY <1>1, PlaceKind
  <2>3. \A u \in Threads : thread'[u] = thread[u] \/ \E pc \in PCs : thread'[u] = [thread[u] EXCEPT !.pc = pc]
    BY <1>4, <2>1
  <2>4. \A u \in Threads : /\ thread'[u] \in Thread
                           /\ thread'[u].ret = thread[u].ret
                           /\ thread'[u].after = thread[u].after
                           /\ thread'[u].next = thread[u].next
                           /\ thread'[u].born = thread[u].born
                           /\ thread'[u].queue = thread[u].queue
    <3> SUFFICES ASSUME NEW u \in Threads
                 PROVE  /\ thread'[u] \in Thread
                        /\ thread'[u].ret = thread[u].ret
                        /\ thread'[u].after = thread[u].after
                        /\ thread'[u].next = thread[u].next
                        /\ thread'[u].born = thread[u].born
                        /\ thread'[u].queue = thread[u].queue
      OBVIOUS
    <3>1. CASE thread'[u] = thread[u]
      BY <1>1, <3>1
    <3>2. ASSUME NEW pc \in PCs, thread'[u] = [thread[u] EXCEPT !.pc = pc]
          PROVE  /\ thread'[u] \in Thread
                 /\ thread'[u].ret = thread[u].ret
                 /\ thread'[u].after = thread[u].after
                 /\ thread'[u].next = thread[u].next
                 /\ thread'[u].born = thread[u].born
                 /\ thread'[u].queue = thread[u].queue
      BY <2>2, <3>2
    <3> QED BY <2>3, <3>1, <3>2
  <2>5. thread'[th].pc = "cmd" /\ thread'[t].pc = "start"
    BY <1>3, <1>4, <2>1, <2>2
  <2>6. thread' = [u \in Threads |-> thread'[u]]
    BY <1>1, <1>2
  <2> QED BY <2>4, <2>5, <2>6
<1>6. /\ task' \in [Threads -> Task]
      /\ \A u \in Threads : task'[u].state = task[u].state
      /\ \A u \in Threads : u # t => task'[u] = task[u]
  BY <1>1, <1>2, <1>3 DEF Task
<1>7. /\ tasks' \in Seq(Threads)
      /\ \A n \in DOMAIN tasks' : tasks'[n] = t \/ \E m \in DOMAIN tasks : tasks'[n] = tasks[m]
  BY <1>1, <1>2, <1>3
<1>8. TypeOK'
  BY <1>1, <1>2, <1>5, <1>6, <1>7 DEF TypeOK, Thread, Task
<1>9. Places'
  <2>1. \A u \in Threads : thread'[u].pc \in (IF u = Main THEN MainPCs ELSE BodyPCs)
    BY <1>1, <1>3, <1>4, <1>5 DEF Places, MainPCs, BodyPCs
  <2>2. \A u \in Threads : Awaits(thread'[u]) => Awaits(thread[u])
    BY <1>4, <1>5 DEF Awaits
  <2> QED BY <1>1, <1>5, <2>1, <2>2 DEF Places
<1>10. Births'
  <2>1. \A u \in Tasks : task'[u].state = "none" => thread'[u].pc = "none"
    BY <1>1, <1>2, <1>3, <1>4, <1>6, MainApart DEF Births
  <2>2. \A u \in Threads : task'[u].state = "before_start" => thread'[u].pc \in {"none", "start"}
    BY <1>1, <1>2, <1>4, <1>5, <1>6 DEF Births
  <2>3. \A n \in DOMAIN tasks' : thread'[tasks'[n]].pc # "none"
    <3>1. \A n \in DOMAIN tasks : tasks[n] \in Threads /\ thread[tasks[n]].pc # "none"
      BY <1>1, ListedThreads DEF Births
    <3>2. \A u \in Threads : thread[u].pc # "none" => thread'[u].pc # "none"
      BY <1>4, <1>5
    <3> QED BY <1>5, <1>7, <3>1, <3>2
  <2>4. \A u \in Threads : Bears(u)' => /\ Bears(u) /\ u # th /\ u # t
                                        /\ thread'[u].born = thread[u].born
    BY <1>4, <1>5 DEF Bears
  <2>5. \A u \in Threads : Bears(u)' => thread[u].born # t
    BY <1>1, <1>2, <2>4 DEF Births, Bears, t
  <2>6. \A u \in Threads : Bears(u)' =>
           /\ thread'[u].born \in Tasks
           /\ thread'[thread'[u].born].pc = "none"
           /\ task'[thread'[u].born].state = "before_start"
    <3>1. SUFFICES ASSUME NEW u \in Threads, Bears(u)'
                   PROVE  /\ thread'[u].born \in Tasks
                          /\ thread'[thread'[u].born].pc = "none"
                          /\ task'[thread'[u].born].state = "before_start"
      OBVIOUS
    <3> DEFINE b == thread[u].born
    <3>2. Bears(u) /\ thread'[u].born = b /\ b # t
      BY <2>4, <2>5, <3>1
    <3>3. b \in Tasks /\ thread[b].pc = "none" /\ task[b].state = "before_start"
      BY <1>1, <3>2 DEF Births
    <3>4. b # th /\ b \in Threads
      BY <1>2, <3>3, MainApart
    <3>5. thread'[b] = thread[b] /\ task'[b] = task[b]
      BY <1>4, <1>6, <3>2, <3>4
    <3> QED BY <3>2, <3>3, <3>5
  <2>7. \A u, w \in Threads : Bears(u)' /\ Bears(w)' /\ u # w =>
           thread'[u].born # thread'[w].born
    BY <1>1, <2>4 DEF Births
  <2> QED BY <2>1, <2>2, <2>3, <2>6, <2>7 DEF Births
<1>11. Doom'
  <2>1. \A u \in doomed : u \in Threads /\ u # th /\ u # t
    BY <1>1, <1>2, <1>3, MainApart DEF Doom, TypeOK, PastPost
  <2> QED BY <1>1, <1>2, <1>4, <1>6, <2>1 DEF Doom
<1>12. CountsTheInside'
  <2>1. \A u \in Tasks : thread'[u].pc \in Outside <=> thread[u].pc \in Outside
    BY <1>2, <1>3, <1>4, <1>5, MainApart DEF Outside, PastPost
  <2>2. Inside' = Inside
    BY <2>1 DEF Inside
  <2> QED BY <1>1, <1>2, <2>2 DEF CountsTheInside
<1> QED BY <1>8, <1>9, <1>10, <1>11, <1>12 DEF IInv

-----------------------------------------------------------------------------
(* The first invariant.                                                     *)

LEMMA InitInv ==
  ASSUME Init
  PROVE  IInv
<1>1. TypeOK
  <2>1. /\ "running" \in States /\ "none" \in States
        /\ {"cmd", "none"} \subseteq PCs /\ 1 \in Nat \ {0} /\ 0 \in Nat
    BY DEF States, PCs
  <2>2. <<>> \in Seq(Threads) /\ <<Main>> \in Seq(Threads)
    BY MainApart
  <2>3. \A th \in Threads : thread[th] \in Thread
    BY <2>1, <2>2, MainApart, TaskAssumption DEF Init, Thread
  <2>4. \A t \in Threads : task[t] \in Task
    BY <2>1 DEF Init, Task
  <2>5. thread \in [Threads -> Thread] /\ task \in [Threads -> Task]
    BY <2>3, <2>4 DEF Init
  <2> QED BY <2>1, <2>2, <2>5 DEF Init, TypeOK, Thread, Task
<1>2. \A th \in Threads : /\ thread[th].pc = IF th = Main THEN "cmd" ELSE "none"
                          /\ thread[th].ret = "cmd" /\ thread[th].after = "cmd"
                          /\ thread[th].next = "running"
  BY DEF Init
<1>3. Places
  BY <1>2 DEF Places, MainPCs, BodyPCs, Returns, Afters, Awaits
<1>4. Births
  <2>1. \A t \in Threads : task[t].state # "before_start"
    BY DEF Init
  <2>2. \A n \in DOMAIN tasks : tasks[n] = Main
    BY DEF Init
  <2>3. \A th \in Threads : ~Bears(th)
    BY <1>2 DEF Bears
  <2> QED BY <1>2, <2>1, <2>2, <2>3, MainApart DEF Births
<1>5. Doom
  BY DEF Init, Doom
<1>6. CountsTheInside
  BY InsideFinite DEF Init, CountsTheInside
<1> QED BY <1>1, <1>3, <1>4, <1>5, <1>6 DEF IInv

LEMMA StepInv ==
  ASSUME IInv, [Next]_vars
  PROVE  IInv'
<1>1. CASE UNCHANGED vars
  <2>1. /\ UNCHANGED <<thread, task, tasks, tasks_running, task_id_next>>
        /\ UNCHANGED <<lock, core_lock, doomed>>
    BY <1>1 DEF vars
  <2> QED BY <2>1 DEF IInv, TypeOK, Places, Births, Bears, Doom, CountsTheInside, Inside, Outside, PastPost
<1>2. ASSUME NEW t \in Tasks, BodyNext(t)
      PROVE  IInv'
  BY <1>2, BodyStep
<1>3. ASSUME NEW th \in Threads, CallNext(th)
      PROVE  IInv'
  <2>1. CASE EnterCritical(th) \/ DoSchedule(th)
    BY <2>1, ScheduleWalk, WalkKeeps
  <2>2. CASE JoinNext(th) \/ JoinWait(th)
    BY <2>2, JoinWalk, WalkKeeps
  <2> QED BY <1>3, <2>1, <2>2, StoreNextIdStep, EnqueueStep DEF CallNext
<1>4. ASSUME NEW th \in Threads, Command(th)
      PROVE  IInv'
  <2>1. CASE NewTask(th)
    BY <2>1, NewTaskStep
  <2>2. ASSUME NEW i, Yield(th) \/ JoinOne(th, i) \/ JoinAll(th)
        PROVE  IInv'
    BY <2>2, CommandWalk, WalkKeeps
  <2>3. ASSUME NEW i, Break(th, i)
        PROVE  IInv'
    BY <2>3, BreakWalk, WalkKeeps
  <2> QED BY <1>4, <2>1, <2>2, <2>3 DEF Command
<1>5. CASE UserNext
  <2>1. CASE JoinInterrupted(Main)
    BY <2>1, MainApart, JoinWalk, WalkKeeps
  <2> QED BY <1>5, <2>1, MainApart, MainWalk, WalkKeeps DEF UserNext
<1>6. CASE EndNext
  <2>1. CASE CancelItem
    BY <2>1, MainApart, BreakWalk, WalkKeeps
  <2> QED BY <1>6, <2>1, MainApart, MainWalk, WalkKeeps DEF EndNext
<1> QED BY <1>1, <1>2, <1>3, <1>4, <1>5, <1>6 DEF Next

\* The invariant holds in every state the scheduler can reach, for any number of
\* tasks and of commands, with and without the lock of the core, nested tasks and ^C.
THEOREM Invariance == Spec => []IInv
<1>1. Init => IInv
  BY InitInv
<1>2. IInv /\ [Next]_vars => IInv'
  BY StepInv
<1> QED BY <1>1, <1>2, PTL DEF Spec

\* The kind of every variable.
THEOREM TypeCorrect == Spec => []TypeOK
<1>1. IInv => TypeOK
  BY DEF IInv
<1> QED BY <1>1, Invariance, PTL

\* A task broken between its listing and its start never runs its command line.
THEOREM Stillborn == Spec => []StillbornNeverRuns
<1>1. IInv => StillbornNeverRuns
  BY DEF IInv, Doom, StillbornNeverRuns
<1> QED BY <1>1, Invariance, PTL

\* The count that lets r_core_task_schedule do nothing is never above the number
\* of threads inside task_run.
THEOREM Counts == Spec => []CountsTheInside
<1>1. IInv => CountsTheInside
  BY DEF IInv
<1> QED BY <1>1, Invariance, PTL

-----------------------------------------------------------------------------
(* Waits.  Where the user cannot interrupt them.                            *)

\* What JoinSeesResult says of one step.
Sees ==
  \A th \in Threads :
    thread[th].queue # <<>> /\ thread'[th].queue = Tail(thread[th].queue) =>
      LET t == Head(thread[th].queue) IN
      t \in {Main, th} \/ (task[t].state = "done" /\ thread[t].pc \in PastPost)

\* The tail of a list is another list, of members of the list.
LEMMA TailShorter ==
  ASSUME NEW q \in Seq(Threads), q # <<>>
  PROVE  /\ Tail(q) # q /\ Tail(q) \in Seq(Threads)
         /\ \A n \in DOMAIN Tail(q) : \E m \in DOMAIN q : Tail(q)[n] = q[m]
         /\ \E m \in DOMAIN q : Head(q) = q[m]
<1>1. Len(Tail(q)) = Len(q) - 1 /\ Len(q) \in Nat /\ Tail(q) \in Seq(Threads)
  OBVIOUS
<1>2. \A n \in DOMAIN Tail(q) : n + 1 \in DOMAIN q /\ Tail(q)[n] = q[n + 1]
  OBVIOUS
<1>3. 1 \in DOMAIN q /\ Head(q) = q[1]
  OBVIOUS
<1>4. Tail(q) # q
  <2> SUFFICES ASSUME Tail(q) = q
               PROVE  FALSE
    OBVIOUS
  <2>1. Len(Tail(q)) = Len(q)
    OBVIOUS
  <2> QED BY <1>1, <2>1
<1> QED BY <1>1, <1>2, <1>3, <1>4

\* What a step of th may do to its list of waits: keep it, take its head when
\* that is itself or has a token, or copy listed tasks.
QueueMove(th) ==
  LET q == thread[th].queue
      r == thread'[th]
  IN  \/ r.queue = q /\ (q # <<>> => MayQueue(r))
      \/ /\ q # <<>> /\ r.queue = Tail(q) /\ MayQueue(r)
         /\ Head(q) = th \/ CanPass(Head(q))
      \/ /\ q = <<>> /\ MayQueue(r)
         /\ \A n \in DOMAIN r.queue : \E m \in DOMAIN tasks : r.queue[n] = tasks[m]

\* A walk that moves its list so, and takes and gives no token, keeps the invariant.
LEMMA WalkWaits ==
  ASSUME IInv, WInv, NEW th \in Threads, Walk(th), QueueMove(th),
         \A t \in Tasks : task'[t].sem = task[t].sem
  PROVE  WInv' /\ Sees
<1>1. /\ thread \in [Threads -> Thread] /\ TypeOK /\ Births /\ Tokens /\ Queues
  BY Typed DEF IInv, WInv
<1>2. /\ \A u \in Threads : u # th => thread'[u] = thread[u]
      /\ thread'[th] \in Thread
      /\ thread[th].pc \notin Outside
      /\ thread'[th].pc \notin Outside
      /\ {"none", "post"} \cup PastPost \subseteq Outside
  BY <1>1 DEF Walk, OneThread, Inner, EndPCs, Outside, PastPost
<1>3. Tokens'
  <2> SUFFICES ASSUME NEW t \in Tasks
               PROVE  /\ thread'[t].pc \notin {"none"} \cup PastPost => task'[t].sem = 0
                      /\ thread'[t].pc \in {"post"} \cup PastPost => task'[t].state = "done"
    BY DEF Tokens, PastPost
  <2>1. CASE t = th
    BY <1>1, <1>2, <2>1 DEF Tokens
  <2>2. CASE t # th
    <3>1. thread'[t] = thread[t] /\ task'[t].state = task[t].state
      BY <1>2, <2>2, MainApart DEF Walk
    <3> QED BY <1>1, <3>1 DEF Tokens
  <2> QED BY <2>1, <2>2
<1> DEFINE q == thread[th].queue
<1>4. q \in Seq(Threads)
  BY <1>1 DEF Thread
<1>5. \A u \in Threads : thread[u].pc # "none" => thread'[u].pc # "none"
  BY <1>2
<1>6. \A n \in DOMAIN q : q[n] \in Threads /\ thread[q[n]].pc # "none"
  BY <1>1, <1>4 DEF Queues
<1>7. \A m \in DOMAIN tasks : tasks[m] \in Threads /\ thread[tasks[m]].pc # "none"
  BY <1>1, ListedThreads DEF Births
<1>8. /\ thread'[th].queue # <<>> => MayQueue(thread'[th])
      /\ \A n \in DOMAIN thread'[th].queue : thread'[thread'[th].queue[n]].pc # "none"
  <2>1. CASE thread'[th].queue = q /\ (q # <<>> => MayQueue(thread'[th]))
    BY <1>5, <1>6, <2>1
  <2>2. CASE q # <<>> /\ thread'[th].queue = Tail(q) /\ MayQueue(thread'[th])
    <3>1. \A n \in DOMAIN Tail(q) : \E m \in DOMAIN q : Tail(q)[n] = q[m]
      BY <1>4, <2>2, TailShorter
    <3> HIDE DEF q
    <3> QED BY <1>5, <1>6, <2>2, <3>1
  <2>3. CASE /\ MayQueue(thread'[th])
             /\ \A n \in DOMAIN thread'[th].queue :
                  \E m \in DOMAIN tasks : thread'[th].queue[n] = tasks[m]
    BY <1>5, <1>7, <2>3
  <2> QED BY <2>1, <2>2, <2>3 DEF QueueMove
<1>9. Queues'
  <2> SUFFICES ASSUME NEW u \in Threads
               PROVE  /\ thread'[u].queue # <<>> => MayQueue(thread'[u])
                      /\ \A n \in DOMAIN thread'[u].queue : thread'[thread'[u].queue[n]].pc # "none"
    BY DEF Queues, MayQueue
  <2>1. CASE u = th
    BY <1>8, <2>1
  <2>2. CASE u # th
    <3>1. thread'[u] = thread[u] /\ thread[u].queue \in Seq(Threads)
      BY <1>1, <1>2, <2>2 DEF Thread
    <3>2. \A n \in DOMAIN thread[u].queue : /\ thread[u].queue[n] \in Threads
                                            /\ thread[thread[u].queue[n]].pc # "none"
      BY <1>1, <3>1 DEF Queues
    <3> QED BY <1>1, <1>5, <3>1, <3>2 DEF Queues
  <2> QED BY <2>1, <2>2
<1>10. Sees
  <2> SUFFICES ASSUME NEW u \in Threads, thread[u].queue # <<>>,
                      thread'[u].queue = Tail(thread[u].queue)
               PROVE  LET t == Head(thread[u].queue) IN
                      t \in {Main, u} \/ (task[t].state = "done" /\ thread[t].pc \in PastPost)
    BY DEF Sees
  <2>1. thread[u].queue \in Seq(Threads)
    BY <1>1 DEF Thread
  <2>2. thread'[u].queue # thread[u].queue
    BY <2>1, TailShorter
  <2>3. u = th /\ (Head(q) = th \/ CanPass(Head(q)))
    BY <1>2, <2>2 DEF QueueMove
  <2> DEFINE t == Head(q)
  <2>4. t \in Threads /\ thread[t].pc # "none"
    BY <1>4, <1>6, <2>3, TailShorter
  <2>5. t \in Tasks /\ CanPass(t) => task[t].state = "done" /\ thread[t].pc \in PastPost
    BY <1>1, <2>4 DEF Tokens, CanPass
  <2> QED BY <2>3, <2>4, <2>5 DEF Threads
<1> QED BY <1>3, <1>9, <1>10 DEF WInv

\* A step that touches no list of waits, of threads that have nothing to wait for.
LEMMA QueuesSame ==
  ASSUME TypeOK, Queues,
         \A u \in Threads : /\ thread'[u].queue = thread[u].queue
                            /\ thread'[u] = thread[u] \/ ~MayQueue(thread[u])
                            /\ thread[u].pc # "none" => thread'[u].pc # "none"
  PROVE  Queues' /\ Sees
<1>1. \A u \in Threads : thread[u].queue \in Seq(Threads)
  BY Typed DEF Thread
<1>2. \A u \in Threads : thread'[u].queue # <<>> => MayQueue(thread'[u])
  BY DEF Queues
<1>3. \A u \in Threads : \A n \in DOMAIN thread[u].queue :
         thread[u].queue[n] \in Threads /\ thread[thread[u].queue[n]].pc # "none"
  BY <1>1 DEF Queues
<1>4. Queues'
  <2> SUFFICES ASSUME NEW u \in Threads
               PROVE  /\ thread'[u].queue # <<>> => MayQueue(thread'[u])
                      /\ \A n \in DOMAIN thread'[u].queue : thread'[thread'[u].queue[n]].pc # "none"
    BY DEF Queues, MayQueue
  <2> QED BY <1>2, <1>3
<1>5. Sees
  BY <1>1, TailShorter DEF Sees
<1> QED BY <1>4, <1>5

\* The life of a task: it gets its token when it ends, and not before.
LEMMA BodyWaits ==
  ASSUME IInv, WInv, NEW t \in Tasks, BodyNext(t)
  PROVE  WInv' /\ Sees
<1>1. /\ thread \in [Threads -> Thread] /\ task \in [Threads -> Task]
      /\ TypeOK /\ Tokens /\ Queues /\ t \in Threads /\ Births
  BY Typed, MainApart DEF IInv, WInv
<1>2. PICK pc \in {"check", "cmd", "end", "ending", "post"} \cup PastPost : Goto(t, pc)
  BY DEF BodyNext, TaskStart, TaskCheck, FinishCmd, SeeBreak, TaskEndEnter, TaskEnd,
         TaskPost, TaskEndLeave, TaskReturn, PastPost
<1>3. thread[t].pc \in {"start", "check", "cmd", "end", "ending", "post", "posted", "event"}
  BY DEF BodyNext, TaskStart, TaskCheck, FinishCmd, SeeBreak, TaskEndEnter, TaskEnd,
         TaskPost, TaskEndLeave, TaskReturn, At
<1>4. /\ \A u \in Threads : u # t => thread'[u] = thread[u]
      /\ thread'[t] = [thread[t] EXCEPT !.pc = pc]
  BY <1>1, <1>2 DEF Goto
<1>5. thread'[t].pc = pc /\ thread'[t].queue = thread[t].queue
  <2>1. thread[t] \in Thread /\ pc \in PCs
    BY <1>1 DEF PCs, PastPost
  <2> QED BY <1>4, <2>1, PlaceKind
<1>6. Queues' /\ Sees
  <2>1. ~MayQueue(thread[t])
    BY <1>3 DEF MayQueue
  <2>2. \A u \in Threads : /\ thread'[u].queue = thread[u].queue
                           /\ thread'[u] = thread[u] \/ ~MayQueue(thread[u])
                           /\ thread[u].pc # "none" => thread'[u].pc # "none"
    BY <1>4, <1>5, <2>1 DEF PastPost
  <2> QED BY <1>1, <2>2, QueuesSame
<1>7. \A u \in Tasks : u # t => task'[u] = task[u]
  BY <1>1, MainApart
     DEF BodyNext, TaskStart, TaskCheck, FinishCmd, SeeBreak, TaskEndEnter, TaskEnd,
         TaskPost, TaskEndLeave, TaskReturn
<1>8. /\ thread'[t].pc \notin {"none"} \cup PastPost => task'[t].sem = task[t].sem
                                                       /\ thread[t].pc \notin PastPost
      /\ thread'[t].pc \in {"post"} \cup PastPost => task'[t].state = "done"
  <2>1. \A p \in PCs : Goto(t, p) => thread'[t].pc = p
    BY <1>1, PlaceKind DEF Goto
  <2>2. {"check", "cmd", "end", "ending", "post", "posted", "event", "exited"} \subseteq PCs
    BY DEF PCs
  <2>3. CASE TaskEnd(t)
    <3>1. thread'[t].pc = "post" /\ thread[t].pc = "ending"
      BY <2>1, <2>2, <2>3 DEF TaskEnd, At
    <3>2. task'[t].state = "done" /\ task'[t].sem = task[t].sem
      BY <1>1, <2>3 DEF TaskEnd, Task
    <3> QED BY <3>1, <3>2 DEF PastPost
  <2>4. CASE TaskStart(t) \/ TaskCheck(t) \/ FinishCmd(t) \/ SeeBreak(t) \/ TaskEndEnter(t)
    <3>1. task'[t].sem = task[t].sem
      BY <1>1, <2>4 DEF TaskStart, TaskCheck, FinishCmd, SeeBreak, TaskEndEnter, Task
    <3>2. \E p \in {"check", "cmd", "end", "ending"} : Goto(t, p)
      BY <2>4 DEF TaskStart, TaskCheck, FinishCmd, SeeBreak, TaskEndEnter
    <3>3. thread'[t].pc \in {"check", "cmd", "end", "ending"}
      BY <2>1, <2>2, <3>2
    <3>4. thread[t].pc \in {"start", "check", "cmd", "end"}
      BY <2>4 DEF TaskStart, TaskCheck, FinishCmd, SeeBreak, TaskEndEnter, At
    <3> QED BY <3>1, <3>3, <3>4 DEF PastPost
  <2>5. CASE TaskPost(t) \/ TaskEndLeave(t) \/ TaskReturn(t)
    <3>1. \E p \in {"posted", "event", "exited"} : Goto(t, p)
      BY <2>5 DEF TaskPost, TaskEndLeave, TaskReturn
    <3>2. thread'[t].pc \in PastPost
      BY <2>1, <2>2, <3>1 DEF PastPost
    <3>3. thread[t].pc \in {"post"} \cup PastPost
      BY <2>5 DEF TaskPost, TaskEndLeave, TaskReturn, At, PastPost
    <3>4. task'[t].state = task[t].state
      BY <1>1, <2>5 DEF TaskPost, TaskEndLeave, TaskReturn, Task
    <3>5. task[t].state = "done"
      BY <1>1, <3>3 DEF Tokens
    <3> QED BY <3>2, <3>4, <3>5
  <2> QED BY <2>3, <2>4, <2>5 DEF BodyNext
<1>9. Tokens'
  <2> SUFFICES ASSUME NEW u \in Tasks
               PROVE  /\ thread'[u].pc \notin {"none"} \cup PastPost => task'[u].sem = 0
                      /\ thread'[u].pc \in {"post"} \cup PastPost => task'[u].state = "done"
    BY DEF Tokens, PastPost
  <2>1. CASE u = t
    <3>1. thread[t].pc # "none"
      BY <1>3
    <3> QED BY <1>1, <1>8, <2>1, <3>1 DEF Tokens
  <2>2. CASE u # t
    BY <1>1, <1>4, <1>7, <2>2, MainApart DEF Tokens
  <2> QED BY <2>1, <2>2
<1> QED BY <1>6, <1>9 DEF WInv

\* The birth of a task: its semaphore has no token when its thread begins.
LEMMA BirthWaits ==
  ASSUME IInv, WInv, NEW th \in Threads, NewTask(th) \/ StoreNextId(th) \/ Enqueue(th)
  PROVE  WInv' /\ Sees
<1>1. /\ thread \in [Threads -> Thread] /\ task \in [Threads -> Task]
      /\ TypeOK /\ Tokens /\ Queues /\ Births
      /\ thread[th] \in Thread
  BY Typed DEF IInv, WInv
<1>2. /\ thread[th].pc \in {"cmd", "new", "enqueue"} /\ ~MayQueue(thread[th])
  BY DEF NewTask, StoreNextId, Enqueue, MayCommand, At, MayQueue
<1>3. CASE NewTask(th)
  <2>1. PICK t \in Tasks :
          /\ task[t].state = "none"
          /\ task' = [task EXCEPT ![t].state = "before_start", ![t].id = task_id_next]
          /\ OneThread(th, [Spent(th) EXCEPT !.pc = "new", !.born = t])
    BY <1>3 DEF NewTask, OneThread
  <2>2. /\ \A u \in Threads : u # th => thread'[u] = thread[u]
        /\ thread'[th].pc = "new" /\ thread'[th].queue = thread[th].queue
    <3>1. Spent(th) \in Thread /\ Spent(th).queue = thread[th].queue
      BY <1>3, SpentKind DEF NewTask
    <3> QED BY <1>1, <2>1, <3>1 DEF OneThread, Thread
  <2>3. Queues' /\ Sees
    BY <1>1, <1>2, <2>2, QueuesSame
  <2>4. thread[t].pc = "none" /\ t # th
    BY <1>1, <1>2, <2>1 DEF Births
  <2>5. Tokens'
    <3> SUFFICES ASSUME NEW u \in Tasks
                 PROVE  /\ thread'[u].pc \notin {"none"} \cup PastPost => task'[u].sem = 0
                        /\ thread'[u].pc \in {"post"} \cup PastPost => task'[u].state = "done"
      BY DEF Tokens, PastPost
    <3>1. CASE u = t
      BY <2>2, <2>4, <3>1, MainApart DEF PastPost
    <3>2. CASE u # t
      <4>1. task'[u] = task[u]
        BY <1>1, <2>1, <3>2, MainApart
      <4> QED BY <1>1, <1>2, <2>2, <4>1, MainApart DEF Tokens, PastPost
    <3> QED BY <3>1, <3>2
  <2> QED BY <2>3, <2>5 DEF WInv
<1>4. CASE StoreNextId(th)
  <2>1. /\ \A u \in Threads : u # th => thread'[u] = thread[u]
        /\ thread'[th].pc = "enqueue" /\ thread'[th].queue = thread[th].queue
        /\ task' = task
    <3>1. "enqueue" \in PCs
      BY DEF PCs
    <3> QED BY <1>1, <1>4, <3>1, PlaceKind DEF StoreNextId, Goto
  <2>2. Queues' /\ Sees
    BY <1>1, <1>2, <2>1, QueuesSame
  <2>3. Tokens'
    BY <1>1, <1>2, <2>1, MainApart DEF Tokens, PastPost
  <2> QED BY <2>2, <2>3 DEF WInv
<1>5. CASE Enqueue(th)
  <2> DEFINE t == thread[th].born
  <2>1. /\ task' = [task EXCEPT ![t].sem = 0, ![t].breaked = FALSE]
        /\ thread' = [thread EXCEPT ![th].pc = "cmd", ![t].pc = "start"]
        /\ thread[th].pc = "enqueue"
    BY <1>5 DEF Enqueue, At, Taken
  <2>2. /\ t \in Tasks /\ t \in Threads /\ t # th /\ thread[t].pc = "none"
    BY <1>1, <2>1, MainApart DEF Births, Bears
  <2> HIDE DEF t
  <2>3. /\ \A u \in Threads : u # th /\ u # t => thread'[u] = thread[u]
        /\ thread'[th].pc = "cmd" /\ thread'[th].queue = thread[th].queue
        /\ thread'[t].pc = "start" /\ thread'[t].queue = thread[t].queue
    <3>1. /\ \A u \in Threads : u # th /\ u # t => thread'[u] = thread[u]
          /\ thread'[th] = [thread[th] EXCEPT !.pc = "cmd"]
          /\ thread'[t] = [thread[t] EXCEPT !.pc = "start"]
      BY <1>1, <2>1, <2>2
    <3>2. "cmd" \in PCs /\ "start" \in PCs /\ thread[t] \in Thread
      BY <1>1, <2>2 DEF PCs
    <3> QED BY <1>1, <3>1, <3>2, PlaceKind
  <2>4. Queues' /\ Sees
    <3>1. ~MayQueue(thread[t])
      BY <2>2 DEF MayQueue
    <3>2. \A u \in Threads : /\ thread'[u].queue = thread[u].queue
                             /\ thread'[u] = thread[u] \/ ~MayQueue(thread[u])
                             /\ thread[u].pc # "none" => thread'[u].pc # "none"
      BY <1>2, <2>3, <3>1
    <3> QED BY <1>1, <3>2, QueuesSame
  <2>5. Tokens'
    <3> SUFFICES ASSUME NEW u \in Tasks
                 PROVE  /\ thread'[u].pc \notin {"none"} \cup PastPost => task'[u].sem = 0
                        /\ thread'[u].pc \in {"post"} \cup PastPost => task'[u].state = "done"
      BY DEF Tokens, PastPost
    <3>1. CASE u = t
      <4>1. task'[u].sem = 0
        BY <1>1, <2>1, <2>2, <3>1 DEF Task
      <4> QED BY <2>3, <3>1, <4>1 DEF PastPost
    <3>2. CASE u # t
      <4>1. task'[u] = task[u]
        BY <1>1, <2>1, <2>2, <3>2, MainApart
      <4> QED BY <1>1, <2>1, <2>3, <3>2, <4>1, MainApart DEF Tokens, PastPost
    <3> QED BY <3>1, <3>2
  <2> QED BY <2>4, <2>5 DEF WInv
<1> QED BY <1>3, <1>4, <1>5

\* A thread that has nothing to wait for has an empty list.
LEMMA NothingToWaitFor ==
  ASSUME WInv, NEW th \in Threads, ~MayQueue(thread[th])
  PROVE  thread[th].queue = <<>>
BY DEF WInv, Queues

\* Such a thread that leaves its list alone.
LEMMA IdleMove ==
  ASSUME WInv, NEW th \in Threads, ~MayQueue(thread[th]),
         thread'[th].queue = thread[th].queue
  PROVE  QueueMove(th)
BY NothingToWaitFor DEF QueueMove

\* How each walk moves the list of waits of its thread.
LEMMA CallMoves ==
  ASSUME IInv, WInv, NEW th \in Threads,
         EnterCritical(th) \/ DoSchedule(th) \/ JoinNext(th) \/ JoinWait(th)
  PROVE  QueueMove(th) /\ \A t \in Tasks : task'[t].sem = task[t].sem
<1>1. /\ thread \in [Threads -> Thread] /\ task \in [Threads -> Task] /\ thread[th] \in Thread
      /\ (thread[th].queue # <<>> => MayQueue(thread[th]))
  BY Typed DEF IInv, WInv, Queues
<1>2. \A pc \in PCs : Goto(th, pc) => /\ thread'[th].pc = pc /\ thread'[th].ret = thread[th].ret
                                      /\ thread'[th].queue = thread[th].queue
  BY <1>1, PlaceKind DEF Goto
<1>3. CASE EnterCritical(th)
  <2>1. Goto(th, "critical") /\ "critical" \in PCs /\ thread[th].pc = "schedule" /\ task' = task
    BY <1>3 DEF EnterCritical, At, PCs
  <2> QED BY <1>1, <1>2, <2>1 DEF QueueMove, MayQueue
<1>4. CASE DoSchedule(th)
  <2>1. /\ Goto(th, thread[th].ret) /\ thread[th].ret \in PCs
        /\ thread[th].pc \in {"schedule", "critical"}
    BY <1>1, <1>4 DEF DoSchedule, At, Thread
  <2>2. \A t \in Tasks : task'[t].sem = task[t].sem
    BY <1>1, <1>4, MainApart DEF DoSchedule, Schedule, Task
  <2>3. QueueMove(th)
    BY <1>1, <1>2, <2>1 DEF QueueMove, MayQueue
  <2> QED BY <2>2, <2>3
<1>5. CASE JoinNext(th)
  <2> DEFINE q == thread[th].queue
  <2>1. thread[th].pc = "join" /\ task' = task
    BY <1>5 DEF JoinNext, At
  <2>2. CASE q = <<>> /\ Goto(th, thread[th].after)
    <3>1. thread[th].after \in PCs
      BY <1>1 DEF Thread
    <3>2. thread'[th].queue = <<>>
      BY <1>2, <2>2, <3>1
    <3> QED BY <2>1, <2>2, <3>2 DEF QueueMove
  <2>3. CASE q # <<>> /\ Head(q) = th /\ thread' = [thread EXCEPT ![th].queue = Tail(q)]
    <3>1. thread'[th].pc = "join" /\ thread'[th].queue = Tail(q)
      BY <1>1, <2>1, <2>3 DEF Thread
    <3> QED BY <2>1, <2>3, <3>1 DEF QueueMove, MayQueue
  <2>4. CASE q # <<>> /\ Call(th, thread[th], "sleeping", "wait")
    <3>1. thread'[th].pc = "schedule" /\ thread'[th].ret = "wait" /\ thread'[th].queue = q
      BY <1>1, <2>4 DEF Call, Thread
    <3> QED BY <2>1, <3>1 DEF QueueMove, MayQueue
  <2> QED BY <1>5, <2>2, <2>3, <2>4 DEF JoinNext
<1>6. CASE JoinWait(th)
  <2> DEFINE q == thread[th].queue
             f == [thread[th] EXCEPT !.queue = Tail(@)]
  <2>1. /\ CanPass(Head(q)) /\ task' = task /\ Call(th, f, "running", "join")
        /\ thread[th].pc = "wait"
    BY <1>6 DEF JoinWait, Passed, At
  <2>2. q # <<>>
    BY <2>1, OfThread DEF Awaits
  <2>3. f \in Thread /\ f.queue = Tail(q)
    BY <1>1, <2>2, TailKind
  <2> HIDE DEF f
  <2>4. thread'[th].pc = "schedule" /\ thread'[th].ret = "join" /\ thread'[th].queue = Tail(q)
    BY <1>1, <2>1, <2>3 DEF Call, Thread
  <2> QED BY <2>1, <2>2, <2>4 DEF QueueMove, MayQueue
<1> QED BY <1>3, <1>4, <1>5, <1>6

LEMMA CommandMoves ==
  ASSUME IInv, WInv, NEW th \in Threads, NEW i,
         Yield(th) \/ JoinOne(th, i) \/ JoinAll(th) \/ Break(th, i)
  PROVE  QueueMove(th) /\ \A t \in Tasks : task'[t].sem = task[t].sem
<1>1. /\ thread \in [Threads -> Thread] /\ task \in [Threads -> Task] /\ TypeOK
      /\ MayCommand(th)
  BY Typed DEF IInv, Yield, JoinOne, JoinAll, Break
<1>2. Spent(th) \in Thread /\ Spent(th).queue = thread[th].queue
  BY <1>1, SpentKind
<1>3. ~MayQueue(thread[th]) /\ thread[th].queue = <<>>
  <2>1. ~MayQueue(thread[th])
    BY <1>1 DEF MayCommand, At, MayQueue
  <2> QED BY <2>1, NothingToWaitFor
<1>4. CASE Yield(th)
  <2>1. thread'[th].queue = thread[th].queue /\ task' = task
    BY <1>1, <1>2, <1>4 DEF Yield, Call, Thread
  <2> QED BY <1>3, <2>1, IdleMove
<1>5. CASE Break(th, i)
  <2>1. thread'[th].queue = thread[th].queue /\ task' = Broken(Get(i)) /\ Get(i) \in Threads
    BY <1>1, <1>2, <1>5, GetListed DEF Break
  <2>2. \A t \in Tasks : task'[t].sem = task[t].sem
    BY <1>1, <2>1, MainApart DEF Broken, Task
  <2> QED BY <1>3, <2>1, <2>2, IdleMove
<1>6. CASE JoinOne(th, i)
  <2> DEFINE g == Get(i)
  <2>1. PICK m \in DOMAIN tasks : tasks[m] = g
    BY <1>1, <1>6, GetListed DEF JoinOne
  <2>2. thread' = [thread EXCEPT ![th] =
                     [Spent(th) EXCEPT !.pc = "join", !.queue = <<g>>, !.after = "cmd"]]
        /\ task' = task
    BY <1>6 DEF JoinOne
  <2> HIDE DEF g
  <2>3. thread'[th].pc = "join" /\ thread'[th].queue = <<g>>
    BY <1>1, <1>2, <2>2 DEF Thread
  <2>4. \A n \in DOMAIN <<g>> : <<g>>[n] = g
    OBVIOUS
  <2> QED BY <1>3, <2>1, <2>2, <2>3, <2>4 DEF QueueMove, MayQueue
<1>7. CASE JoinAll(th)
  <2>1. thread'[th].pc = "join" /\ thread'[th].queue = tasks /\ task' = task
    BY <1>1, <1>2, <1>7 DEF JoinAll, Snapshot, Thread
  <2> QED BY <1>3, <2>1 DEF QueueMove, MayQueue
<1> QED BY <1>4, <1>5, <1>6, <1>7

LEMMA MainMoves ==
  ASSUME IInv, WInv,
         \/ Prompt \/ Input \/ Quit \/ QuitUnasked \/ AnswerNo \/ AnswerYes \/ Stay \/ Leave
         \/ CancelItem \/ CancelDone \/ SyncEnd \/ Fini \/ FiniWait \/ FiniJoined
         \/ Teardown \/ Reap
  PROVE  QueueMove(Main) /\ \A t \in Tasks : task'[t].sem = task[t].sem
<1> DEFINE m == thread[Main]
<1>1. /\ thread \in [Threads -> Thread] /\ task \in [Threads -> Task] /\ TypeOK
      /\ Main \in Threads /\ m \in Thread
  BY Typed, MainApart DEF IInv
<1>2. ASSUME ~MayQueue(m), thread'[Main].queue = m.queue, task' = task
      PROVE  QueueMove(Main) /\ \A t \in Tasks : task'[t].sem = task[t].sem
  BY <1>1, <1>2, IdleMove
<1>3. CASE \/ Prompt \/ Input \/ Quit \/ QuitUnasked \/ AnswerNo \/ Stay \/ Leave
           \/ SyncEnd \/ Teardown \/ Reap
  <2>1. ~MayQueue(m)
    BY <1>3 DEF Prompt, Input, Quit, QuitUnasked, AnswerNo, Stay, Leave, SyncEnd,
                Teardown, Reap, At, MayQueue
  <2>2. \/ \E pc \in PCs : Goto(Main, pc)
        \/ \E next \in States, ret \in PCs : Call(Main, m, next, ret)
    BY <1>3 DEF Prompt, Input, Quit, QuitUnasked, AnswerNo, Stay, Leave, SyncEnd,
                Teardown, Reap, MainTo, MainCall, PCs, States
  <2>3. task' = task
    BY <1>3 DEF Prompt, Input, Quit, QuitUnasked, AnswerNo, Stay, Leave, SyncEnd,
                Teardown, Reap, MainTo, MainCall
  <2>4. thread'[Main].queue = m.queue
    BY <1>1, <2>2 DEF Goto, Call, Thread
  <2> QED BY <1>2, <2>1, <2>3, <2>4
<1>4. CASE AnswerYes \/ Fini
  <2>1. ~MayQueue(m) /\ task' = task
    BY <1>4 DEF AnswerYes, Fini, At, MayQueue
  <2>2. thread'[Main].queue = m.queue
    BY <1>1, <1>4 DEF AnswerYes, Fini, Call, Thread
  <2> QED BY <1>2, <2>1, <2>2
<1>5. CASE CancelItem
  <2> DEFINE t == tasks[m.cursor]
  <2>1. ~MayQueue(m)
    BY <1>5 DEF CancelItem, At, MayQueue
  <2>2. thread'[Main].queue = m.queue
    BY <1>1, <1>5 DEF CancelItem, Thread
  <2>3. t \in Threads
    BY <1>1, <1>5 DEF CancelItem, Thread, TypeOK
  <2>4. task' = task \/ task' = Broken(t)
    BY <1>5 DEF CancelItem
  <2> HIDE DEF t
  <2>5. \A u \in Tasks : task'[u].sem = task[u].sem
    BY <1>1, <2>3, <2>4, MainApart DEF Broken, Task
  <2> QED BY <1>1, <2>1, <2>2, <2>5, IdleMove
<1>6. CASE CancelDone
  <2>1. ~MayQueue(m) /\ task' = task
    BY <1>6 DEF CancelDone, At, MayQueue
  <2>2. thread'[Main].pc \in {"join", "fini_wait"} /\ thread'[Main].queue = tasks
    BY <1>1, <1>6 DEF CancelDone, Snapshot, Thread
  <2> QED BY <1>1, <2>1, <2>2, NothingToWaitFor DEF QueueMove, MayQueue
<1>7. CASE FiniWait
  <2>1. /\ m.pc = "fini_wait" /\ m.queue # <<>> /\ CanPass(Head(m.queue)) /\ task' = task
    BY <1>7 DEF FiniWait, At, Passed
  <2>2. thread'[Main].pc = "fini_wait" /\ thread'[Main].queue = Tail(m.queue)
    BY <1>1, <1>7, <2>1 DEF FiniWait, Thread
  <2> QED BY <2>1, <2>2 DEF QueueMove, MayQueue
<1>8. CASE FiniJoined
  <2>1. m.queue = <<>> /\ task' = task /\ Goto(Main, "teardown") /\ "teardown" \in PCs
    BY <1>8 DEF FiniJoined, MainTo, PCs
  <2>2. thread'[Main].queue = m.queue
    BY <1>1, <2>1 DEF Goto, Thread
  <2> QED BY <2>1, <2>2 DEF QueueMove
<1> QED BY <1>3, <1>4, <1>5, <1>6, <1>7, <1>8

LEMMA InitWaits ==
  ASSUME Init
  PROVE  WInv
<1>1. \A th \in Threads : thread[th].queue = <<>>
  BY DEF Init
<1>2. \A t \in Tasks : thread[t].pc = "none"
  BY MainApart DEF Init
<1> QED BY <1>1, <1>2 DEF WInv, Tokens, Queues, PastPost

LEMMA StepWaits ==
  ASSUME ~Interrupts, IInv, WInv, [Next]_vars
  PROVE  WInv' /\ (UNCHANGED vars \/ Sees)
<1>1. CASE UNCHANGED vars
  <2>1. UNCHANGED <<thread, task>>
    BY <1>1 DEF vars
  <2> QED BY <1>1, <2>1 DEF WInv, Tokens, Queues, MayQueue
<1>2. ASSUME NEW t \in Tasks, BodyNext(t)
      PROVE  WInv' /\ Sees
  BY <1>2, BodyWaits
<1>3. ASSUME NEW th \in Threads, CallNext(th)
      PROVE  WInv' /\ Sees
  <2>1. CASE EnterCritical(th) \/ DoSchedule(th)
    BY <2>1, ScheduleWalk, CallMoves, WalkWaits
  <2>2. CASE JoinNext(th) \/ JoinWait(th)
    BY <2>2, JoinWalk, CallMoves, WalkWaits
  <2> QED BY <1>3, <2>1, <2>2, BirthWaits DEF CallNext
<1>4. ASSUME NEW th \in Threads, Command(th)
      PROVE  WInv' /\ Sees
  <2>1. CASE NewTask(th)
    BY <2>1, BirthWaits
  <2>2. ASSUME NEW i, Yield(th) \/ JoinOne(th, i) \/ JoinAll(th)
        PROVE  WInv' /\ Sees
    BY <2>2, CommandWalk, CommandMoves, WalkWaits
  <2>3. ASSUME NEW i, Break(th, i)
        PROVE  WInv' /\ Sees
    BY <2>3, BreakWalk, CommandMoves, WalkWaits
  <2> QED BY <1>4, <2>1, <2>2, <2>3 DEF Command
<1>5. CASE UserNext
  <2>1. ~JoinInterrupted(Main)
    BY DEF JoinInterrupted
  <2> QED BY <1>5, <2>1, MainApart, MainWalk, MainMoves, WalkWaits DEF UserNext
<1>6. CASE EndNext
  <2>1. CASE CancelItem
    BY <2>1, MainApart, BreakWalk, MainMoves, WalkWaits
  <2> QED BY <1>6, <2>1, MainApart, MainWalk, MainMoves, WalkWaits DEF EndNext
<1> QED BY <1>1, <1>2, <1>3, <1>4, <1>5, <1>6 DEF Next

\* The invariant of waits, where the user cannot interrupt a wait.
THEOREM WaitInvariance == ~Interrupts => (Spec => [](IInv /\ WInv))
<1>1. Init => IInv /\ WInv
  BY InitInv, InitWaits
<1>2. ~Interrupts /\ IInv /\ WInv /\ [Next]_vars => IInv' /\ WInv'
  BY StepInv, StepWaits
<1>3. SUFFICES ASSUME ~Interrupts
               PROVE  Spec => [](IInv /\ WInv)
  OBVIOUS
<1>4. IInv /\ WInv /\ [Next]_vars => (IInv /\ WInv)'
  BY <1>2, <1>3
<1> QED BY <1>1, <1>4, PTL DEF Spec

\* "&& returns only after the task result is complete" (test_core_task.c:117), unless
\* the user interrupts the wait: the run of the interrupt shows that he can.
THEOREM JoinsSee == ~Interrupts => (Spec => JoinSeesResult)
<1>1. SUFFICES ASSUME ~Interrupts
               PROVE  Spec => JoinSeesResult
  OBVIOUS
<1>2. Spec => [](IInv /\ WInv)
  BY <1>1, WaitInvariance
<1>3. IInv /\ WInv /\ [Next]_vars => [Sees]_vars
  BY <1>1, StepWaits
<1>4. [Sees]_vars <=>
      [\A th \in Threads :
         thread[th].queue # <<>> /\ thread'[th].queue = Tail(thread[th].queue) =>
           LET t == Head(thread[th].queue) IN
           t \in {Main, th} \/ (task[t].state = "done" /\ thread[t].pc \in PastPost)]_vars
  BY DEF Sees
<1> QED BY <1>2, <1>3, <1>4, PTL DEF Spec, JoinSeesResult, Sees

-----------------------------------------------------------------------------
(* The end.  Where besides no task starts another one.                      *)

\* What a step of the main thread has to see to, the tasks being where they are.
MainSeesTo ==
  /\ thread'[Main].after = "teardown" => thread'[Main].pc \in EndPCs
  /\ thread'[Main].pc = "fini_wait" =>
       \A t \in Tasks : \/ thread[t].pc \in {"none"} \cup PastPost
                        \/ \E n \in DOMAIN thread'[Main].queue : thread'[Main].queue[n] = t
  /\ thread'[Main].pc \in {"teardown", "reap"} =>
       \A t \in Tasks : thread[t].pc \in {"none"} \cup PastPost
  /\ thread'[Main].pc = "over" => \A t \in Tasks : thread[t].pc \in {"none", "exited"}

\* Such a walk of the main thread keeps the invariant.
LEMMA MainWalkEnds ==
  ASSUME IInv, EInv, Walk(Main), MainSeesTo
  PROVE  EInv'
<1>1. thread \in [Threads -> Thread] /\ Ending /\ TeardownAlone
  BY Typed DEF IInv, EInv
<1>2. /\ \A t \in Tasks : thread'[t] = thread[t]
      /\ tasks' = tasks
  BY <1>1, MainApart DEF Walk, OneThread
<1>3. Ending'
  BY <1>1, <1>2 DEF Ending, MainSeesTo, Bears
<1>4. TeardownAlone'
  BY <1>1, <1>2 DEF TeardownAlone, MainSeesTo
<1> QED BY <1>3, <1>4 DEF EInv

\* A step of the thread of a task keeps it, if it begins none and begets none:
\* the main thread, which it leaves alone, waits for it, is past it or not at the end.
LEMMA TaskKeepsEnd ==
  ASSUME IInv, EInv, NEW t \in Tasks,
         \A u \in Threads : u # t => thread'[u] = thread[u],
         thread[t].pc \notin {"none", "exited"},
         thread'[t].pc \notin {"none", "new", "enqueue"},
         thread[t].pc \in PastPost => thread'[t].pc \in PastPost,
         tasks' = tasks
  PROVE  EInv'
<1>1. Ending /\ TeardownAlone /\ t \in Threads /\ t # Main /\ Main \in Threads
  BY MainApart DEF EInv
<1>2. thread'[Main] = thread[Main] /\ \A u \in Tasks : u # t => thread'[u] = thread[u]
  BY <1>1, MainApart
<1>3. /\ thread[Main].pc # "over"
      /\ thread[Main].pc \in {"teardown", "reap"} => thread[t].pc \in PastPost
  BY <1>1 DEF TeardownAlone
<1>4. Ending'
  BY <1>1, <1>2 DEF Ending, Bears
<1>5. TeardownAlone'
  BY <1>1, <1>2, <1>3 DEF TeardownAlone
<1> QED BY <1>4, <1>5 DEF EInv

LEMMA TaskWalkEnds ==
  ASSUME IInv, EInv, NEW t \in Tasks, Walk(t)
  PROVE  EInv'
<1>1. thread \in [Threads -> Thread] /\ t \in Threads
  BY Typed, MainApart DEF IInv
<1>2. /\ \A u \in Threads : u # t => thread'[u] = thread[u]
      /\ tasks' = tasks
  BY <1>1 DEF Walk, OneThread
<1>3. /\ thread[t].pc \notin {"none", "exited"}
      /\ thread'[t].pc \notin {"none", "new", "enqueue"}
      /\ thread[t].pc \notin PastPost
  BY DEF Walk, Inner, EndPCs, PastPost
<1> QED BY <1>2, <1>3, TaskKeepsEnd

LEMMA BodyEnds ==
  ASSUME IInv, EInv, NEW t \in Tasks, BodyNext(t)
  PROVE  EInv'
<1>1. thread \in [Threads -> Thread] /\ t \in Threads /\ thread[t] \in Thread
  BY Typed, MainApart DEF IInv
<1>2. PICK pc \in {"check", "cmd", "end", "ending", "post"} \cup PastPost : Goto(t, pc)
  BY DEF BodyNext, TaskStart, TaskCheck, FinishCmd, SeeBreak, TaskEndEnter, TaskEnd,
         TaskPost, TaskEndLeave, TaskReturn, PastPost
<1>3. /\ thread[t].pc \in {"start", "check", "cmd", "end", "ending", "post", "posted", "event"}
      /\ tasks' = tasks
  BY DEF BodyNext, TaskStart, TaskCheck, FinishCmd, SeeBreak, TaskEndEnter, TaskEnd,
         TaskPost, TaskEndLeave, TaskReturn, At
<1>4. /\ \A u \in Threads : u # t => thread'[u] = thread[u]
      /\ thread'[t].pc = pc
  <2>1. pc \in PCs
    BY DEF PCs, PastPost
  <2> QED BY <1>1, <1>2, <2>1, PlaceKind DEF Goto
<1>5. thread[t].pc \in PastPost => pc \in PastPost
  <2>1. CASE TaskEndLeave(t) \/ TaskReturn(t)
    <3>1. PICK p \in {"event", "exited"} : Goto(t, p)
      BY <2>1 DEF TaskEndLeave, TaskReturn
    <3>2. p \in PCs
      BY DEF PCs
    <3>3. thread'[t].pc = p
      BY <1>1, <3>1, <3>2, PlaceKind DEF Goto
    <3> QED BY <1>4, <3>3 DEF PastPost
  <2>2. CASE ~(TaskEndLeave(t) \/ TaskReturn(t))
    BY <2>2 DEF BodyNext, TaskStart, TaskCheck, FinishCmd, SeeBreak, TaskEndEnter, TaskEnd,
                TaskPost, At, PastPost
  <2> QED BY <2>1, <2>2
<1>6. thread[t].pc \notin {"none", "exited"} /\ pc \notin {"none", "new", "enqueue"}
  BY <1>3 DEF PastPost
<1> QED BY <1>3, <1>4, <1>5, <1>6, TaskKeepsEnd

\* Only the main thread makes tasks, and not once it has begun to end.
LEMMA BirthEnds ==
  ASSUME ~Nested, IInv, EInv, NEW th \in Threads,
         NewTask(th) \/ StoreNextId(th) \/ Enqueue(th)
  PROVE  EInv'
<1>1. /\ thread \in [Threads -> Thread] /\ tasks \in Seq(Threads)
      /\ Ending /\ Births /\ Main \in Threads
  BY Typed, MainApart DEF IInv, EInv
<1>2. th = Main
  <2>1. th \in Tasks => ~Bears(th)
    BY <1>1 DEF Ending
  <2>2. StoreNextId(th) \/ Enqueue(th) => Bears(th)
    BY DEF StoreNextId, Enqueue, At, Bears
  <2>3. NewTask(th) => th = Main
    BY DEF NewTask
  <2> QED BY <2>1, <2>2, <2>3 DEF Threads
<1> DEFINE m == thread[Main]
<1>3. /\ m \in Thread /\ m.pc \in {"cmd", "new", "enqueue"}
      /\ m.after # "teardown"
  <2>1. m.pc \in {"cmd", "new", "enqueue"}
    BY <1>2 DEF NewTask, StoreNextId, Enqueue, MayCommand, At
  <2> QED BY <1>1, <2>1 DEF Ending, EndPCs
<1>4. ASSUME thread'[Main].pc \in {"cmd", "new", "enqueue"}, thread'[Main].after = m.after,
             \A t \in Tasks : thread'[t].pc # "none" => \E n \in DOMAIN tasks' : tasks'[n] = t,
             \A t \in Tasks : thread'[t].pc \notin {"new", "enqueue"}
      PROVE  EInv'
  <2>1. Ending'
    BY <1>3, <1>4 DEF Ending, Bears
  <2>2. TeardownAlone'
    BY <1>4 DEF TeardownAlone
  <2> QED BY <2>1, <2>2 DEF EInv
<1>5. \A t \in Tasks : thread[t].pc \notin {"new", "enqueue"}
  BY <1>1 DEF Ending, Bears
<1>6. CASE NewTask(Main)
  <2>1. PICK t \in Tasks :
          OneThread(Main, [Spent(Main) EXCEPT !.pc = "new", !.born = t])
    BY <1>6 DEF NewTask, OneThread
  <2>2. Spent(Main) \in Thread /\ Spent(Main).after = m.after
    BY <1>1, <1>6, SpentKind DEF NewTask
  <2>3. /\ thread'[Main].pc = "new" /\ thread'[Main].after = m.after
        /\ \A u \in Tasks : thread'[u] = thread[u]
    BY <1>1, <2>1, <2>2, MainApart DEF OneThread, Thread
  <2>4. tasks' = tasks
    BY <1>6 DEF NewTask
  <2> QED BY <1>1, <1>4, <1>5, <2>3, <2>4 DEF Ending
<1>7. CASE StoreNextId(Main)
  <2>1. /\ thread'[Main].pc = "enqueue" /\ thread'[Main].after = m.after
        /\ \A u \in Tasks : thread'[u] = thread[u]
        /\ tasks' = tasks
    <3>1. "enqueue" \in PCs
      BY DEF PCs
    <3> QED BY <1>1, <1>3, <1>7, <3>1, PlaceKind, MainApart DEF StoreNextId, Goto
  <2> QED BY <1>1, <1>4, <1>5, <2>1 DEF Ending
<1>8. CASE Enqueue(Main)
  <2> DEFINE t == m.born
  <2>1. /\ thread' = [thread EXCEPT ![Main].pc = "cmd", ![t].pc = "start"]
        /\ tasks' = Append(tasks, t) /\ m.pc = "enqueue"
    BY <1>8 DEF Enqueue, At
  <2>2. t \in Tasks /\ t \in Threads /\ t # Main
    BY <1>1, <2>1, MainApart DEF Births, Bears
  <2> HIDE DEF t
  <2>3. /\ thread'[Main].pc = "cmd" /\ thread'[Main].after = m.after
        /\ thread'[t].pc = "start"
        /\ \A u \in Tasks : u # t => thread'[u] = thread[u]
    <3>1. /\ thread'[Main] = [m EXCEPT !.pc = "cmd"]
          /\ thread'[t] = [thread[t] EXCEPT !.pc = "start"]
          /\ \A u \in Tasks : u # t => thread'[u] = thread[u]
      BY <1>1, <2>1, <2>2, MainApart
    <3>2. "cmd" \in PCs /\ "start" \in PCs /\ thread[t] \in Thread
      BY <1>1, <2>2 DEF PCs
    <3> QED BY <1>3, <3>1, <3>2, PlaceKind
  <2>4. /\ \E n \in DOMAIN tasks' : tasks'[n] = t
        /\ \A n \in DOMAIN tasks : n \in DOMAIN tasks' /\ tasks'[n] = tasks[n]
    <3>1. /\ Len(tasks) + 1 \in DOMAIN tasks' /\ tasks'[Len(tasks) + 1] = t
          /\ \A n \in DOMAIN tasks : n \in DOMAIN tasks' /\ tasks'[n] = tasks[n]
      BY <1>1, <2>1, <2>2
    <3> QED BY <3>1
  <2>5. \A u \in Tasks : thread'[u].pc # "none" => \E n \in DOMAIN tasks' : tasks'[n] = u
    <3>1. \A u \in Tasks : thread[u].pc # "none" => \E n \in DOMAIN tasks : tasks[n] = u
      BY <1>1 DEF Ending
    <3> QED BY <2>3, <2>4, <3>1
  <2>6. \A u \in Tasks : thread'[u].pc \notin {"new", "enqueue"}
    BY <1>5, <2>3
  <2> QED BY <1>4, <2>3, <2>5, <2>6
<1> QED BY <1>2, <1>6, <1>7, <1>8

\* The main thread does not begin to end while it schedules, waits or commands.
LEMMA CallSeesTo ==
  ASSUME IInv, EInv, NEW i,
         \/ EnterCritical(Main) \/ DoSchedule(Main) \/ JoinNext(Main) \/ JoinWait(Main)
         \/ Yield(Main) \/ JoinOne(Main, i) \/ JoinAll(Main) \/ Break(Main, i)
  PROVE  MainSeesTo
<1> DEFINE m == thread[Main]
<1>1. /\ thread \in [Threads -> Thread] /\ Main \in Threads /\ m \in Thread
      /\ m.ret \in Returns(Main) /\ m.after \in Afters(Main) /\ Ending
  BY Typed, OfThread, MainApart DEF IInv, EInv
<1>2. m.pc \in {"schedule", "critical", "join", "wait", "cmd"}
  BY DEF EnterCritical, DoSchedule, JoinNext, JoinWait, Yield, JoinOne, JoinAll, Break,
         MayCommand, At
<1>3. m.after \in {"cmd", "leaving"}
  BY <1>1, <1>2 DEF Ending, EndPCs, Afters
<1>4. ASSUME thread'[Main].pc \notin {"fini_wait", "teardown", "reap", "over"},
             thread'[Main].after # "teardown"
      PROVE  MainSeesTo
  BY <1>4 DEF MainSeesTo
<1>5. \A pc \in PCs : Goto(Main, pc) => thread'[Main].pc = pc /\ thread'[Main].after = m.after
  BY <1>1, PlaceKind DEF Goto
<1>6. \A f \in Thread, next \in States, ret \in PCs :
        Call(Main, f, next, ret) => thread'[Main].pc = "schedule" /\ thread'[Main].after = f.after
  BY <1>1 DEF Call, Thread
<1>7. CASE EnterCritical(Main)
  <2>1. Goto(Main, "critical") /\ "critical" \in PCs
    BY <1>7 DEF EnterCritical, PCs
  <2> QED BY <1>3, <1>4, <1>5, <2>1
<1>8. CASE DoSchedule(Main)
  <2>1. /\ Goto(Main, m.ret) /\ m.ret \in PCs
        /\ m.ret \notin {"fini_wait", "teardown", "reap", "over"}
    BY <1>1, <1>8 DEF DoSchedule, Returns, Thread
  <2> QED BY <1>3, <1>4, <1>5, <2>1
<1>9. CASE JoinNext(Main)
  <2> DEFINE q == m.queue
  <2>1. CASE Goto(Main, m.after)
    <3>1. m.after \in PCs
      BY <1>1 DEF Thread
    <3> QED BY <1>3, <1>4, <1>5, <2>1, <3>1
  <2>2. CASE thread' = [thread EXCEPT ![Main].queue = Tail(q)]
    <3>1. thread'[Main].pc = m.pc /\ thread'[Main].after = m.after
      BY <1>1, <2>2 DEF Thread
    <3> QED BY <1>2, <1>3, <1>4, <3>1
  <2>3. CASE Call(Main, m, "sleeping", "wait")
    <3>1. "sleeping" \in States /\ "wait" \in PCs
      BY DEF States, PCs
    <3> QED BY <1>1, <1>3, <1>4, <1>6, <2>3, <3>1
  <2> QED BY <1>9, <2>1, <2>2, <2>3 DEF JoinNext
<1>10. CASE JoinWait(Main)
  <2> DEFINE f == [m EXCEPT !.queue = Tail(@)]
  <2>1. f \in Thread /\ f.after = m.after
    <3>1. m.queue # <<>>
      BY <1>1, <1>10, OfThread DEF JoinWait, At, Awaits
    <3> QED BY <1>1, <3>1, TailKind DEF Thread
  <2>2. Call(Main, f, "running", "join") /\ "running" \in States /\ "join" \in PCs
    BY <1>10 DEF JoinWait, States, PCs
  <2> HIDE DEF f
  <2> QED BY <1>3, <1>4, <1>6, <2>1, <2>2
<1>11. CASE Yield(Main) \/ JoinOne(Main, i) \/ JoinAll(Main) \/ Break(Main, i)
  <2>1. MayCommand(Main) /\ Spent(Main) \in Thread /\ Spent(Main).after = m.after
        /\ Spent(Main).pc = "cmd"
    BY <1>1, <1>11, SpentKind DEF Yield, JoinOne, JoinAll, Break
  <2>2. CASE Yield(Main)
    <3>1. Call(Main, Spent(Main), "running", "cmd") /\ "running" \in States /\ "cmd" \in PCs
      BY <2>2 DEF Yield, States, PCs
    <3> QED BY <1>3, <1>4, <1>6, <2>1, <3>1
  <2>3. CASE JoinOne(Main, i) \/ JoinAll(Main)
    <3>1. thread'[Main].pc = "join" /\ thread'[Main].after = "cmd"
      <4>1. ASSUME NEW q, thread' = [thread EXCEPT ![Main] =
                     [Spent(Main) EXCEPT !.pc = "join", !.queue = q, !.after = "cmd"]]
            PROVE  thread'[Main].pc = "join" /\ thread'[Main].after = "cmd"
        BY <1>1, <2>1, <4>1 DEF Thread
      <4> QED BY <2>3, <4>1 DEF JoinOne, JoinAll
    <3> QED BY <1>4, <3>1
  <2>4. CASE Break(Main, i)
    <3>1. thread'[Main] = Spent(Main)
      BY <1>1, <2>4 DEF Break
    <3> QED BY <1>3, <1>4, <2>1, <3>1
  <2> QED BY <1>11, <2>2, <2>3, <2>4
<1> QED BY <1>7, <1>8, <1>9, <1>10, <1>11

\* When it ends, it waits for every task that is listed.
LEMMA EndSeesTo ==
  ASSUME IInv, WInv, EInv,
         \/ Prompt \/ Input \/ Quit \/ QuitUnasked \/ AnswerNo \/ AnswerYes \/ Stay \/ Leave
         \/ CancelItem \/ CancelDone \/ SyncEnd \/ Fini \/ FiniWait \/ FiniJoined
         \/ Teardown \/ Reap
  PROVE  MainSeesTo
<1> DEFINE m == thread[Main]
<1>1. /\ thread \in [Threads -> Thread] /\ Main \in Threads /\ m \in Thread
      /\ m.after \in Afters(Main) /\ Ending /\ TeardownAlone /\ Tokens /\ Queues
  BY Typed, OfThread, MainApart DEF IInv, WInv, EInv
<1>2. \A pc \in PCs : Goto(Main, pc) => thread'[Main].pc = pc /\ thread'[Main].after = m.after
  BY <1>1, PlaceKind DEF Goto
<1>3. CASE Prompt \/ Input \/ Quit \/ QuitUnasked \/ AnswerNo \/ Stay \/ Leave \/ SyncEnd
  <2>1. m.after # "teardown"
    BY <1>1, <1>3 DEF Prompt, Input, Quit, QuitUnasked, AnswerNo, Stay, Leave, SyncEnd, At,
                      Ending, EndPCs
  <2>2. \/ \E pc \in {"leaving", "sync_end", "cmd"} : Goto(Main, pc)
        \/ \E next \in States, ret \in PCs : Call(Main, m, next, ret)
    BY <1>3 DEF Prompt, Input, Quit, QuitUnasked, AnswerNo, Stay, Leave, SyncEnd,
                MainTo, MainCall, PCs, States
  <2>3. /\ thread'[Main].pc \in {"leaving", "sync_end", "cmd", "schedule"}
        /\ thread'[Main].after = m.after
    <3>1. CASE \E pc \in {"leaving", "sync_end", "cmd"} : Goto(Main, pc)
      <4>1. {"leaving", "sync_end", "cmd"} \subseteq PCs
        BY DEF PCs
      <4> QED BY <1>2, <3>1, <4>1
    <3>2. CASE \E next \in States, ret \in PCs : Call(Main, m, next, ret)
      BY <1>1, <3>2 DEF Call, Thread
    <3> QED BY <2>2, <3>1, <3>2
  <2> QED BY <2>1, <2>3 DEF MainSeesTo
<1>4. CASE AnswerYes
  <2>1. thread'[Main].pc = "schedule" /\ thread'[Main].after = "leaving"
    BY <1>1, <1>4 DEF AnswerYes, Call, Thread
  <2> QED BY <2>1 DEF MainSeesTo
<1>5. CASE CancelItem
  <2>1. thread'[Main].pc = "cancel"
    BY <1>1, <1>5 DEF CancelItem, At, Thread
  <2> QED BY <2>1 DEF MainSeesTo, EndPCs
<1>6. CASE Fini
  <2>1. thread'[Main].pc = "cancel"
    BY <1>1, <1>6 DEF Fini, Thread
  <2> QED BY <2>1 DEF MainSeesTo, EndPCs
<1>7. CASE CancelDone
  <2>1. /\ thread'[Main].queue = tasks /\ thread'[Main].after = m.after
        /\ thread'[Main].pc = IF m.after = "leaving" THEN "join" ELSE "fini_wait"
    BY <1>1, <1>7 DEF CancelDone, Snapshot, Thread
  <2>2. \A t \in Tasks : thread[t].pc # "none" => \E n \in DOMAIN tasks : tasks[n] = t
    BY <1>1 DEF Ending
  <2> QED BY <2>1, <2>2 DEF MainSeesTo, EndPCs
<1>8. CASE FiniWait
  <2> DEFINE q == m.queue
  <2>1. m.pc = "fini_wait" /\ q # <<>> /\ CanPass(Head(q)) /\ q \in Seq(Threads)
    BY <1>1, <1>8 DEF FiniWait, At, Thread
  <2>2. thread'[Main].pc = "fini_wait" /\ thread'[Main].queue = Tail(q)
    BY <1>1, <1>8, <2>1 DEF FiniWait, Thread
  <2>3. Head(q) \in Tasks => thread[Head(q)].pc \in PastPost
    <3>1. thread[Head(q)].pc # "none"
      BY <1>1, <2>1, TailShorter DEF Queues
    <3> QED BY <1>1, <2>1, <3>1 DEF Tokens, CanPass
  <2>4. \A n \in DOMAIN q : q[n] = Head(q) \/ \E k \in DOMAIN Tail(q) : Tail(q)[k] = q[n]
    <3> SUFFICES ASSUME NEW n \in DOMAIN q, n # 1
                 PROVE  \E k \in DOMAIN Tail(q) : Tail(q)[k] = q[n]
      BY <2>1
    <3>1. n - 1 \in DOMAIN Tail(q) /\ Tail(q)[n - 1] = q[n]
      BY <2>1
    <3> QED BY <3>1
  <2>5. \A t \in Tasks : \/ thread[t].pc \in {"none"} \cup PastPost
                         \/ \E n \in DOMAIN q : q[n] = t
    BY <1>1, <2>1 DEF Ending
  <2> HIDE DEF q
  <2>6. \A t \in Tasks : \/ thread[t].pc \in {"none"} \cup PastPost
                         \/ \E n \in DOMAIN Tail(q) : Tail(q)[n] = t
    BY <2>3, <2>4, <2>5
  <2> QED BY <2>2, <2>6 DEF MainSeesTo, EndPCs
<1>9. CASE FiniJoined \/ Teardown
  <2>1. m.pc \in {"fini_wait", "teardown"} /\ (m.pc = "fini_wait" => m.queue = <<>>)
    BY <1>9 DEF FiniJoined, Teardown, At
  <2>2. \A t \in Tasks : thread[t].pc \in {"none"} \cup PastPost
    BY <1>1, <2>1 DEF Ending, TeardownAlone
  <2>3. PICK pc \in {"teardown", "reap"} : Goto(Main, pc)
    BY <1>9 DEF FiniJoined, Teardown, MainTo
  <2>4. thread'[Main].pc = pc
    <3>1. pc \in PCs
      BY DEF PCs
    <3> QED BY <1>2, <2>3, <3>1
  <2> QED BY <2>2, <2>4 DEF MainSeesTo, EndPCs
<1>10. CASE Reap
  <2>1. thread'[Main].pc = "over"
    <3>1. "over" \in PCs /\ Goto(Main, "over")
      BY <1>10 DEF Reap, MainTo, PCs
    <3> QED BY <1>2, <3>1
  <2>2. \A t \in Tasks : thread[t].pc \in {"none", "exited"}
    <3> SUFFICES ASSUME NEW t \in Tasks, thread[t].pc # "none"
                 PROVE  thread[t].pc = "exited"
      OBVIOUS
    <3>1. PICK n \in DOMAIN tasks : tasks[n] = t
      BY <1>1 DEF Ending
    <3>2. tasks \in Seq(Threads) /\ t # Main
      BY Typed, MainApart DEF IInv
    <3>3. t \in ToSet(tasks) \ {Main}
      BY <3>1, <3>2 DEF ToSet
    <3> QED BY <1>10, <3>3 DEF Reap, At
  <2> QED BY <2>1, <2>2 DEF MainSeesTo, EndPCs
<1> QED BY <1>3, <1>4, <1>5, <1>6, <1>7, <1>8, <1>9, <1>10

LEMMA InitEnds ==
  ASSUME Init
  PROVE  EInv
<1>1. \A t \in Tasks : thread[t].pc = "none"
  BY MainApart DEF Init
<1>2. thread[Main].pc = "cmd" /\ thread[Main].after = "cmd"
  BY MainApart DEF Init
<1> QED BY <1>1, <1>2 DEF EInv, Ending, Bears, TeardownAlone

LEMMA StepEnds ==
  ASSUME ~Interrupts, ~Nested, IInv, WInv, EInv, [Next]_vars
  PROVE  EInv'
<1>1. CASE UNCHANGED vars
  <2>1. UNCHANGED <<thread, tasks>>
    BY <1>1 DEF vars
  <2> QED BY <2>1 DEF EInv, Ending, Bears, TeardownAlone
<1>2. ASSUME NEW t \in Tasks, BodyNext(t)
      PROVE  EInv'
  BY <1>2, BodyEnds
<1>3. ASSUME NEW th \in Threads, NEW i,
             \/ EnterCritical(th) \/ DoSchedule(th) \/ JoinNext(th) \/ JoinWait(th)
             \/ Yield(th) \/ JoinOne(th, i) \/ JoinAll(th) \/ Break(th, i)
      PROVE  EInv'
  <2>1. Walk(th)
    BY <1>3, ScheduleWalk, JoinWalk, CommandWalk, BreakWalk
  <2>2. CASE th = Main
    BY <1>3, <2>1, <2>2, CallSeesTo, MainWalkEnds
  <2>3. CASE th \in Tasks
    BY <2>1, <2>3, TaskWalkEnds
  <2> QED BY <2>2, <2>3 DEF Threads
<1>4. ASSUME NEW th \in Threads, NewTask(th) \/ StoreNextId(th) \/ Enqueue(th)
      PROVE  EInv'
  BY <1>4, BirthEnds
<1>5. CASE UserNext
  <2>1. ~JoinInterrupted(Main)
    BY DEF JoinInterrupted
  <2> QED BY <1>5, <2>1, MainWalk, EndSeesTo, MainWalkEnds DEF UserNext
<1>6. CASE EndNext
  <2>1. CASE CancelItem
    BY <2>1, MainApart, BreakWalk, EndSeesTo, MainWalkEnds
  <2> QED BY <1>6, <2>1, MainWalk, EndSeesTo, MainWalkEnds DEF EndNext
<1>7. ASSUME NEW th \in Threads, CallNext(th) \/ Command(th)
      PROVE  EInv'
  BY <1>3, <1>4, <1>7 DEF CallNext, Command
<1> QED BY <1>1, <1>2, <1>5, <1>6, <1>7 DEF Next

\* r_core_fini frees the parts of the core when every thread is past its post, and the
\* scheduler when every thread has returned, unless the user interrupts a wait or a task
\* starts another one; either lets a task run on.
THEOREM TeardownIsAlone == ~Interrupts /\ ~Nested => (Spec => []TeardownAlone)
<1>1. SUFFICES ASSUME ~Interrupts, ~Nested
               PROVE  Spec => []TeardownAlone
  OBVIOUS
<1>2. Init => IInv /\ WInv /\ EInv
  BY InitInv, InitWaits, InitEnds
<1>3. IInv /\ WInv /\ EInv /\ [Next]_vars => (IInv /\ WInv /\ EInv)'
  BY <1>1, StepInv, StepWaits, StepEnds
<1>4. IInv /\ WInv /\ EInv => TeardownAlone
  BY DEF EInv
<1> QED BY <1>2, <1>3, <1>4, PTL DEF Spec
=============================================================================
