----------------------------- MODULE WorkerPool -----------------------------
(***************************************************************************)
(* DynamicThreadPool and WorkerThread (apscheduler/threadpool.py): a queue *)
(* of tasks, threads that take from it, a set of the threads and a count   *)
(* of those that have started.                                             *)
(*                                                                         *)
(* Three kinds of threads take part: the one that builds the pool and      *)
(* submits to it (the main loop of the scheduler), the one that calls      *)
(* shutdown, and the workers, which start a successor when they exit.  The *)
(* set is read without the lock, and a thread is started BEFORE it is put  *)
(* in the set: it may be gone by then.                                     *)
(***************************************************************************)
EXTENDS Integers, Sequences, FiniteSets

CONSTANTS Tasks,      \* the tasks that are submitted
          NoTask,     \* the None that tells a worker to leave
          Threads,    \* thread objects; a dead one that nobody refers to is used again
          NoThread,   \* no thread, and nobody holds thread_lock
          Stopper,    \* the thread that calls shutdown
          CoreThreads, MaxThreads,   \* the arguments of the constructor
          MaxDeaths,  \* bound on tasks that end their thread
          MaxRefusals \* bound on threads that cannot be started

ASSUME PoolAssumption ==
  /\ NoTask \notin Tasks
  /\ NoThread \notin Threads /\ Stopper \notin Threads /\ Stopper # NoThread
  /\ IsFiniteSet(Threads)
  /\ CoreThreads \in Nat /\ MaxThreads \in Nat /\ CoreThreads <= MaxThreads
  /\ MaxDeaths \in Nat /\ MaxRefusals \in Nat

VARIABLES task_queue, worker_threads, active_threads, shutdown_flag,
          lock,      \* who holds thread_lock across steps
          worker,    \* the threads: where each is and what it holds
          caller,    \* the submitting thread
          stopper,   \* the thread in shutdown
          ended, cancelled, refused,   \* what became of tasks
          deaths, refusals             \* counters

pool == <<task_queue, worker_threads, active_threads, shutdown_flag, lock>>
fates == <<ended, cancelled, refused>>
vars == <<pool, worker, caller, stopper, fates, deaths, refusals>>

-----------------------------------------------------------------------------
Items == Tasks \cup {NoTask}
WorkerThread == [at : {"dead", "new", "enter", "loop", "get", "run", "leave",
                       "exiting", "relaunch", "readd"},
                 core : BOOLEAN, task : Items, child : Threads \cup {NoThread}]
Caller == [at : {"idle", "put", "adjust", "grow", "launch", "add"},
           task : Items,      \* the task in the call of submit
           n : Nat,           \* len(worker_threads) as read, then threads to launch
           core : BOOLEAN, child : Threads \cup {NoThread},
           built : BOOLEAN]   \* the constructor has returned
Stop == [at : {"idle", "cancel", "lock", "signal", "done"}, n : Nat]

Dead == [at |-> "dead", core |-> FALSE, task |-> NoTask, child |-> NoThread]
New(core) == [at |-> "new", core |-> core, task |-> NoTask, child |-> NoThread]

\* A thread object that no variable of the program refers to.
Free == {w \in Threads : /\ worker[w] = Dead /\ w \notin worker_threads
                         /\ caller.child # w
                         /\ \A v \in Threads : worker[v].child # w}

\* Objects are interchangeable: which one is next makes no difference.
One(S) == CHOOSE x \in S : TRUE

Unlocked == lock = NoThread

Init ==
  /\ task_queue = <<>> /\ worker_threads = {} /\ active_threads = 0
  /\ shutdown_flag = FALSE /\ lock = NoThread
  /\ worker = [w \in Threads |-> Dead]
  /\ caller = [at |-> "adjust", task |-> NoTask, n |-> 0, core |-> FALSE, child |-> NoThread,
               built |-> FALSE]
  /\ stopper = [at |-> "idle", n |-> 0]
  /\ ended = {} /\ cancelled = {} /\ refused = {}
  /\ deaths = 0 /\ refusals = 0

-----------------------------------------------------------------------------
(* The constructor and submit, in the thread of the scheduler *)

Queued == {task_queue[i] : i \in 1..Len(task_queue)} \ {NoTask}
Held(w) == worker[w].at = "run"
Submitted == Queued \cup {worker[w].task : w \in {v \in Threads : Held(v)}}
             \cup ended \cup cancelled \cup refused
Unsubmitted == Tasks \ (Submitted \cup {caller.task})

\* submit, up to the check of the flag.
Submit(t) ==
  /\ caller.at = "idle" /\ t \in Unsubmitted /\ t = One(Unsubmitted)
  /\ \/ /\ ~shutdown_flag
        /\ caller' = [caller EXCEPT !.at = "put", !.task = t]
        /\ UNCHANGED refused
     \/ shutdown_flag /\ refused' = refused \cup {t} /\ UNCHANGED caller
  /\ UNCHANGED <<pool, worker, stopper, ended, cancelled, deaths, refusals>>

Put ==
  /\ caller.at = "put"
  /\ task_queue' = Append(task_queue, caller.task)
  /\ caller' = [caller EXCEPT !.at = "adjust", !.task = NoTask]
  /\ UNCHANGED <<worker_threads, active_threads, shutdown_flag, lock, worker, stopper,
                 fates, deaths, refusals>>

\* _adjust_thread_count reads the size of the set ...
Adjust ==
  LET current == Cardinality(worker_threads) IN
  /\ caller.at = "adjust"
  /\ \/ /\ current < CoreThreads
        /\ caller' = [caller EXCEPT !.at = "launch", !.n = CoreThreads - current, !.core = TRUE]
     \/ /\ current >= CoreThreads
        /\ caller' = [caller EXCEPT !.at = "grow", !.n = current]
  /\ UNCHANGED <<pool, worker, stopper, fates, deaths, refusals>>

\* ... and then that of the queue.
Grow ==
  /\ caller.at = "grow"
  /\ caller' = IF Len(task_queue) > 0 /\ caller.n < MaxThreads
               THEN [caller EXCEPT !.at = "launch", !.n = 1, !.core = FALSE]
               ELSE [caller EXCEPT !.at = "idle", !.n = 0, !.built = TRUE]
  /\ UNCHANGED <<pool, worker, stopper, fates, deaths, refusals>>

\* Mutant: the loop over the launches runs once more.
Launches_OneMore(n) == [caller EXCEPT !.at = IF n < 0 THEN "idle" ELSE "launch",
                                      !.n = n, !.child = NoThread, !.built = @ \/ n < 0]

\* After n launches are left to do.
Launches(n) == [caller EXCEPT !.at = IF n = 0 THEN "idle" ELSE "launch",
                              !.n = n, !.child = NoThread,
                              !.built = @ \/ n = 0]

\* _launch_thread up to thread.start(), which may fail; add comes after it.
Launch ==
  /\ caller.at = "launch"
  /\ \/ /\ Cardinality(worker_threads) >= MaxThreads
        /\ caller' = Launches(caller.n - 1) /\ UNCHANGED <<worker, refusals>>
     \/ /\ Cardinality(worker_threads) < MaxThreads /\ refusals < MaxRefusals
        /\ refusals' = refusals + 1
        /\ caller' = Launches(caller.n - 1) /\ UNCHANGED worker
     \/ /\ Cardinality(worker_threads) < MaxThreads
        /\ Free # {}
        /\ worker' = [worker EXCEPT ![One(Free)] = New(caller.core)]
        /\ caller' = [caller EXCEPT !.at = "add", !.child = One(Free)]
        /\ UNCHANGED refusals
  /\ UNCHANGED <<pool, stopper, fates, deaths>>

Add ==
  /\ caller.at = "add" /\ Unlocked
  /\ worker_threads' = worker_threads \cup {caller.child}
  /\ caller' = Launches(caller.n - 1)
  /\ UNCHANGED <<task_queue, active_threads, shutdown_flag, lock, worker, stopper,
                 fates, deaths, refusals>>

-----------------------------------------------------------------------------
(* WorkerThread.run *)

To(w, place) == worker' = [worker EXCEPT ![w].at = place]
Die(w) == worker' = [worker EXCEPT ![w] = Dead]
OnlyWorker == UNCHANGED <<pool, caller, stopper, fates, deaths, refusals>>

\* A thread started after the shutdown ends at once.
Begin(w) ==
  /\ worker[w].at = "new"
  /\ IF shutdown_flag THEN Die(w) ELSE To(w, "enter")
  /\ OnlyWorker

ThreadStarted(w) ==
  /\ worker[w].at = "enter" /\ Unlocked
  /\ active_threads' = active_threads + 1
  /\ To(w, "loop")
  /\ UNCHANGED <<task_queue, worker_threads, shutdown_flag, lock, caller, stopper,
                 fates, deaths, refusals>>

Loop(w) ==
  /\ worker[w].at = "loop"
  /\ IF shutdown_flag THEN Die(w) ELSE To(w, "get")
  /\ OnlyWorker

Get(w) ==
  /\ worker[w].at = "get" /\ task_queue # <<>>
  /\ task_queue' = Tail(task_queue)
  /\ IF Head(task_queue) = NoTask
     THEN To(w, "leave")
     ELSE worker' = [worker EXCEPT ![w] = [@ EXCEPT !.at = "run", !.task = Head(task_queue)]]
  /\ UNCHANGED <<worker_threads, active_threads, shutdown_flag, lock, caller, stopper,
                 fates, deaths, refusals>>

\* A worker that is not core waited keepalive seconds for nothing.
Timeout(w) ==
  /\ worker[w].at = "get" /\ ~worker[w].core /\ task_queue = <<>>
  /\ To(w, "leave")
  /\ OnlyWorker

\* Mutant: the task that ended its thread is given to another one.
Finish_Requeue(w) ==
  /\ Held(w) /\ deaths < MaxDeaths
  /\ deaths' = deaths + 1
  /\ task_queue' = Append(task_queue, worker[w].task)
  /\ worker' = [worker EXCEPT ![w] = [@ EXCEPT !.at = "leave", !.task = NoTask]]
  /\ UNCHANGED <<worker_threads, active_threads, shutdown_flag, lock, caller, stopper,
                 fates, refusals>>

\* The task returns or raises; what is not an Exception (SystemExit) ends the thread.
Finish(w) ==
  /\ Held(w)
  /\ ended' = ended \cup {worker[w].task}
  /\ \/ /\ worker' = [worker EXCEPT ![w] = [@ EXCEPT !.at = "loop", !.task = NoTask]]
        /\ UNCHANGED deaths
     \/ /\ deaths < MaxDeaths /\ deaths' = deaths + 1
        /\ worker' = [worker EXCEPT ![w] = [@ EXCEPT !.at = "leave", !.task = NoTask]]
  /\ UNCHANGED <<pool, caller, stopper, cancelled, refused, refusals>>

\* finally: the pool is told, unless it is shut down.
Leave(w) ==
  /\ worker[w].at = "leave"
  /\ IF shutdown_flag THEN Die(w) ELSE To(w, "exiting")
  /\ OnlyWorker

\* _thread_exiting, with the count it leaves and what decides whether there are
\* too few threads; thread_lock is kept while a core worker is started instead.
Exit(w, active, few) ==
  /\ worker[w].at = "exiting" /\ Unlocked
  /\ active_threads' = active
  /\ worker_threads' = worker_threads \ {w}
  /\ IF ~shutdown_flag /\ few
     THEN lock' = w /\ To(w, "relaunch")
     ELSE Die(w) /\ UNCHANGED lock
  /\ UNCHANGED <<task_queue, shutdown_flag, caller, stopper, fates, deaths, refusals>>

\* Mutant: a thread is counted out only if it is in the set.
ThreadExiting_InSet(w) ==
  LET active == IF w \in worker_threads THEN active_threads - 1 ELSE active_threads
  IN Exit(w, active, active < CoreThreads)

\* Mutant: the size of the set decides, not the count of threads that started.
ThreadExiting_BySet(w) ==
  Exit(w, active_threads - 1, Cardinality(worker_threads \ {w}) < CoreThreads)

\* Mutant: a thread that exits starts no other.
ThreadExiting_Alone(w) == Exit(w, active_threads - 1, FALSE)

ThreadExiting(w) == Exit(w, active_threads - 1, active_threads - 1 < CoreThreads)

Relaunch(w) ==
  /\ worker[w].at = "relaunch"
  /\ \/ /\ Cardinality(worker_threads) >= MaxThreads
        /\ Die(w) /\ lock' = NoThread /\ UNCHANGED refusals
     \/ /\ Cardinality(worker_threads) < MaxThreads /\ refusals < MaxRefusals
        /\ refusals' = refusals + 1
        /\ Die(w) /\ lock' = NoThread
     \/ /\ Cardinality(worker_threads) < MaxThreads
        /\ Free # {}
        /\ worker' = [worker EXCEPT ![One(Free)] = New(TRUE),
                         ![w] = [worker[w] EXCEPT !.at = "readd", !.child = One(Free)]]
        /\ UNCHANGED <<lock, refusals>>
  /\ UNCHANGED <<task_queue, worker_threads, active_threads, shutdown_flag,
                 caller, stopper, fates, deaths>>

Readd(w) ==
  /\ worker[w].at = "readd"
  /\ worker_threads' = worker_threads \cup {worker[w].child}
  /\ lock' = NoThread
  /\ Die(w)
  /\ UNCHANGED <<task_queue, active_threads, shutdown_flag, caller, stopper,
                 fates, deaths, refusals>>

-----------------------------------------------------------------------------
(* shutdown; its wait for the threads, at most ten joins, changes nothing *)

Shutdown ==
  /\ stopper.at = "idle" /\ caller.built
  /\ shutdown_flag' = TRUE
  /\ \E cancel_pending \in BOOLEAN :
       stopper' = [stopper EXCEPT !.at = IF cancel_pending THEN "cancel" ELSE "lock"]
  /\ UNCHANGED <<task_queue, worker_threads, active_threads, lock, worker, caller,
                 fates, deaths, refusals>>

CancelPending ==
  /\ stopper.at = "cancel"
  /\ \/ /\ task_queue = <<>>
        /\ stopper' = [stopper EXCEPT !.at = "lock"]
        /\ UNCHANGED <<task_queue, cancelled>>
     \/ /\ task_queue # <<>> /\ task_queue' = Tail(task_queue)
        /\ cancelled' = cancelled \cup ({Head(task_queue)} \ {NoTask})
        /\ UNCHANGED stopper
  /\ UNCHANGED <<worker_threads, active_threads, shutdown_flag, lock, worker, caller,
                 ended, refused, deaths, refusals>>

Signals(n) == IF n = 0 THEN /\ lock' = NoThread
                            /\ stopper' = [at |-> "done", n |-> 0]
                       ELSE /\ lock' = Stopper
                            /\ stopper' = [at |-> "signal", n |-> n]

\* Mutant: one signal for each core worker.
SignalStart_Core ==
  /\ stopper.at = "lock" /\ Unlocked
  /\ Signals(CoreThreads)
  /\ UNCHANGED <<task_queue, worker_threads, active_threads, shutdown_flag, worker, caller,
                 fates, deaths, refusals>>

SignalStart ==
  /\ stopper.at = "lock" /\ Unlocked
  /\ Signals(Cardinality(worker_threads))
  /\ UNCHANGED <<task_queue, worker_threads, active_threads, shutdown_flag, worker, caller,
                 fates, deaths, refusals>>

Signal ==
  /\ stopper.at = "signal"
  /\ task_queue' = Append(task_queue, NoTask)
  /\ Signals(stopper.n - 1)
  /\ UNCHANGED <<worker_threads, active_threads, shutdown_flag, worker, caller,
                 fates, deaths, refusals>>

-----------------------------------------------------------------------------
CallerStep == Put \/ Adjust \/ Grow \/ Launch \/ Add
WorkerStep(w) == \/ Begin(w) \/ ThreadStarted(w) \/ Loop(w) \/ Get(w) \/ Timeout(w)
                 \/ Finish(w) \/ Leave(w) \/ ThreadExiting(w) \/ Relaunch(w) \/ Readd(w)
StopperStep == CancelPending \/ SignalStart \/ Signal

Next == \/ \E t \in Tasks : Submit(t)
        \/ CallerStep
        \/ \E w \in Threads : WorkerStep(w)
        \/ Shutdown \/ StopperStep

Spec == Init /\ [][Next]_vars

\* Threads are scheduled and tasks end; nobody has to submit or to shut down.
FairSpec == /\ Spec
            /\ WF_vars(CallerStep) /\ WF_vars(StopperStep)
            /\ \A w \in Threads : WF_vars(WorkerStep(w))

-----------------------------------------------------------------------------
(* Properties *)

TypeOK ==
  /\ task_queue \in Seq(Items) /\ worker_threads \subseteq Threads
  /\ active_threads \in Int /\ shutdown_flag \in BOOLEAN
  /\ lock \in Threads \cup {NoThread, Stopper}
  /\ worker \in [Threads -> WorkerThread]
  /\ caller \in Caller /\ stopper \in Stop
  /\ ended \subseteq Tasks /\ cancelled \subseteq Tasks /\ refused \subseteq Tasks
  /\ deaths \in Nat /\ refusals \in Nat

\* What the caller of the pool knows of a task.
StatusOf(t) ==
  CASE t \in refused -> "refused"
    [] t \in cancelled -> "cancelled"
    [] t \in ended -> "ended"
    [] \E w \in Threads : Held(w) /\ worker[w].task = t -> "running"
    [] t \in Queued -> "pending"
    [] caller.task = t -> "submitted"
    [] OTHER -> "new"

TP == INSTANCE TaskPool WITH status <- [t \in Tasks |-> StatusOf(t)],
                             closed <- shutdown_flag

\* The queue, the threads and the shutdown keep the promise of the pool: a task
\* is run at most once, by one thread, and none is lost on the way from submit
\* through the queue to a worker or to _cancel_pending_tasks.
RunsEachTaskOnce == TP!Spec

Started == {w \in Threads : worker[w].at \in {"loop", "get", "run", "leave", "exiting"}}

\* active_threads, on which _thread_exiting decides whether to start another
\* core worker, counts the threads between _thread_started and _thread_exiting.
ActiveIsStarted == ~shutdown_flag => active_threads = Cardinality(Started)

\* Threads that had gone when they were put in the set: nothing takes them out, and
\* each takes the place of one that _launch_thread would start (threadpool.py:232 to 240).
Stale == {w \in worker_threads : worker[w].at = "dead"}
RoomForCore == Cardinality(Stale) <= MaxThreads - CoreThreads

\* When no thread is on its way in or out, the pool has its core of threads to
\* take tasks, although a task may end its thread and the size of the set is read
\* without the lock: unless a start was refused, or the stale threads in the set
\* leave no room for the core.
CoreKept ==
  /\ caller.at = "idle" /\ ~shutdown_flag /\ refusals = 0 /\ RoomForCore
  /\ \A w \in Threads : worker[w].at \in {"dead", "loop", "get", "run"}
  => Cardinality(Started) >= CoreThreads

\* The count and the core of threads are kept, as the two definitions above say.
CountAndCore == ActiveIsStarted /\ CoreKept

\* A task in the queue is taken, unless the pool is shut down, a thread could not be
\* started, or stale threads fill the set.
TasksRun == \A t \in Tasks :
  (t \in Queued) ~> (t \notin Queued \/ shutdown_flag \/ refusals > 0 \/ ~RoomForCore)

\* When shutdown sends its signals and no submit is under way, every worker ends:
\* none waits in the queue for a signal another has taken.
WorkersEnd == (stopper.at = "lock" /\ caller.at = "idle")
                ~> \A w \in Threads : worker[w].at = "dead"

=============================================================================
