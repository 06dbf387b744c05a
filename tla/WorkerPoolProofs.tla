-------------------------- MODULE WorkerPoolProofs --------------------------
(***************************************************************************)
(* Proofs about WorkerPool, for any number of tasks and threads and any    *)
(* limits: its types, that it implements TaskPool, and the count and the   *)
(* core of its threads.                                                    *)
(***************************************************************************)
EXTENDS WorkerPool, FiniteSetTheorems, SequenceTheorems, TLAPS

\* What the threads between two steps have in hand.
HandInv ==
  /\ caller.at \in {"launch", "add"} => caller.n # 0
  /\ caller.at = "add" => caller.child \in Threads
  /\ \A w \in Threads : worker[w].at = "readd" => worker[w].child \in Threads
  /\ (caller.at = "put") <=> (caller.task # NoTask)
  /\ \A w \in Threads : (worker[w].at = "run") <=> (worker[w].task # NoTask)
  /\ stopper.at = "signal" => stopper.n # 0

TypeInv == TypeOK /\ HandInv

LEMMA OneIsMember == ASSUME NEW S, S # {} PROVE One(S) \in S
  BY Zenon DEF One

LEMMA SetIsCounted ==
  ASSUME worker_threads \subseteq Threads
  PROVE  Cardinality(worker_threads) \in Nat
  BY PoolAssumption, FS_Subset, FS_CardinalityType

LEMMA NewThreads ==
  /\ Dead \in WorkerThread /\ Dead.at = "dead" /\ Dead.task = NoTask
  /\ \A core \in BOOLEAN : /\ New(core) \in WorkerThread
                            /\ New(core).at = "new" /\ New(core).task = NoTask
  BY DEF Dead, New, WorkerThread, Items

LEMMA LaunchesTyped ==
  ASSUME caller \in Caller, NEW n \in Nat
  PROVE  /\ Launches(n) \in Caller /\ Launches(n).at \in {"idle", "launch"}
         /\ Launches(n).at = "launch" => Launches(n).n # 0
         /\ Launches(n).task = caller.task
<1> DEFINE c == Launches(n)
<1>1. c = [caller EXCEPT !.at = IF n = 0 THEN "idle" ELSE "launch", !.n = n,
                         !.child = NoThread, !.built = caller.built \/ n = 0]
  BY DEF Launches
<1>2. c.at = (IF n = 0 THEN "idle" ELSE "launch") /\ c.n = n /\ c.task = caller.task
  BY <1>1 DEF Caller
<1>3. c \in Caller
  BY <1>1 DEF Caller
<1> QED
  BY <1>2, <1>3

LEMMA InitTyped == Init => TypeInv
<1> SUFFICES ASSUME Init PROVE TypeInv
  OBVIOUS
<1>1. caller \in Caller /\ caller.at = "adjust" /\ caller.task = NoTask
  BY DEF Init, Caller, Items
<1>2. stopper \in Stop /\ stopper.at = "idle"
  BY DEF Init, Stop
<1>3. worker \in [Threads -> WorkerThread] /\ \A w \in Threads : worker[w] = Dead
  BY NewThreads DEF Init
<1>4. TypeOK
  <2>1. /\ task_queue = <<>> /\ worker_threads = {} /\ active_threads = 0
        /\ shutdown_flag = FALSE /\ lock = NoThread
        /\ ended = {} /\ cancelled = {} /\ refused = {} /\ deaths = 0 /\ refusals = 0
    BY DEF Init
  <2>2. task_queue \in Seq(Items)
    BY <2>1, EmptySeq
  <2>3. /\ worker_threads \subseteq Threads
        /\ ended \subseteq Tasks /\ cancelled \subseteq Tasks /\ refused \subseteq Tasks
    BY <2>1, Zenon
  <2>4. active_threads \in Int /\ deaths \in Nat /\ refusals \in Nat
    BY <2>1
  <2> QED
    BY <1>1, <1>2, <1>3, <2>1, <2>2, <2>3, <2>4 DEF TypeOK
<1>5. HandInv
  BY <1>1, <1>2, <1>3, NewThreads DEF HandInv
<1> QED
  BY <1>4, <1>5 DEF TypeInv

\* The thread of the scheduler.
LEMMA CallerTyped ==
  ASSUME TypeInv, CallerStep \/ \E t \in Tasks : Submit(t)
  PROVE  TypeInv'
<1> USE DEF TypeInv
<1>a. caller \in Caller /\ Cardinality(worker_threads) \in Nat
  BY SetIsCounted DEF TypeOK
<1>b. /\ caller.n \in Nat
      /\ caller.at \in {"idle", "put", "adjust", "grow", "launch", "add"}
  BY <1>a DEF Caller
<1>1. ASSUME NEW t \in Tasks, Submit(t) PROVE TypeInv'
  <2>1. /\ caller' \in Caller /\ caller'.at \in {"idle", "put"}
        /\ (caller'.at = "put") <=> (caller'.task # NoTask)
    <3>1. caller.at = "idle" /\ caller.task = NoTask
      BY <1>1 DEF Submit, HandInv
    <3>2. caller' = caller \/ caller' = [caller EXCEPT !.at = "put", !.task = t]
      BY <1>1 DEF Submit
    <3> QED
      BY <1>a, <3>1, <3>2, PoolAssumption DEF Caller, Items
  <2>2. refused' \subseteq Tasks
    BY <1>1 DEF Submit, TypeOK
  <2>3. TypeOK'
    BY <1>1, <2>1, <2>2 DEF Submit, TypeOK, pool
  <2>4. HandInv'
    BY <1>1, <2>1 DEF Submit, HandInv
  <2> QED
    BY <2>3, <2>4
<1>2. ASSUME Put PROVE TypeInv'
  <2>1. caller' \in Caller /\ caller'.at = "adjust" /\ caller'.task = NoTask
    BY <1>2, <1>a DEF Put, Caller, Items
  <2>2. task_queue' \in Seq(Items)
    BY <1>2, <1>a DEF Put, TypeOK, Caller
  <2>3. TypeOK'
    BY <1>2, <2>1, <2>2 DEF Put, TypeOK, fates
  <2>4. HandInv'
    BY <1>2, <2>1 DEF Put, HandInv
  <2> QED
    BY <2>3, <2>4
<1>3. ASSUME Adjust PROVE TypeInv'
  <2> DEFINE current == Cardinality(worker_threads)
  <2>1. current < CoreThreads => CoreThreads - current \in Nat /\ CoreThreads - current # 0
    BY <1>a, PoolAssumption
  <2>2. \/ /\ current < CoreThreads
           /\ caller' = [caller EXCEPT !.at = "launch", !.n = CoreThreads - current, !.core = TRUE]
        \/ caller' = [caller EXCEPT !.at = "grow", !.n = current]
    BY <1>3 DEF Adjust
  <2> HIDE DEF current
  <2>3. caller' \in Caller /\ caller'.at \in {"launch", "grow"}
        /\ (caller'.at = "launch" => caller'.n # 0) /\ caller'.task = caller.task
    BY <1>a, <2>1, <2>2 DEF Caller, current
  <2>4. TypeOK'
    BY <1>3, <2>3 DEF Adjust, TypeOK, pool, fates
  <2>5. HandInv'
    BY <1>3, <2>3 DEF Adjust, HandInv
  <2> QED
    BY <2>4, <2>5
<1>4. ASSUME Grow PROVE TypeInv'
  <2>1. \/ caller' = [caller EXCEPT !.at = "launch", !.n = 1, !.core = FALSE]
        \/ caller' = [caller EXCEPT !.at = "idle", !.n = 0, !.built = TRUE]
    BY <1>4 DEF Grow
  <2>2. caller' \in Caller /\ caller'.at \in {"launch", "idle"}
        /\ (caller'.at = "launch" => caller'.n # 0) /\ caller'.task = caller.task
    <3>1. CASE caller' = [caller EXCEPT !.at = "launch", !.n = 1, !.core = FALSE]
      <4>1. caller'.at = "launch" /\ caller'.n = 1 /\ caller'.task = caller.task
        BY <1>a, <3>1 DEF Caller
      <4>2. caller' \in Caller
        BY <1>a, <3>1 DEF Caller
      <4> QED
        BY <4>1, <4>2
    <3>2. CASE caller' = [caller EXCEPT !.at = "idle", !.n = 0, !.built = TRUE]
      BY <1>a, <3>2 DEF Caller
    <3> QED
      BY <2>1, <3>1, <3>2
  <2>3. TypeOK'
    BY <1>4, <2>2 DEF Grow, TypeOK, pool, fates
  <2>4. HandInv'
    BY <1>4, <2>2 DEF Grow, HandInv
  <2> QED
    BY <2>3, <2>4
<1>5. ASSUME Launch PROVE TypeInv'
  <2>1. caller.n - 1 \in Nat
    BY <1>5, <1>b DEF Launch, HandInv
  <2> DEFINE next == Launches(caller.n - 1)
  <2>2. next \in Caller /\ next.at \in {"idle", "launch"} /\ (next.at = "launch" => next.n # 0)
        /\ next.task = caller.task
    BY <1>a, <2>1, LaunchesTyped
  <2>3. UNCHANGED <<pool, stopper, fates, deaths>> /\ refusals' \in Nat
    BY <1>5 DEF Launch, TypeOK
  <2>4. CASE caller' = next /\ UNCHANGED worker
    <3>1. TypeOK'
      BY <2>2, <2>3, <2>4 DEF TypeOK, pool, fates
    <3> HIDE DEF next
    <3>2. HandInv'
      BY <1>5, <2>2, <2>3, <2>4 DEF HandInv, Launch
    <3> QED
      BY <3>1, <3>2
  <2>5. CASE /\ Free # {} /\ worker' = [worker EXCEPT ![One(Free)] = New(caller.core)]
             /\ caller' = [caller EXCEPT !.at = "add", !.child = One(Free)]
    <3> DEFINE w == One(Free)
    <3>1. w \in Threads
      BY <2>5, OneIsMember DEF Free
    <3> HIDE DEF w
    <3>2. /\ New(caller.core) \in WorkerThread
          /\ New(caller.core).at = "new" /\ New(caller.core).task = NoTask
      BY <1>a, NewThreads DEF Caller
    <3>3. /\ worker' \in [Threads -> WorkerThread]
          /\ \A v \in Threads : \/ worker'[v] = worker[v]
                                \/ worker'[v].at = "new" /\ worker'[v].task = NoTask
      BY <2>5, <3>1, <3>2 DEF TypeOK, w
    <3>4. caller' \in Caller /\ caller'.at = "add" /\ caller'.child = w /\ caller'.n = caller.n
          /\ caller'.task = caller.task
      BY <1>a, <2>5, <3>1 DEF Caller, w
    <3>5. TypeOK'
      BY <2>3, <3>3, <3>4 DEF TypeOK, pool, fates
    <3>6. HandInv'
      BY <1>5, <2>3, <3>1, <3>3, <3>4 DEF HandInv, Launch
    <3> QED
      BY <3>5, <3>6
  <2> QED
    BY <1>5, <2>4, <2>5 DEF Launch
<1>6. ASSUME Add PROVE TypeInv'
  <2>1. caller.n - 1 \in Nat /\ caller.child \in Threads
    BY <1>6, <1>b DEF Add, HandInv
  <2> DEFINE next == Launches(caller.n - 1)
  <2>2. next \in Caller /\ next.at \in {"idle", "launch"} /\ (next.at = "launch" => next.n # 0)
        /\ next.task = caller.task
    BY <1>a, <2>1, LaunchesTyped
  <2>3. /\ caller' = next /\ worker_threads' = worker_threads \cup {caller.child}
        /\ UNCHANGED <<task_queue, active_threads, shutdown_flag, lock, worker, stopper,
                       fates, deaths, refusals>>
    BY <1>6 DEF Add
  <2> HIDE DEF next
  <2>4. TypeOK'
    BY <2>1, <2>2, <2>3 DEF TypeOK, fates
  <2>5. HandInv'
    BY <1>6, <2>2, <2>3 DEF HandInv, Add
  <2> QED
    BY <2>4, <2>5
<1> QED
  BY <1>1, <1>2, <1>3, <1>4, <1>5, <1>6 DEF CallerStep

\* A worker that moves, and one that is gone.
LEMMA ToTyped ==
  ASSUME worker \in [Threads -> WorkerThread], NEW w \in Threads,
         NEW p \in {"enter", "loop", "get", "leave", "exiting", "relaunch"}, To(w, p)
  PROVE  /\ worker' \in [Threads -> WorkerThread]
         /\ \A v \in Threads : v # w => worker'[v] = worker[v]
         /\ worker'[w].at = p /\ worker'[w].task = worker[w].task
<1> DEFINE new == [worker[w] EXCEPT !.at = p]
<1>1. new \in WorkerThread /\ new.at = p /\ new.task = worker[w].task
  BY DEF WorkerThread
<1>2. worker' = [worker EXCEPT ![w] = new]
  BY DEF To
<1> HIDE DEF new
<1> QED
  BY <1>1, <1>2

LEMMA DieTyped ==
  ASSUME worker \in [Threads -> WorkerThread], NEW w \in Threads, Die(w)
  PROVE  /\ worker' \in [Threads -> WorkerThread]
         /\ \A v \in Threads : v # w => worker'[v] = worker[v]
         /\ worker'[w].at = "dead" /\ worker'[w].task = NoTask
<1>1. Dead.at = "dead" /\ Dead.task = NoTask
  BY DEF Dead
<1> QED
  BY <1>1, NewThreads DEF Die

LEMMA HeldTyped ==
  ASSUME worker \in [Threads -> WorkerThread], NEW w \in Threads,
         NEW p \in {"loop", "leave", "run"}, NEW t \in Items,
         worker' = [worker EXCEPT ![w] = [worker[w] EXCEPT !.at = p, !.task = t]]
  PROVE  /\ worker' \in [Threads -> WorkerThread]
         /\ \A v \in Threads : v # w => worker'[v] = worker[v]
         /\ worker'[w].at = p /\ worker'[w].task = t
<1> DEFINE new == [worker[w] EXCEPT !.at = p, !.task = t]
<1>1. new \in WorkerThread /\ new.at = p /\ new.task = t
  BY DEF WorkerThread
<1> HIDE DEF new
<1> QED
  BY <1>1 DEF new

\* The pieces of a step that changes one worker.
LEMMA WorkerKeepsTypes ==
  ASSUME TypeInv, NEW w \in Threads, UNCHANGED <<caller, stopper, cancelled, refused>>,
         worker' \in [Threads -> WorkerThread],
         \A v \in Threads : v # w => worker'[v] = worker[v],
         worker'[w].at # "readd", (worker'[w].at = "run") <=> (worker'[w].task # NoTask),
         task_queue' \in Seq(Items), worker_threads' \subseteq Threads,
         active_threads' \in Int, shutdown_flag' \in BOOLEAN,
         lock' \in Threads \cup {NoThread, Stopper}, ended' \subseteq Tasks,
         deaths' \in Nat, refusals' \in Nat
  PROVE  TypeInv'
<1>1. TypeOK'
  BY DEF TypeInv, TypeOK
<1>2. HandInv'
  BY DEF TypeInv, HandInv
<1> QED
  BY <1>1, <1>2 DEF TypeInv

LEMMA WorkerTyped ==
  ASSUME TypeInv, NEW w \in Threads, WorkerStep(w)
  PROVE  TypeInv'
<1> USE DEF TypeInv
<1>a. /\ worker \in [Threads -> WorkerThread] /\ worker[w] \in WorkerThread
      /\ worker[w].task \in Items
      /\ task_queue \in Seq(Items) /\ worker_threads \subseteq Threads
      /\ active_threads \in Int /\ shutdown_flag \in BOOLEAN
      /\ lock \in Threads \cup {NoThread, Stopper} /\ ended \subseteq Tasks
      /\ deaths \in Nat /\ refusals \in Nat
      /\ worker[w].at = "run" <=> worker[w].task # NoTask
  BY DEF TypeOK, WorkerThread, HandInv
<1>1. ASSUME Begin(w) \/ Loop(w) \/ Leave(w) \/ Timeout(w) PROVE TypeInv'
  <2>1. UNCHANGED <<pool, caller, stopper, fates, deaths, refusals>>
    BY <1>1 DEF Begin, Loop, Leave, Timeout, OnlyWorker
  <2>2. /\ worker[w].at # "run"
        /\ Die(w) \/ To(w, "enter") \/ To(w, "get") \/ To(w, "leave") \/ To(w, "exiting")
    BY <1>1 DEF Begin, Loop, Leave, Timeout
  <2>3. /\ worker' \in [Threads -> WorkerThread]
        /\ \A v \in Threads : v # w => worker'[v] = worker[v]
        /\ worker'[w].at # "readd" /\ (worker'[w].at = "run" <=> worker'[w].task # NoTask)
    BY <1>a, <2>2, ToTyped, DieTyped
  <2> QED
    BY <1>a, <2>1, <2>3, WorkerKeepsTypes DEF pool, fates
<1>2. ASSUME ThreadStarted(w) PROVE TypeInv'
  <2>1. /\ active_threads' = active_threads + 1 /\ worker[w].at = "enter" /\ To(w, "loop")
        /\ UNCHANGED <<task_queue, worker_threads, shutdown_flag, lock, caller, stopper,
                       fates, deaths, refusals>>
    BY <1>2 DEF ThreadStarted
  <2>2. /\ worker' \in [Threads -> WorkerThread]
        /\ \A v \in Threads : v # w => worker'[v] = worker[v]
        /\ worker'[w].at # "readd" /\ (worker'[w].at = "run" <=> worker'[w].task # NoTask)
    BY <1>a, <2>1, ToTyped
  <2>3. active_threads' \in Int
    BY <1>a, <2>1
  <2> QED
    BY <1>a, <2>1, <2>2, <2>3, WorkerKeepsTypes DEF fates
<1>3. ASSUME Get(w) PROVE TypeInv'
  <2>1. task_queue # <<>> /\ task_queue' = Tail(task_queue)
        /\ UNCHANGED <<worker_threads, active_threads, shutdown_flag, lock, caller, stopper,
                       fates, deaths, refusals>>
    BY <1>3 DEF Get
  <2>2. Head(task_queue) \in Items /\ Tail(task_queue) \in Seq(Items)
    BY <1>a, <2>1
  <2>3. /\ worker[w].at = "get"
        /\ \/ To(w, "leave")
           \/ /\ Head(task_queue) # NoTask
              /\ worker' = [worker EXCEPT ![w] = [worker[w] EXCEPT !.at = "run",
                                                                 !.task = Head(task_queue)]]
    BY <1>3 DEF Get
  <2>4. /\ worker' \in [Threads -> WorkerThread]
        /\ \A v \in Threads : v # w => worker'[v] = worker[v]
        /\ worker'[w].at # "readd" /\ (worker'[w].at = "run" <=> worker'[w].task # NoTask)
    BY <1>a, <2>2, <2>3, ToTyped, HeldTyped
  <2> QED
    BY <1>a, <2>1, <2>2, <2>4, WorkerKeepsTypes DEF fates
<1>4. ASSUME Finish(w) PROVE TypeInv'
  <2>1. /\ ended' = ended \cup {worker[w].task}
        /\ UNCHANGED <<pool, caller, stopper, cancelled, refused, refusals>>
        /\ \E p \in {"loop", "leave"} :
             worker' = [worker EXCEPT ![w] = [worker[w] EXCEPT !.at = p, !.task = NoTask]]
    BY <1>4 DEF Finish
  <2>2. deaths' \in Nat
    BY <1>4, <1>a DEF Finish
  <2>3. worker[w].task \in Tasks
    BY <1>4, <1>a DEF Finish, Held, Items
  <2>4. /\ worker' \in [Threads -> WorkerThread]
        /\ \A v \in Threads : v # w => worker'[v] = worker[v]
        /\ worker'[w].at # "readd" /\ (worker'[w].at = "run" <=> worker'[w].task # NoTask)
    BY <1>a, <2>1, HeldTyped DEF Items
  <2> QED
    BY <1>a, <2>1, <2>2, <2>3, <2>4, WorkerKeepsTypes DEF pool
<1>5. ASSUME ThreadExiting(w) PROVE TypeInv'
  <2>1. /\ active_threads' = active_threads - 1 /\ worker_threads' = worker_threads \ {w}
        /\ UNCHANGED <<task_queue, shutdown_flag, caller, stopper, fates, deaths, refusals>>
        /\ worker[w].at = "exiting"
        /\ \/ lock' = w /\ To(w, "relaunch")
           \/ Die(w) /\ UNCHANGED lock
    BY <1>5 DEF ThreadExiting, Exit
  <2>2. /\ worker' \in [Threads -> WorkerThread]
        /\ \A v \in Threads : v # w => worker'[v] = worker[v]
        /\ worker'[w].at # "readd" /\ (worker'[w].at = "run" <=> worker'[w].task # NoTask)
    BY <1>a, <2>1, ToTyped, DieTyped
  <2>3. active_threads' \in Int /\ worker_threads' \subseteq Threads
        /\ lock' \in Threads \cup {NoThread, Stopper}
    BY <1>a, <2>1
  <2> QED
    BY <1>a, <2>1, <2>2, <2>3, WorkerKeepsTypes DEF fates
<1>6. ASSUME Relaunch(w) PROVE TypeInv'
  <2>1. /\ UNCHANGED <<task_queue, worker_threads, active_threads, shutdown_flag,
                       caller, stopper, fates, deaths>>
        /\ refusals' \in Nat /\ worker[w].at = "relaunch"
        /\ \/ Die(w) /\ lock' = NoThread
           \/ /\ Free # {} /\ UNCHANGED lock
              /\ worker' = [worker EXCEPT ![One(Free)] = New(TRUE),
                               ![w] = [worker[w] EXCEPT !.at = "readd", !.child = One(Free)]]
    <3>1. worker[w].at = "relaunch" /\ (UNCHANGED refusals \/ refusals' = refusals + 1)
      BY <1>6 DEF Relaunch
    <3>2. refusals' \in Nat
      BY <1>a, <3>1
    <3>3. UNCHANGED <<task_queue, worker_threads, active_threads, shutdown_flag,
                      caller, stopper, fates, deaths>>
      BY <1>6 DEF Relaunch
    <3>4. \/ Die(w) /\ lock' = NoThread
          \/ /\ Free # {} /\ UNCHANGED lock
             /\ worker' = [worker EXCEPT ![One(Free)] = New(TRUE),
                              ![w] = [worker[w] EXCEPT !.at = "readd", !.child = One(Free)]]
      BY <1>6 DEF Relaunch
    <3> QED
      BY <3>1, <3>2, <3>3, <3>4
  <2>2. CASE Die(w) /\ lock' = NoThread
    <3>1. /\ worker' \in [Threads -> WorkerThread]
          /\ \A v \in Threads : v # w => worker'[v] = worker[v]
          /\ worker'[w].at # "readd" /\ (worker'[w].at = "run" <=> worker'[w].task # NoTask)
      BY <1>a, <2>2, DieTyped
    <3> QED
      BY <1>a, <2>1, <2>2, <3>1, WorkerKeepsTypes DEF fates
  <2>3. CASE /\ Free # {} /\ UNCHANGED lock
             /\ worker' = [worker EXCEPT ![One(Free)] = New(TRUE),
                              ![w] = [worker[w] EXCEPT !.at = "readd", !.child = One(Free)]]
    <3> DEFINE u == One(Free)
               new == [worker[w] EXCEPT !.at = "readd", !.child = u]
    <3>0. u \in Free
      BY <2>3, OneIsMember
    <3>1. u \in Threads /\ u # w
      BY <2>1, <3>0, NewThreads DEF Free
    <3>2. new \in WorkerThread /\ new.at = "readd" /\ new.child = u /\ new.task = NoTask
      BY <1>a, <2>1, <3>1 DEF WorkerThread
    <3>3. New(TRUE) \in WorkerThread /\ New(TRUE).at = "new" /\ New(TRUE).task = NoTask
      BY NewThreads
    <3>4. worker' = [worker EXCEPT ![u] = New(TRUE), ![w] = new]
      BY <1>a, <2>3, <3>1
    <3> HIDE DEF u, new
    <3>5. /\ worker' \in [Threads -> WorkerThread]
          /\ worker'[w] = new /\ worker'[u] = New(TRUE)
          /\ \A v \in Threads : v # w /\ v # u => worker'[v] = worker[v]
      BY <1>a, <3>1, <3>2, <3>3, <3>4
    <3>6. TypeOK'
      BY <2>1, <2>3, <3>5 DEF TypeOK, fates
    <3>7. HandInv'
      <4>1. \A v \in Threads : worker'[v].at = "readd" => worker'[v].child \in Threads
        BY <3>1, <3>2, <3>3, <3>5 DEF HandInv
      <4>2. ASSUME NEW v \in Threads PROVE (worker'[v].at = "run") <=> (worker'[v].task # NoTask)
        <5>1. /\ worker'[w].at = "readd" /\ worker'[w].task = NoTask
              /\ worker'[u].at = "new" /\ worker'[u].task = NoTask
          BY <3>2, <3>3, <3>5
        <5>2. (worker[v].at = "run") <=> (worker[v].task # NoTask)
          BY DEF HandInv
        <5>3. CASE v = w \/ v = u
          BY <5>1, <5>3
        <5>4. CASE v # w /\ v # u
          BY <3>5, <5>2, <5>4
        <5> QED
          BY <5>3, <5>4
      <4> QED
        BY <2>1, <4>1, <4>2 DEF HandInv
    <3> QED
      BY <3>6, <3>7
  <2> QED
    BY <2>1, <2>2, <2>3
<1>7. ASSUME Readd(w) PROVE TypeInv'
  <2>1. /\ worker_threads' = worker_threads \cup {worker[w].child} /\ lock' = NoThread
        /\ Die(w) /\ worker[w].at = "readd"
        /\ UNCHANGED <<task_queue, active_threads, shutdown_flag, caller, stopper,
                       fates, deaths, refusals>>
    BY <1>7 DEF Readd
  <2>2. worker[w].child \in Threads
    BY <2>1 DEF HandInv
  <2>3. /\ worker' \in [Threads -> WorkerThread]
        /\ \A v \in Threads : v # w => worker'[v] = worker[v]
        /\ worker'[w].at # "readd" /\ (worker'[w].at = "run" <=> worker'[w].task # NoTask)
    BY <1>a, <2>1, DieTyped
  <2> QED
    BY <1>a, <2>1, <2>2, <2>3, WorkerKeepsTypes DEF fates
<1> QED
  BY <1>1, <1>2, <1>3, <1>4, <1>5, <1>6, <1>7 DEF WorkerStep

LEMMA SignalsTyped ==
  ASSUME NEW n \in Nat, Signals(n)
  PROVE  /\ stopper' \in Stop /\ lock' \in Threads \cup {NoThread, Stopper}
         /\ stopper'.at = "signal" => stopper'.n # 0
         /\ stopper'.at # "idle"
  BY DEF Signals, Stop

\* The thread in shutdown.
LEMMA StopperTyped ==
  ASSUME TypeInv, Shutdown \/ StopperStep
  PROVE  TypeInv'
<1> USE DEF TypeInv
<1>a. stopper \in Stop /\ task_queue \in Seq(Items) /\ cancelled \subseteq Tasks
  BY DEF TypeOK
<1>1. ASSUME Shutdown PROVE TypeInv'
  <2>1. \/ stopper' = [stopper EXCEPT !.at = "cancel"]
        \/ stopper' = [stopper EXCEPT !.at = "lock"]
    BY <1>1 DEF Shutdown
  <2>2. stopper' \in Stop /\ stopper'.at # "signal"
    BY <1>a, <2>1 DEF Stop
  <2>3. TypeOK'
    BY <1>1, <2>2 DEF Shutdown, TypeOK, fates
  <2>4. HandInv'
    BY <1>1, <2>2 DEF Shutdown, HandInv
  <2> QED
    BY <2>3, <2>4
<1>2. ASSUME CancelPending PROVE TypeInv'
  <2>1. /\ stopper.at = "cancel"
        /\ stopper' = stopper \/ stopper' = [stopper EXCEPT !.at = "lock"]
    BY <1>2 DEF CancelPending
  <2>2. stopper' \in Stop /\ stopper'.at # "signal"
    BY <1>a, <2>1 DEF Stop
  <2>3. task_queue' \in Seq(Items) /\ cancelled' \subseteq Tasks
    <3>1. CASE task_queue = <<>>
      BY <1>2, <1>a, <3>1 DEF CancelPending
    <3>2. CASE task_queue # <<>>
      <4>1. Head(task_queue) \in Items /\ Tail(task_queue) \in Seq(Items)
        BY <1>a, <3>2
      <4>2. /\ task_queue' = Tail(task_queue)
            /\ cancelled' = cancelled \cup ({Head(task_queue)} \ {NoTask})
        BY <1>2, <3>2 DEF CancelPending
      <4> QED
        BY <1>a, <4>1, <4>2 DEF Items
    <3> QED
      BY <3>1, <3>2
  <2>4. TypeOK'
    BY <1>2, <2>2, <2>3 DEF CancelPending, TypeOK
  <2>5. HandInv'
    BY <1>2, <2>2 DEF CancelPending, HandInv
  <2> QED
    BY <2>4, <2>5
<1>3. ASSUME SignalStart PROVE TypeInv'
  <2>1. Signals(Cardinality(worker_threads)) /\ Cardinality(worker_threads) \in Nat
    BY <1>3, SetIsCounted DEF SignalStart, TypeOK
  <2>2. /\ stopper' \in Stop /\ lock' \in Threads \cup {NoThread, Stopper}
        /\ stopper'.at = "signal" => stopper'.n # 0
    BY <2>1, SignalsTyped
  <2>3. TypeOK'
    BY <1>3, <2>2 DEF SignalStart, TypeOK, fates
  <2>4. HandInv'
    BY <1>3, <2>2 DEF SignalStart, HandInv
  <2> QED
    BY <2>3, <2>4
<1>4. ASSUME Signal PROVE TypeInv'
  <2>1. stopper.n - 1 \in Nat /\ Signals(stopper.n - 1)
    BY <1>4, <1>a DEF Signal, HandInv, Stop
  <2>2. /\ stopper' \in Stop /\ lock' \in Threads \cup {NoThread, Stopper}
        /\ stopper'.at = "signal" => stopper'.n # 0
    BY <2>1, SignalsTyped
  <2>3. task_queue' \in Seq(Items)
    BY <1>4, <1>a DEF Signal, Items
  <2>4. TypeOK'
    BY <1>4, <2>2, <2>3 DEF Signal, TypeOK, fates
  <2>5. HandInv'
    BY <1>4, <2>2 DEF Signal, HandInv
  <2> QED
    BY <2>4, <2>5
<1> QED
  BY <1>1, <1>2, <1>3, <1>4 DEF StopperStep

LEMMA StutterTyped == TypeInv /\ UNCHANGED vars => TypeInv'
  BY DEF TypeInv, TypeOK, HandInv, vars, pool, fates

LEMMA TypeInvIsInvariant == Spec => []TypeInv
<1>1. TypeInv /\ [Next]_vars => TypeInv'
  BY CallerTyped, WorkerTyped, StopperTyped, StutterTyped DEF Next
<1> QED
  BY <1>1, InitTyped, PTL DEF Spec

\* Every variable of the pool keeps its type, whatever the limits.
THEOREM TypeCorrect == Spec => []TypeOK
<1>1. TypeInv => TypeOK
  BY DEF TypeInv
<1> QED
  BY <1>1, TypeInvIsInvariant, PTL

-----------------------------------------------------------------------------
(* The tasks of a queue, and those that are run *)

TasksIn(s) == {s[i] : i \in 1..Len(s)} \ {NoTask}
OnceIn(s) == \A i, j \in 1..Len(s) : i # j /\ s[i] = s[j] => s[i] = NoTask

LEMMA AppendTasks ==
  ASSUME NEW s \in Seq(Items), NEW x \in Items
  PROVE  /\ TasksIn(Append(s, x)) = TasksIn(s) \cup ({x} \ {NoTask})
         /\ OnceIn(s) /\ x \notin TasksIn(s) => OnceIn(Append(s, x))
<1> DEFINE a == Append(s, x)
           n == Len(s)
<1>1. n \in Nat /\ Len(a) = n + 1 /\ a[n + 1] = x /\ \A i \in 1..n : a[i] = s[i]
  BY DEF a, n
<1>2. 1..Len(a) = 1..n \cup {n + 1}
  BY <1>1
<1> HIDE DEF a
<1>3. {a[i] : i \in 1..Len(a)} = {s[i] : i \in 1..n} \cup {x}
  BY <1>1, <1>2
<1>4. TasksIn(a) = TasksIn(s) \cup ({x} \ {NoTask})
  BY <1>3 DEF TasksIn, n
<1>5. ASSUME OnceIn(s), x \notin TasksIn(s) PROVE OnceIn(a)
  <2> SUFFICES ASSUME NEW i \in 1..Len(a), NEW j \in 1..Len(a), i # j, a[i] = a[j]
               PROVE  a[i] = NoTask
    BY DEF OnceIn
  <2>1. \A k \in 1..n : s[k] = x => x = NoTask
    BY <1>5 DEF TasksIn, n
  <2>2. CASE i \in 1..n /\ j \in 1..n
    BY <1>1, <1>5, <2>2 DEF OnceIn, n
  <2>3. CASE i = n + 1 \/ j = n + 1
    BY <1>1, <1>2, <2>1, <2>3
  <2> QED
    BY <1>2, <2>2, <2>3
<1> QED
  BY <1>4, <1>5 DEF a

LEMMA TailTasks ==
  ASSUME NEW s \in Seq(Items), s # <<>>, OnceIn(s)
  PROVE  /\ OnceIn(Tail(s)) /\ TasksIn(Tail(s)) = TasksIn(s) \ {Head(s)}
         /\ Head(s) # NoTask => Head(s) \in TasksIn(s)
<1> DEFINE t == Tail(s)
           n == Len(s)
           x == Head(s)
<1>1. n \in Nat /\ n >= 1 /\ Len(t) = n - 1 /\ x = s[1] /\ \A i \in 1..(n - 1) : t[i] = s[i + 1]
  BY DEF t, n, x
<1> HIDE DEF t, x
<1>2. OnceIn(t)
  <2> SUFFICES ASSUME NEW i \in 1..Len(t), NEW j \in 1..Len(t), i # j, t[i] = t[j]
               PROVE  t[i] = NoTask
    BY DEF OnceIn
  <2>1. i + 1 \in 1..n /\ j + 1 \in 1..n /\ i + 1 # j + 1 /\ t[i] = s[i + 1] /\ t[j] = s[j + 1]
    BY <1>1
  <2> QED
    BY <2>1 DEF OnceIn, n
<1>3. \A y : y \in TasksIn(t) <=> y \in TasksIn(s) /\ y # x
  <2> TAKE y
  <2>1. ASSUME y \in TasksIn(t) PROVE y \in TasksIn(s) /\ y # x
    <3>1. PICK i \in 1..Len(t) : y = t[i] /\ y # NoTask
      BY <2>1 DEF TasksIn
    <3>2. i + 1 \in 1..n /\ y = s[i + 1] /\ i + 1 # 1 /\ 1 \in 1..n
      BY <1>1, <3>1
    <3> QED
      BY <1>1, <3>1, <3>2 DEF TasksIn, OnceIn, n
  <2>2. ASSUME y \in TasksIn(s), y # x PROVE y \in TasksIn(t)
    <3>1. PICK i \in 1..n : y = s[i] /\ y # NoTask
      BY <2>2 DEF TasksIn, n
    <3>2. i - 1 \in 1..Len(t) /\ t[i - 1] = s[i]
      BY <1>1, <2>2, <3>1
    <3> QED
      BY <3>1, <3>2 DEF TasksIn
  <2> QED
    BY <2>1, <2>2
<1>4. x # NoTask => x \in TasksIn(s)
  BY <1>1 DEF TasksIn, n
<1> QED
  BY <1>2, <1>3, <1>4 DEF t, x

-----------------------------------------------------------------------------
(* Every task is in one place *)

Running == {worker[w].task : w \in Threads} \ {NoTask}

\* Refused, cancelled, ended, running and queued tasks, and the one being submitted.
Apart(R, C, E, N, Q, c) ==
  /\ \A t \in R : t \notin C /\ t \notin E /\ t \notin N /\ t \notin Q /\ t # c
  /\ \A t \in C : t \notin E /\ t \notin N /\ t \notin Q /\ t # c
  /\ \A t \in E : t \notin N /\ t \notin Q /\ t # c
  /\ \A t \in N : t \notin Q /\ t # c
  /\ \A t \in Q : t # c

Fate(t, R, C, E, N, Q, c) ==
  IF t \in R THEN "refused" ELSE IF t \in C THEN "cancelled" ELSE IF t \in E THEN "ended"
  ELSE IF t \in N THEN "running" ELSE IF t \in Q THEN "pending"
  ELSE IF t = c THEN "submitted" ELSE "new"

FateInv ==
  /\ OnceIn(task_queue)
  /\ \A v, w \in Threads : v # w /\ worker[v].task = worker[w].task => worker[v].task = NoTask
  /\ Apart(refused, cancelled, ended, Running, TasksIn(task_queue), caller.task)
  /\ shutdown_flag <=> stopper.at # "idle"

LEMMA StatusIsFate ==
  ASSUME TypeInv, FateInv, NEW t \in Tasks
  PROVE  StatusOf(t) = Fate(t, refused, cancelled, ended, Running, TasksIn(task_queue),
                            caller.task)
<1>1. (\E w \in Threads : Held(w) /\ worker[w].task = t) <=> t \in Running
  BY PoolAssumption DEF Running, Held, TypeInv, HandInv
<1>2. Queued = TasksIn(task_queue)
  BY DEF Queued, TasksIn
<1>3. /\ t \in refused => /\ t \notin cancelled /\ t \notin ended /\ t \notin Running
                          /\ t \notin Queued /\ t # caller.task
      /\ t \in cancelled => t \notin ended /\ t \notin Running /\ t \notin Queued /\ t # caller.task
      /\ t \in ended => t \notin Running /\ t \notin Queued /\ t # caller.task
      /\ t \in Running => t \notin Queued /\ t # caller.task
      /\ t \in Queued => t # caller.task
  BY <1>2 DEF FateInv, Apart
<1> HIDE DEF Running
<1>4. CASE t \in refused
  BY <1>1, <1>3, <1>4 DEF StatusOf, Fate
<1>5. CASE t \in cancelled
  BY <1>1, <1>3, <1>5 DEF StatusOf, Fate
<1>6. CASE t \in ended
  BY <1>1, <1>3, <1>6 DEF StatusOf, Fate
<1>7. CASE t \in Running
  BY <1>1, <1>3, <1>7 DEF StatusOf, Fate
<1>8. CASE t \in Queued
  BY <1>1, <1>2, <1>3, <1>8 DEF StatusOf, Fate
<1>9. CASE t = caller.task
  BY <1>1, <1>2, <1>3, <1>9 DEF StatusOf, Fate
<1>10. CASE /\ t \notin refused /\ t \notin cancelled /\ t \notin ended /\ t \notin Running
            /\ t \notin Queued /\ t # caller.task
  BY <1>1, <1>2, <1>10 DEF StatusOf, Fate
<1> QED
  BY <1>4, <1>5, <1>6, <1>7, <1>8, <1>9, <1>10

\* What a step does to the sets of tasks.
LEMMA RunningKept ==
  ASSUME \A w \in Threads : worker'[w].task = worker[w].task
  PROVE  Running' = Running
  BY DEF Running

LEMMA InitFate == Init => FateInv
<1> SUFFICES ASSUME Init PROVE FateInv
  OBVIOUS
<1>1. \A w \in Threads : worker[w].task = NoTask
  BY NewThreads DEF Init
<1>2. Running = {}
  BY <1>1 DEF Running
<1>3. TasksIn(task_queue) = {} /\ OnceIn(task_queue)
  BY DEF Init, TasksIn, OnceIn
<1>4. refused = {} /\ cancelled = {} /\ ended = {} /\ stopper.at = "idle" /\ ~shutdown_flag
  BY DEF Init
<1> QED
  BY <1>1, <1>2, <1>3, <1>4 DEF FateInv, Apart

\* The places of the tasks after a step.
Become(R, C, E, N, Q, c) ==
  /\ refused' = R /\ cancelled' = C /\ ended' = E /\ Running' = N
  /\ TasksIn(task_queue)' = Q /\ caller'.task = c

\* The ways in which one task moves.
Moves(t) ==
  LET R == refused
      C == cancelled
      E == ended
      N == Running
      Q == TasksIn(task_queue)
      c == caller.task
      Unknown == t \notin R /\ t \notin C /\ t \notin E /\ t \notin N /\ t \notin Q
  IN /\ UNCHANGED shutdown_flag
     /\ \/ ~shutdown_flag /\ c = NoTask /\ Unknown /\ Become(R, C, E, N, Q, t)
        \/ shutdown_flag /\ c = NoTask /\ Unknown /\ Become(R \cup {t}, C, E, N, Q, c)
        \/ c = t /\ Become(R, C, E, N, Q \cup {t}, NoTask)
        \/ t \in Q /\ Become(R, C, E, N \cup {t}, Q \ {t}, c)
        \/ t \in N /\ Become(R, C, E \cup {t}, N \ {t}, Q, c)
        \/ shutdown_flag /\ t \in Q /\ Become(R, C \cup {t}, E, N, Q \ {t}, c)

Stays == Become(refused, cancelled, ended, Running, TasksIn(task_queue), caller.task)

FateStep == \/ Stays /\ (UNCHANGED shutdown_flag \/ (~shutdown_flag /\ shutdown_flag'))
            \/ \E t \in Tasks : Moves(t)

\* A task that moves is in one place again.
LEMMA ApartKept ==
  ASSUME TypeInv, FateInv, FateStep
  PROVE  Apart(refused, cancelled, ended, Running, TasksIn(task_queue), caller.task)'
<1> DEFINE R == refused
           C == cancelled
           E == ended
           N == Running
           Q == TasksIn(task_queue)
           c == caller.task
<1>1. Apart(R, C, E, N, Q, c)
  BY DEF FateInv
<1>2. NoTask \notin R /\ NoTask \notin C /\ NoTask \notin E /\ NoTask \notin N /\ NoTask \notin Q
  BY PoolAssumption DEF TypeInv, TypeOK, Running, TasksIn
<1>3. ASSUME NEW R1, NEW C1, NEW E1, NEW N1, NEW Q1, NEW c1,
             Apart(R1, C1, E1, N1, Q1, c1), Become(R1, C1, E1, N1, Q1, c1)
      PROVE  Apart(R, C, E, N, Q, c)'
  BY <1>3 DEF Become
<1>4. ASSUME NEW t \in Tasks, Moves(t) PROVE Apart(R, C, E, N, Q, c)'
  <2>0. t # NoTask
    BY PoolAssumption
  <2> DEFINE Unknown == t \notin R /\ t \notin C /\ t \notin E /\ t \notin N /\ t \notin Q
  <2>1. CASE c = NoTask /\ Unknown /\ Become(R, C, E, N, Q, t)
    <3>1. Apart(R, C, E, N, Q, t)
      BY <1>1, <2>1 DEF Apart
    <3> QED
      BY <1>3, <2>1, <3>1
  <2>2. CASE c = NoTask /\ Unknown /\ Become(R \cup {t}, C, E, N, Q, c)
    <3>1. Apart(R \cup {t}, C, E, N, Q, c)
      BY <1>1, <2>0, <2>2 DEF Apart
    <3> QED
      BY <1>3, <2>2, <3>1
  <2>3. CASE c = t /\ Become(R, C, E, N, Q \cup {t}, NoTask)
    <3>1. Apart(R, C, E, N, Q \cup {t}, NoTask)
      BY <1>1, <1>2, <2>0, <2>3 DEF Apart
    <3> QED
      BY <1>3, <2>3, <3>1
  <2>4. CASE t \in Q /\ Become(R, C, E, N \cup {t}, Q \ {t}, c)
    <3>1. Apart(R, C, E, N \cup {t}, Q \ {t}, c)
      BY <1>1, <2>4 DEF Apart
    <3> QED
      BY <1>3, <2>4, <3>1
  <2>5. CASE t \in N /\ Become(R, C, E \cup {t}, N \ {t}, Q, c)
    <3>1. Apart(R, C, E \cup {t}, N \ {t}, Q, c)
      BY <1>1, <2>5 DEF Apart
    <3> QED
      BY <1>3, <2>5, <3>1
  <2>6. CASE t \in Q /\ Become(R, C \cup {t}, E, N, Q \ {t}, c)
    <3>1. Apart(R, C \cup {t}, E, N, Q \ {t}, c)
      BY <1>1, <2>6 DEF Apart
    <3> QED
      BY <1>3, <2>6, <3>1
  <2> QED
    BY <1>4, <2>1, <2>2, <2>3, <2>4, <2>5, <2>6 DEF Moves
<1> QED
  BY <1>1, <1>3, <1>4 DEF FateStep, Stays

\* The steps of the scheduler's thread.
LEMMA CallerFate ==
  ASSUME TypeInv, FateInv, CallerStep \/ \E t \in Tasks : Submit(t)
  PROVE  FateStep /\ OnceIn(task_queue)'
<1> USE DEF TypeInv
<1>a. caller \in Caller /\ caller.task \in Items /\ task_queue \in Seq(Items)
      /\ OnceIn(task_queue) /\ (caller.at = "put" <=> caller.task # NoTask)
  BY DEF TypeOK, Caller, FateInv, HandInv
<1>1. ASSUME NEW t \in Tasks, Submit(t) PROVE FateStep /\ OnceIn(task_queue)'
  <2>1. UNCHANGED <<task_queue, worker, shutdown_flag, cancelled, ended>> /\ caller.at = "idle"
    BY <1>1 DEF Submit, pool
  <2>2. UNCHANGED <<Running, TasksIn(task_queue)>> /\ OnceIn(task_queue)'
    BY <1>a, <2>1 DEF Running
  <2>3. /\ t \notin refused /\ t \notin cancelled /\ t \notin ended
        /\ t \notin Running /\ t \notin TasksIn(task_queue)
    <3>1. /\ t \notin refused /\ t \notin cancelled /\ t \notin ended /\ t \notin Queued
          /\ \A w \in Threads : Held(w) => worker[w].task # t
      BY <1>1 DEF Submit, Unsubmitted, Submitted
    <3>2. t \notin Running
      BY <3>1 DEF Running, Held, HandInv
    <3> QED
      BY <3>1, <3>2 DEF Queued, TasksIn
  <2>4. \/ ~shutdown_flag /\ caller' = [caller EXCEPT !.at = "put", !.task = t] /\ UNCHANGED refused
        \/ shutdown_flag /\ refused' = refused \cup {t} /\ UNCHANGED caller
    BY <1>1 DEF Submit
  <2>5. \/ ~shutdown_flag /\ caller'.task = t /\ UNCHANGED refused
        \/ shutdown_flag /\ refused' = refused \cup {t} /\ caller'.task = caller.task
    BY <1>a, <2>4 DEF Caller
  <2>6. Moves(t)
    BY <1>a, <2>1, <2>2, <2>3, <2>5 DEF Moves, Become
  <2> QED
    BY <2>2, <2>6 DEF FateStep
<1>2. ASSUME Put PROVE FateStep /\ OnceIn(task_queue)'
  <2> DEFINE t == caller.task
  <2>1. /\ task_queue' = Append(task_queue, t) /\ caller.at = "put"
        /\ caller' = [caller EXCEPT !.at = "adjust", !.task = NoTask]
        /\ UNCHANGED <<worker, shutdown_flag, fates>>
    BY <1>2 DEF Put
  <2>2. t \in Tasks /\ caller'.task = NoTask
    BY <1>a, <2>1 DEF Caller, Items
  <2>3. t \notin TasksIn(task_queue)
    BY DEF FateInv, Apart
  <2>4. TasksIn(task_queue)' = TasksIn(task_queue) \cup {t} /\ OnceIn(task_queue)'
    BY <1>a, <2>1, <2>2, <2>3, AppendTasks, PoolAssumption
  <2>5. Running' = Running
    BY <2>1 DEF Running
  <2>6. Moves(t)
    BY <2>1, <2>2, <2>4, <2>5 DEF Moves, Become, fates
  <2> QED
    BY <2>2, <2>4, <2>6 DEF FateStep
<1>3. ASSUME Adjust \/ Grow \/ Launch \/ Add PROVE FateStep /\ OnceIn(task_queue)'
  <2>1. UNCHANGED <<task_queue, shutdown_flag, fates>>
    BY <1>3 DEF Adjust, Grow, Launch, Add, pool
  <2>2. caller'.task = caller.task
    <3>1. ASSUME NEW n PROVE Launches(n).task = caller.task
      BY <1>a DEF Launches, Caller
    <3>2. CASE Adjust
      BY <1>a, <3>2 DEF Adjust, Caller
    <3>3. CASE Grow
      BY <1>a, <3>3 DEF Grow, Caller
    <3>4. CASE Launch
      <4>1. CASE caller' = Launches(caller.n - 1)
        BY <3>1, <4>1
      <4>2. CASE caller' = [caller EXCEPT !.at = "add", !.child = One(Free)]
        BY <1>a, <4>2 DEF Caller
      <4> QED
        BY <3>4, <4>1, <4>2 DEF Launch
    <3>5. CASE Add
      BY <1>a, <3>1, <3>5 DEF Add, Caller
    <3> QED
      BY <1>3, <3>2, <3>3, <3>4, <3>5
  <2>3. \A w \in Threads : worker'[w].task = worker[w].task
    <3>1. CASE UNCHANGED worker
      BY <3>1
    <3>2. CASE Free # {} /\ worker' = [worker EXCEPT ![One(Free)] = New(caller.core)]
      <4>1. One(Free) \in Free
        BY <3>2, OneIsMember
      <4>2. One(Free) \in Threads /\ worker[One(Free)].task = NoTask
        BY <4>1, NewThreads DEF Free
      <4>3. New(caller.core).task = NoTask
        BY DEF New
      <4> QED
        BY <3>2, <4>2, <4>3 DEF TypeOK
    <3> QED
      BY <1>3, <3>1, <3>2 DEF Adjust, Grow, Launch, Add
  <2>4. Stays
    BY <2>1, <2>2, <2>3, RunningKept DEF Stays, Become, fates
  <2>5. OnceIn(task_queue)' /\ UNCHANGED shutdown_flag
    BY <1>a, <2>1
  <2> QED
    BY <2>4, <2>5 DEF FateStep
<1> QED
  BY <1>1, <1>2, <1>3 DEF CallerStep

\* The head of the queue is one of its tasks, or the signal.
LEMMA HeadInQueue ==
  ASSUME TypeInv, task_queue # <<>>
  PROVE  Head(task_queue) \in Items /\ Tail(task_queue) \in Seq(Items)
<1>1. task_queue \in Seq(Items)
  BY DEF TypeInv, TypeOK
<1> QED
  BY <1>1

\* The threads other than w keep their task, w has x.
LEMMA RunningOf ==
  ASSUME TypeInv, NEW w \in Threads, NEW x,
         worker'[w].task = x,
         \A v \in Threads : v # w => worker'[v].task = worker[v].task
  PROVE  Running' = ({worker[v].task : v \in Threads \ {w}} \cup {x}) \ {NoTask}
<1>1. Threads = (Threads \ {w}) \cup {w}
  OBVIOUS
<1> QED
  BY <1>1 DEF Running

DistinctTasks ==
  \A v, w \in Threads : v # w /\ worker[v].task = worker[w].task => worker[v].task = NoTask

LEMMA WorkerFate ==
  ASSUME TypeInv, FateInv, NEW w \in Threads, WorkerStep(w)
  PROVE  FateStep /\ OnceIn(task_queue)' /\ DistinctTasks'
<1>a. /\ worker \in [Threads -> WorkerThread] /\ task_queue \in Seq(Items)
      /\ OnceIn(task_queue) /\ DistinctTasks
      /\ \A v \in Threads : worker[v].task \in Items
  BY DEF TypeInv, TypeOK, FateInv, DistinctTasks, WorkerThread
<1>b. \A v \in Threads : worker[v].task # NoTask => worker[v].at = "run"
  BY DEF TypeInv, HandInv
<1>1. ASSUME UNCHANGED <<task_queue, shutdown_flag, fates>>, caller' = caller,
             \A v \in Threads : worker'[v].task = worker[v].task
      PROVE  FateStep /\ OnceIn(task_queue)' /\ DistinctTasks'
  <2>1. Stays
    BY <1>1, RunningKept DEF Stays, Become, fates
  <2>2. UNCHANGED shutdown_flag /\ OnceIn(task_queue)'
    BY <1>1, <1>a
  <2>3. DistinctTasks'
    BY <1>1, <1>a DEF DistinctTasks
  <2> QED
    BY <2>1, <2>2, <2>3 DEF FateStep
<1>2. ASSUME NEW place, To(w, place) PROVE \A v \in Threads : worker'[v].task = worker[v].task
  BY <1>2, <1>a DEF To, WorkerThread
<1>3. ASSUME Die(w), worker[w].at # "run" PROVE \A v \in Threads : worker'[v].task = worker[v].task
  BY <1>3, <1>a, <1>b DEF Die, Dead
<1>4. CASE Begin(w) \/ ThreadStarted(w) \/ Loop(w) \/ Timeout(w) \/ Leave(w) \/ ThreadExiting(w)
           \/ Readd(w)
  <2>1. UNCHANGED <<task_queue, shutdown_flag, fates>> /\ caller' = caller
    BY <1>4 DEF Begin, ThreadStarted, Loop, Timeout, Leave, ThreadExiting, Exit, Readd,
                OnlyWorker, pool
  <2>2. \/ \E place \in {"enter", "loop", "get", "leave", "exiting", "relaunch"} : To(w, place)
        \/ Die(w) /\ worker[w].at # "run"
    BY <1>4 DEF Begin, ThreadStarted, Loop, Timeout, Leave, ThreadExiting, Exit, Readd
  <2>3. \A v \in Threads : worker'[v].task = worker[v].task
    BY <1>2, <1>3, <2>2
  <2> QED
    BY <1>1, <2>1, <2>3
<1>5. CASE Relaunch(w)
  <2>1. UNCHANGED <<task_queue, shutdown_flag, fates>> /\ caller' = caller
    BY <1>5 DEF Relaunch
  <2>2. CASE Die(w)
    BY <1>1, <1>3, <1>5, <2>1, <2>2 DEF Relaunch
  <2>3. CASE /\ Free # {}
             /\ worker' = [worker EXCEPT ![One(Free)] = New(TRUE),
                              ![w] = [worker[w] EXCEPT !.at = "readd", !.child = One(Free)]]
    <3>1. One(Free) \in Free
      BY <2>3, OneIsMember
    <3>2. One(Free) \in Threads /\ worker[One(Free)].task = NoTask
      BY <3>1, NewThreads DEF Free
    <3>3. New(TRUE).task = NoTask
      BY DEF New
    <3>4. [worker[w] EXCEPT !.at = "readd", !.child = One(Free)].task = worker[w].task
      BY <1>a DEF WorkerThread
    <3> HIDE DEF One
    <3>5. \A v \in Threads : worker'[v].task = worker[v].task
      BY <1>a, <2>3, <3>2, <3>3, <3>4
    <3> QED
      BY <1>1, <2>1, <3>5
  <2> QED
    BY <1>5, <2>2, <2>3 DEF Relaunch
<1>6. CASE Get(w)
  <2> DEFINE x == Head(task_queue)
  <2>1. /\ task_queue # <<>> /\ task_queue' = Tail(task_queue) /\ worker[w].at = "get"
        /\ UNCHANGED <<shutdown_flag, fates>> /\ caller' = caller
    BY <1>6 DEF Get
  <2>2. /\ OnceIn(task_queue)' /\ TasksIn(task_queue)' = TasksIn(task_queue) \ {x}
        /\ x # NoTask => x \in TasksIn(task_queue)
    BY <1>a, <2>1, TailTasks
  <2>3. x \in Items /\ worker[w].task = NoTask
    BY <1>a, <1>b, <2>1, HeadInQueue
  <2>4. CASE x = NoTask
    <3>1. \A v \in Threads : worker'[v].task = worker[v].task
      BY <1>2, <1>6, <2>4 DEF Get
    <3>2. TasksIn(task_queue)' = TasksIn(task_queue)
      BY <2>2, <2>4 DEF TasksIn
    <3>3. Stays
      BY <2>1, <3>1, <3>2, RunningKept DEF Stays, Become, fates
    <3>4. DistinctTasks'
      BY <1>a, <3>1 DEF DistinctTasks
    <3>5. UNCHANGED shutdown_flag
      BY <2>1
    <3> QED
      BY <2>2, <3>3, <3>4, <3>5 DEF FateStep
  <2>5. CASE x # NoTask
    <3>1. worker' = [worker EXCEPT ![w] = [worker[w] EXCEPT !.at = "run", !.task = x]]
      BY <1>6, <2>5 DEF Get
    <3>2. x \in Tasks /\ x \in TasksIn(task_queue)
      BY <2>2, <2>3, <2>5 DEF Items
    <3> HIDE DEF x
    <3>3. /\ worker'[w].task = x
          /\ \A v \in Threads : v # w => worker'[v].task = worker[v].task
      BY <1>a, <3>1 DEF WorkerThread
    <3>4. Running' = Running \cup {x}
      <4>1. Running' = ({worker[v].task : v \in Threads \ {w}} \cup {x}) \ {NoTask}
        BY <3>3, RunningOf
      <4>2. Running = {worker[v].task : v \in Threads \ {w}} \ {NoTask}
        BY <2>3 DEF Running
      <4> QED
        BY <2>5, <4>1, <4>2
    <3>5. Become(refused, cancelled, ended, Running \cup {x}, TasksIn(task_queue) \ {x},
                 caller.task)
      BY <2>1, <2>2, <3>4 DEF Become, fates
    <3>6. Moves(x)
      BY <2>1, <3>2, <3>5 DEF Moves
    <3>7. \A v \in Threads : worker[v].task # x
      <4>1. x \notin Running
        BY <3>2 DEF FateInv, Apart
      <4> QED
        BY <2>5, <4>1 DEF Running
    <3>8. DistinctTasks'
      BY <1>a, <3>3, <3>7 DEF DistinctTasks
    <3> QED
      BY <2>2, <3>2, <3>6, <3>8 DEF FateStep
  <2> QED
    BY <2>4, <2>5
<1>7. CASE Finish(w)
  <2> DEFINE x == worker[w].task
  <2>1. /\ worker[w].at = "run" /\ ended' = ended \cup {x}
        /\ UNCHANGED <<task_queue, shutdown_flag, cancelled, refused>> /\ caller' = caller
    BY <1>7 DEF Finish, Held, pool
  <2>2. x \in Tasks
    BY <1>a, <2>1 DEF TypeInv, HandInv, Items
  <2>3. \E place \in {"loop", "leave"} :
          worker' = [worker EXCEPT ![w] = [worker[w] EXCEPT !.at = place, !.task = NoTask]]
    BY <1>7 DEF Finish
  <2> HIDE DEF x
  <2>4. /\ worker'[w].task = NoTask
        /\ \A v \in Threads : v # w => worker'[v].task = worker[v].task
    BY <1>a, <2>3 DEF WorkerThread
  <2>5. Running' = Running \ {x}
    <3>1. Running' = ({worker[v].task : v \in Threads \ {w}} \cup {NoTask}) \ {NoTask}
      BY <2>4, RunningOf
    <3>2. Running = ({worker[v].task : v \in Threads \ {w}} \cup {x}) \ {NoTask}
      BY DEF Running, x
    <3>3. x # NoTask
      BY <2>2, PoolAssumption
    <3>4. x \notin {worker[v].task : v \in Threads \ {w}}
      BY <1>a, <3>3 DEF DistinctTasks, x
    <3> QED
      BY <3>1, <3>2, <3>4
  <2>6. x \in Running
    BY <2>2, PoolAssumption DEF Running, x
  <2>7. Become(refused, cancelled, ended \cup {x}, Running \ {x}, TasksIn(task_queue), caller.task)
    BY <2>1, <2>5 DEF Become
  <2>8. Moves(x)
    BY <2>1, <2>6, <2>7 DEF Moves
  <2>9. DistinctTasks'
    BY <1>a, <2>4 DEF DistinctTasks
  <2>10. OnceIn(task_queue)'
    BY <1>a, <2>1
  <2> QED
    BY <2>2, <2>8, <2>9, <2>10 DEF FateStep
<1> QED
  BY <1>4, <1>5, <1>6, <1>7 DEF WorkerStep

\* The steps of the thread in shutdown.
LEMMA StopperFate ==
  ASSUME TypeInv, FateInv, Shutdown \/ StopperStep
  PROVE  FateStep /\ OnceIn(task_queue)'
<1>a. /\ task_queue \in Seq(Items) /\ OnceIn(task_queue)
      /\ shutdown_flag <=> stopper.at # "idle"
  BY DEF TypeInv, TypeOK, FateInv
<1>1. CASE Shutdown
  <2>1. /\ shutdown_flag' = TRUE /\ stopper.at = "idle"
        /\ UNCHANGED <<task_queue, worker, fates>> /\ caller' = caller
    BY <1>1 DEF Shutdown
  <2>2. Running' = Running
    BY <2>1 DEF Running
  <2>3. Stays
    BY <2>1, <2>2 DEF Stays, Become, fates
  <2>4. ~shutdown_flag /\ shutdown_flag' /\ OnceIn(task_queue)'
    BY <1>a, <2>1
  <2> QED
    BY <2>3, <2>4 DEF FateStep
<1>2. CASE CancelPending
  <2> DEFINE x == Head(task_queue)
  <2>1. /\ UNCHANGED <<shutdown_flag, worker, ended, refused>> /\ caller' = caller
        /\ shutdown_flag
    BY <1>a, <1>2 DEF CancelPending
  <2>2. Running' = Running
    BY <2>1 DEF Running
  <2>3. CASE UNCHANGED <<task_queue, cancelled>>
    <3>1. Stays /\ OnceIn(task_queue)'
      BY <1>a, <2>1, <2>2, <2>3 DEF Stays, Become
    <3> QED
      BY <2>1, <3>1 DEF FateStep
  <2>4. CASE /\ task_queue # <<>> /\ task_queue' = Tail(task_queue)
             /\ cancelled' = cancelled \cup ({x} \ {NoTask})
    <3>1. /\ OnceIn(task_queue)' /\ TasksIn(task_queue)' = TasksIn(task_queue) \ {x}
          /\ x # NoTask => x \in TasksIn(task_queue)
      BY <1>a, <2>4, TailTasks
    <3>2. x \in Items
      BY <2>4, HeadInQueue
    <3> HIDE DEF x
    <3>3. CASE x = NoTask
      <4>1. TasksIn(task_queue)' = TasksIn(task_queue)
        BY <3>1, <3>3 DEF TasksIn
      <4>2. Stays
        BY <2>1, <2>2, <2>4, <3>3, <4>1 DEF Stays, Become
      <4> QED
        BY <2>1, <3>1, <4>2 DEF FateStep
    <3>4. CASE x # NoTask
      <4>1. x \in Tasks /\ cancelled' = cancelled \cup {x}
        BY <2>4, <3>2, <3>4 DEF Items
      <4>2. Become(refused, cancelled \cup {x}, ended, Running, TasksIn(task_queue) \ {x},
                   caller.task)
        BY <2>1, <2>2, <3>1, <4>1 DEF Become
      <4>3. Moves(x)
        BY <2>1, <3>1, <3>4, <4>2 DEF Moves
      <4> QED
        BY <3>1, <4>1, <4>3 DEF FateStep
    <3> QED
      BY <3>3, <3>4
  <2> QED
    BY <1>2, <2>3, <2>4 DEF CancelPending
<1>3. CASE SignalStart \/ Signal
  <2>1. UNCHANGED <<shutdown_flag, worker, fates>> /\ caller' = caller
    BY <1>3 DEF SignalStart, Signal
  <2>2. task_queue' = task_queue \/ task_queue' = Append(task_queue, NoTask)
    BY <1>3 DEF SignalStart, Signal
  <2>3. NoTask \in Items /\ NoTask \notin TasksIn(task_queue)
    BY DEF Items, TasksIn
  <2>4. TasksIn(task_queue)' = TasksIn(task_queue) /\ OnceIn(task_queue)'
    <3>1. CASE task_queue' = task_queue
      BY <1>a, <3>1
    <3>2. CASE task_queue' = Append(task_queue, NoTask)
      <4>1. /\ OnceIn(task_queue)'
            /\ TasksIn(task_queue)' = TasksIn(task_queue) \cup ({NoTask} \ {NoTask})
        BY <1>a, <2>3, <3>2, AppendTasks
      <4> QED
        BY <4>1
    <3> QED
      BY <2>2, <3>1, <3>2
  <2>5. Running' = Running
    BY <2>1 DEF Running
  <2>6. Stays
    BY <2>1, <2>4, <2>5 DEF Stays, Become, fates
  <2>7. UNCHANGED shutdown_flag
    BY <2>1
  <2> QED
    BY <2>4, <2>6, <2>7 DEF FateStep
<1> QED
  BY <1>1, <1>2, <1>3 DEF StopperStep

LEMMA FateKept == TypeInv /\ FateInv /\ [Next]_vars => FateInv'
<1> SUFFICES ASSUME TypeInv, FateInv, [Next]_vars PROVE FateInv'
  OBVIOUS
<1>a. /\ DistinctTasks /\ worker \in [Threads -> WorkerThread]
      /\ shutdown_flag <=> stopper.at # "idle"
  BY DEF FateInv, TypeInv, TypeOK, DistinctTasks
<1>1. ASSUME FateStep, OnceIn(task_queue)', DistinctTasks', (shutdown_flag <=> stopper.at # "idle")'
      PROVE  FateInv'
  BY <1>1, ApartKept DEF FateInv, DistinctTasks
<1>2. CASE CallerStep \/ \E t \in Tasks : Submit(t)
  <2>1. UNCHANGED <<shutdown_flag, stopper>>
    BY <1>2 DEF CallerStep, Submit, Put, Adjust, Grow, Launch, Add, pool
  <2>2. \A w \in Threads : worker'[w].task = worker[w].task
    <3>1. CASE UNCHANGED worker
      BY <3>1
    <3>2. CASE Free # {} /\ worker' = [worker EXCEPT ![One(Free)] = New(caller.core)]
      <4>1. One(Free) \in Free
        BY <3>2, OneIsMember
      <4>2. One(Free) \in Threads /\ worker[One(Free)].task = NoTask
        BY <4>1, NewThreads DEF Free
      <4>3. New(caller.core).task = NoTask
        BY DEF New
      <4> QED
        BY <1>a, <3>2, <4>2, <4>3
    <3> QED
      BY <1>2, <3>1, <3>2 DEF CallerStep, Submit, Put, Adjust, Grow, Launch, Add
  <2>3. DistinctTasks'
    BY <1>a, <2>2 DEF DistinctTasks
  <2> QED
    BY <1>1, <1>2, <1>a, <2>1, <2>3, CallerFate
<1>3. ASSUME NEW w \in Threads, WorkerStep(w) PROVE FateInv'
  <2>1. UNCHANGED <<shutdown_flag, stopper>>
    BY <1>3 DEF WorkerStep, Begin, ThreadStarted, Loop, Get, Timeout, Finish, Leave,
                ThreadExiting, Exit, Relaunch, Readd, OnlyWorker, pool
  <2> QED
    BY <1>1, <1>3, <1>a, <2>1, WorkerFate
<1>4. CASE Shutdown \/ StopperStep
  <2>1. UNCHANGED worker
    BY <1>4 DEF Shutdown, StopperStep, CancelPending, SignalStart, Signal
  <2>2. shutdown_flag' /\ stopper'.at # "idle"
    <3>1. stopper \in Stop
      BY DEF TypeInv, TypeOK
    <3>2. CASE Shutdown
      BY <3>1, <3>2 DEF Shutdown, Stop
    <3>3. CASE CancelPending
      BY <1>a, <3>1, <3>3 DEF CancelPending, Stop
    <3>4. ASSUME NEW n, Signals(n) PROVE stopper'.at # "idle"
      BY <3>4 DEF Signals
    <3>5. CASE SignalStart \/ Signal
      BY <1>a, <3>4, <3>5 DEF SignalStart, Signal
    <3> QED
      BY <1>4, <3>2, <3>3, <3>5 DEF StopperStep
  <2>3. DistinctTasks'
    BY <1>a, <2>1 DEF DistinctTasks
  <2> QED
    BY <1>1, <1>4, <2>2, <2>3, StopperFate
<1>5. CASE UNCHANGED vars
  BY <1>5 DEF FateInv, Running, TasksIn, OnceIn, Apart, vars, pool, fates
<1> QED
  BY <1>2, <1>3, <1>4, <1>5 DEF Next

-----------------------------------------------------------------------------
(* The pool implements TaskPool *)

StatusesAreFates ==
  \A t \in Tasks : StatusOf(t) = Fate(t, refused, cancelled, ended, Running,
                                      TasksIn(task_queue), caller.task)

LEMMA StatusKnown == TypeInv /\ FateInv => StatusesAreFates
BY StatusIsFate DEF StatusesAreFates

LEMMA StatusNext ==
  ASSUME StatusesAreFates',
         NEW R, NEW C, NEW E, NEW N, NEW Q, NEW c, Become(R, C, E, N, Q, c)
  PROVE  \A t \in Tasks : StatusOf(t)' = Fate(t, R, C, E, N, Q, c)
BY DEF StatusesAreFates, Become

\* A task whose status changes while that of the others does not, moves in TaskPool.
LEMMA MoveOfStatus ==
  ASSUME NEW t \in Tasks, NEW from, NEW to, UNCHANGED shutdown_flag,
         StatusOf(t) = from, StatusOf(t)' = to,
         \A x \in Tasks : x # t => StatusOf(x)' = StatusOf(x)
  PROVE  TP!Move(t, from, to)
<1> DEFINE status == [x \in Tasks |-> StatusOf(x)]
<1> HIDE DEF StatusOf
<1>1. status' = [x \in Tasks |-> StatusOf(x)']
  OBVIOUS
<1>2. status' = [status EXCEPT ![t] = to]
  BY <1>1
<1>3. status[t] = from
  OBVIOUS
<1> QED
  BY <1>2, <1>3 DEF TP!Move

LEMMA MoveStep ==
  ASSUME TypeInv, FateInv, StatusesAreFates, StatusesAreFates', NEW t \in Tasks, Moves(t)
  PROVE  TP!Step(t)
<1> DEFINE R == refused
           C == cancelled
           E == ended
           N == Running
           Q == TasksIn(task_queue)
           c == caller.task
           Unknown == t \notin R /\ t \notin C /\ t \notin E /\ t \notin N /\ t \notin Q
<1>1. /\ Apart(R, C, E, N, Q, c) /\ NoTask \notin Tasks
      /\ \A x \in Tasks : StatusOf(x) = Fate(x, R, C, E, N, Q, c)
      /\ UNCHANGED shutdown_flag
  BY PoolAssumption DEF FateInv, StatusesAreFates, Moves
<1>2. ASSUME NEW R1, NEW C1, NEW E1, NEW N1, NEW Q1, NEW c1, Become(R1, C1, E1, N1, Q1, c1),
             NEW from, NEW to,
             Fate(t, R, C, E, N, Q, c) = from, Fate(t, R1, C1, E1, N1, Q1, c1) = to,
             \A x \in Tasks : x # t =>
                Fate(x, R1, C1, E1, N1, Q1, c1) = Fate(x, R, C, E, N, Q, c)
      PROVE  TP!Move(t, from, to)
  <2>1. \A x \in Tasks : StatusOf(x)' = Fate(x, R1, C1, E1, N1, Q1, c1)
    BY <1>2, StatusNext
  <2>2. StatusOf(t) = from /\ StatusOf(t)' = to
    BY <1>1, <1>2, <2>1
  <2>3. \A x \in Tasks : x # t => StatusOf(x)' = StatusOf(x)
    BY <1>1, <1>2, <2>1
  <2> QED
    BY <1>1, <2>2, <2>3, MoveOfStatus
<1>3. CASE ~shutdown_flag /\ c = NoTask /\ Unknown /\ Become(R, C, E, N, Q, t)
  <2>1. /\ Fate(t, R, C, E, N, Q, c) = "new" /\ Fate(t, R, C, E, N, Q, t) = "submitted"
        /\ \A x \in Tasks : x # t => Fate(x, R, C, E, N, Q, t) = Fate(x, R, C, E, N, Q, c)
    BY <1>1, <1>3 DEF Fate
  <2>2. TP!Move(t, "new", "submitted")
    BY <1>2, <1>3, <2>1
  <2> QED
    BY <1>3, <2>2 DEF TP!Step, TP!Call
<1>4. CASE shutdown_flag /\ c = NoTask /\ Unknown /\ Become(R \cup {t}, C, E, N, Q, c)
  <2>1. /\ Fate(t, R, C, E, N, Q, c) = "new" /\ Fate(t, R \cup {t}, C, E, N, Q, c) = "refused"
        /\ \A x \in Tasks : x # t =>
             Fate(x, R \cup {t}, C, E, N, Q, c) = Fate(x, R, C, E, N, Q, c)
    BY <1>1, <1>4 DEF Fate
  <2>2. TP!Move(t, "new", "refused")
    BY <1>2, <1>4, <2>1
  <2> QED
    BY <1>4, <2>2 DEF TP!Step, TP!Refuse
<1>5. CASE c = t /\ Become(R, C, E, N, Q \cup {t}, NoTask)
  <2>1. Unknown
    BY <1>1, <1>5 DEF Apart
  <2>2. /\ Fate(t, R, C, E, N, Q, c) = "submitted"
        /\ Fate(t, R, C, E, N, Q \cup {t}, NoTask) = "pending"
        /\ \A x \in Tasks : x # t =>
             Fate(x, R, C, E, N, Q \cup {t}, NoTask) = Fate(x, R, C, E, N, Q, c)
    BY <1>1, <1>5, <2>1 DEF Fate
  <2>3. TP!Move(t, "submitted", "pending")
    BY <1>2, <1>5, <2>2
  <2> QED
    BY <2>3 DEF TP!Step, TP!Accept
<1>6. CASE t \in Q /\ Become(R, C, E, N \cup {t}, Q \ {t}, c)
  <2>1. t \notin R /\ t \notin C /\ t \notin E /\ t \notin N /\ t # c
    BY <1>1, <1>6 DEF Apart
  <2>2. /\ Fate(t, R, C, E, N, Q, c) = "pending"
        /\ Fate(t, R, C, E, N \cup {t}, Q \ {t}, c) = "running"
        /\ \A x \in Tasks : x # t =>
             Fate(x, R, C, E, N \cup {t}, Q \ {t}, c) = Fate(x, R, C, E, N, Q, c)
    BY <1>6, <2>1 DEF Fate
  <2>3. TP!Move(t, "pending", "running")
    BY <1>2, <1>6, <2>2
  <2> QED
    BY <2>3 DEF TP!Step, TP!Start
<1>7. CASE t \in N /\ Become(R, C, E \cup {t}, N \ {t}, Q, c)
  <2>1. t \notin R /\ t \notin C /\ t \notin E /\ t \notin Q /\ t # c
    BY <1>1, <1>7 DEF Apart
  <2>2. /\ Fate(t, R, C, E, N, Q, c) = "running"
        /\ Fate(t, R, C, E \cup {t}, N \ {t}, Q, c) = "ended"
        /\ \A x \in Tasks : x # t =>
             Fate(x, R, C, E \cup {t}, N \ {t}, Q, c) = Fate(x, R, C, E, N, Q, c)
    BY <1>7, <2>1 DEF Fate
  <2>3. TP!Move(t, "running", "ended")
    BY <1>2, <1>7, <2>2
  <2> QED
    BY <2>3 DEF TP!Step, TP!End
<1>8. CASE shutdown_flag /\ t \in Q /\ Become(R, C \cup {t}, E, N, Q \ {t}, c)
  <2>1. t \notin R /\ t \notin C /\ t \notin E /\ t \notin N /\ t # c
    BY <1>1, <1>8 DEF Apart
  <2>2. /\ Fate(t, R, C, E, N, Q, c) = "pending"
        /\ Fate(t, R, C \cup {t}, E, N, Q \ {t}, c) = "cancelled"
        /\ \A x \in Tasks : x # t =>
             Fate(x, R, C \cup {t}, E, N, Q \ {t}, c) = Fate(x, R, C, E, N, Q, c)
    BY <1>8, <2>1 DEF Fate
  <2>3. TP!Move(t, "pending", "cancelled")
    BY <1>2, <1>8, <2>2
  <2> QED
    BY <1>8, <2>3 DEF TP!Step, TP!Cancel
<1> QED
  BY <1>3, <1>4, <1>5, <1>6, <1>7, <1>8 DEF Moves

\* Where no task moves, every status stays.
LEMMA StayStep ==
  ASSUME StatusesAreFates, StatusesAreFates', Stays
  PROVE  [t \in Tasks |-> StatusOf(t)]' = [t \in Tasks |-> StatusOf(t)]
<1>1. \A t \in Tasks : StatusOf(t)' = StatusOf(t)
  BY StatusNext DEF StatusesAreFates, Stays
<1> QED
  BY <1>1

LEMMA StepImplements ==
  TypeInv /\ FateInv /\ StatusesAreFates /\ StatusesAreFates' /\ [Next]_vars
  => [TP!Next]_<<[t \in Tasks |-> StatusOf(t)], shutdown_flag>>
<1> SUFFICES ASSUME TypeInv, FateInv, StatusesAreFates, StatusesAreFates', [Next]_vars
             PROVE  [TP!Next]_<<[t \in Tasks |-> StatusOf(t)], shutdown_flag>>
  OBVIOUS
<1>1. FateStep
  <2>1. CASE Next
    BY <2>1, CallerFate, WorkerFate, StopperFate DEF Next
  <2>2. CASE UNCHANGED vars
    <3>1. Stays
      BY <2>2 DEF Stays, Become, Running, TasksIn, vars, pool, fates
    <3>2. UNCHANGED shutdown_flag
      BY <2>2 DEF vars, pool
    <3> QED
      BY <3>1, <3>2 DEF FateStep
  <2> QED
    BY <2>1, <2>2
<1>2. CASE Stays /\ UNCHANGED shutdown_flag
  BY <1>2, StayStep
<1>3. CASE Stays /\ ~shutdown_flag /\ shutdown_flag'
  <2>1. shutdown_flag' = TRUE
    BY <1>3
  <2>2. TP!Close
    BY <1>3, StayStep DEF TP!Close
  <2> QED
    BY <2>2 DEF TP!Next
<1>4. ASSUME NEW t \in Tasks, Moves(t) PROVE TP!Next
  BY <1>4, MoveStep DEF TP!Next
<1> QED
  BY <1>1, <1>2, <1>3, <1>4 DEF FateStep

LEMMA InitImplements == Init => TP!Init
<1> SUFFICES ASSUME Init PROVE TP!Init
  OBVIOUS
<1>1. StatusesAreFates /\ FateInv
  BY InitTyped, InitFate, StatusKnown
<1>2. /\ refused = {} /\ cancelled = {} /\ ended = {} /\ caller.task = NoTask /\ ~shutdown_flag
      /\ TasksIn(task_queue) = {} /\ Running = {}
  BY NewThreads DEF Init, TasksIn, Running
<1>3. \A t \in Tasks : StatusOf(t) = "new"
  BY <1>1, <1>2, PoolAssumption DEF StatusesAreFates, Fate
<1>4. shutdown_flag = FALSE
  BY DEF Init
<1> QED
  BY <1>3, <1>4 DEF TP!Init

\* The pool keeps the promise of TaskPool, for any tasks, threads and sizes: a
\* task goes from submit through the queue to one worker, or to
\* _cancel_pending_tasks, and is run at most once (submit, WorkerThread.run and
\* shutdown of threadpool.py).
THEOREM RunsOnce == Spec => RunsEachTaskOnce
<1>1. Init => TypeInv /\ FateInv /\ TP!Init
  BY InitTyped, InitFate, InitImplements
<1>2. TypeInv /\ FateInv /\ [Next]_vars => FateInv'
  BY FateKept
<1>3. TypeInv /\ FateInv => StatusesAreFates
  BY StatusKnown
<1>4. TypeInv /\ FateInv /\ StatusesAreFates /\ StatusesAreFates' /\ [Next]_vars
      => [TP!Next]_<<[t \in Tasks |-> StatusOf(t)], shutdown_flag>>
  BY StepImplements
<1> QED
  BY <1>1, <1>2, <1>3, <1>4, TypeInvIsInvariant, PTL DEF Spec, RunsEachTaskOnce, TP!Spec
-----------------------------------------------------------------------------
(* The count and the core of threads *)

\* The threads that take tasks, will do so, or are about to start a successor.
Coming == {w \in Threads : worker[w].at \in {"new", "enter", "loop", "get", "run", "leave",
                                             "exiting", "relaunch"}}

\* The launches the constructor has still to do.
Pending == IF caller.built THEN 0
           ELSE IF caller.at = "adjust" THEN CoreThreads
           ELSE IF caller.at = "launch" THEN caller.n
           ELSE IF caller.at = "add" THEN caller.n - 1
           ELSE 0

Enough == refusals = 0 /\ RoomForCore => Cardinality(Coming) + Pending >= CoreThreads

\* Until the shutdown: one thread at a time starts a successor, under the lock and out of
\* the set; the constructor starts with no threads; and the core is there or on its way.
CoreInv == ~shutdown_flag =>
  /\ stopper.at = "idle"
  /\ \A w \in Threads : worker[w].at \in {"relaunch", "readd"} => lock = w /\ w \notin worker_threads
  /\ ~caller.built => caller.at \in {"adjust", "grow", "launch", "add"}
  /\ ~caller.built /\ caller.at = "adjust" =>
       worker_threads = {} /\ \A w \in Threads : worker[w].at = "dead"
  /\ active_threads = Cardinality(Started)
  /\ Enough

LEMMA Counted ==
  ASSUME NEW S \in SUBSET Threads
  PROVE  /\ IsFiniteSet(S) /\ Cardinality(S) \in Nat
         /\ \A T \in SUBSET S : Cardinality(T) <= Cardinality(S)
         /\ \A w \in S : Cardinality(S \ {w}) = Cardinality(S) - 1
         /\ \A w \in Threads \ S : Cardinality(S \cup {w}) = Cardinality(S) + 1
<1>1. IsFiniteSet(S)
  BY PoolAssumption, FS_Subset
<1>2. Cardinality(S) \in Nat
  BY <1>1, FS_CardinalityType
<1>3. \A T \in SUBSET S : Cardinality(T) <= Cardinality(S)
  BY <1>1, FS_Subset
<1>4. \A w \in S : Cardinality(S \ {w}) = Cardinality(S) - 1
  BY <1>1, FS_RemoveElement
<1>5. \A w \in Threads \ S : Cardinality(S \cup {w}) = Cardinality(S) + 1
  BY <1>1, FS_AddElement
<1> QED
  BY <1>1, <1>2, <1>3, <1>4, <1>5

LEMMA PoolSets ==
  ASSUME TypeInv
  PROVE  /\ Coming \in SUBSET Threads /\ Started \in SUBSET Threads
         /\ worker_threads \in SUBSET Threads /\ Stale \in SUBSET Threads
         /\ Started \subseteq Coming /\ Pending \in Nat
<1>1. caller.n \in Nat /\ (caller.at = "add" => caller.n # 0)
  BY DEF TypeInv, TypeOK, HandInv, Caller
<1>2. Pending \in Nat
  BY <1>1, PoolAssumption DEF Pending
<1> QED
  BY <1>2 DEF TypeInv, TypeOK, Coming, Started, Stale

\* A set that is full has room for the core beside its stale threads.
LEMMA FullIsEnough ==
  ASSUME TypeInv, RoomForCore, Cardinality(worker_threads) >= MaxThreads,
         NEW S \in SUBSET Threads, worker_threads \ Stale \subseteq S
  PROVE  Cardinality(S) >= CoreThreads
<1>1. IsFiniteSet(worker_threads) /\ worker_threads \cap Stale = Stale
  BY PoolSets, Counted DEF Stale
<1>2. Cardinality(worker_threads \ Stale) = Cardinality(worker_threads) - Cardinality(Stale)
  BY <1>1, FS_Difference
<1>3. Cardinality(worker_threads \ Stale) <= Cardinality(S)
  BY Counted
<1>4. /\ Cardinality(worker_threads) \in Nat /\ Cardinality(Stale) \in Nat
      /\ Cardinality(S) \in Nat
  BY PoolSets, Counted
<1> QED
  BY <1>2, <1>3, <1>4, PoolAssumption DEF RoomForCore

LEMMA EnoughKept ==
  ASSUME TypeInv, TypeInv', Enough, Stale \subseteq Stale', refusals' = 0 => refusals = 0,
         Cardinality(Coming') + Pending' >= Cardinality(Coming) + Pending
  PROVE  Enough'
<1>1. Cardinality(Stale) <= Cardinality(Stale')
  <2>1. Stale' \in SUBSET Threads
    BY DEF TypeInv, TypeOK, Stale
  <2> QED
    BY <2>1, Counted
<1>2. /\ Cardinality(Stale) \in Nat
      /\ Cardinality(Coming) \in Nat /\ Pending \in Nat
  BY PoolSets, Counted
<1>3. /\ Cardinality(Stale') \in Nat /\ Cardinality(Coming') \in Nat /\ Pending' \in Nat
  <2>1. Stale' \in SUBSET Threads /\ Coming' \in SUBSET Threads
    BY DEF TypeInv, TypeOK, Stale, Coming
  <2>2. Pending' \in Nat
    <3>1. caller'.n \in Nat /\ (caller'.at = "add" => caller'.n # 0)
      BY DEF TypeInv, TypeOK, HandInv, Caller
    <3> QED
      BY <3>1, PoolAssumption DEF Pending
  <2> QED
    BY <2>1, <2>2, Counted
<1>4. RoomForCore' => RoomForCore
  BY <1>1, <1>2, <1>3, PoolAssumption DEF RoomForCore
<1> QED
  BY <1>2, <1>3, <1>4, PoolAssumption DEF Enough

LEMMA CoreInit == Init => CoreInv
<1> SUFFICES ASSUME Init PROVE CoreInv
  OBVIOUS
<1>1. \A w \in Threads : worker[w].at = "dead"
  BY NewThreads DEF Init
<1>2. Started = {} /\ Coming = {} /\ worker_threads = {} /\ active_threads = 0
  BY <1>1 DEF Init, Started, Coming
<1>3. Cardinality(Started) = 0 /\ Cardinality(Coming) = 0
  BY <1>2, FS_EmptySet
<1>4. ~caller.built /\ caller.at = "adjust" /\ stopper.at = "idle"
  BY DEF Init
<1>5. Enough
  BY <1>3, <1>4, PoolAssumption DEF Enough, Pending
<1> QED
  BY <1>1, <1>2, <1>3, <1>4, <1>5 DEF CoreInv

\* The steps of a worker that leave the set alone and the core as it is.
LEMMA PlainCore ==
  ASSUME TypeInv, TypeInv', CoreInv, ~shutdown_flag, NEW w \in Threads,
         Begin(w) \/ ThreadStarted(w) \/ Loop(w) \/ Get(w) \/ Timeout(w) \/ Finish(w) \/ Leave(w)
  PROVE  CoreInv'
<1>a. worker \in [Threads -> WorkerThread] /\ worker[w] \in WorkerThread
  BY DEF TypeInv, TypeOK
<1>1. /\ UNCHANGED <<worker_threads, shutdown_flag, lock, caller, stopper, refusals>>
      /\ ThreadStarted(w) \/ active_threads' = active_threads
  BY DEF Begin, ThreadStarted, Loop, Get, Timeout, Finish, Leave, OnlyWorker, pool, fates
<1>2. /\ \A v \in Threads : v # w => worker'[v] = worker[v]
      /\ worker[w].at \in {"new", "enter", "loop", "get", "run", "leave"}
      /\ worker'[w].at \in {"new", "enter", "loop", "get", "run", "leave", "exiting"}
      /\ \/ ThreadStarted(w) /\ worker[w].at = "enter" /\ worker'[w].at = "loop"
         \/ worker[w].at = "new" /\ worker'[w].at = "enter"
         \/ /\ worker[w].at \in {"loop", "get", "run", "leave"}
            /\ worker'[w].at \in {"loop", "get", "run", "leave", "exiting"}
  <2>1. CASE Begin(w)
    BY <1>a, <2>1, ToTyped DEF Begin
  <2>2. CASE ThreadStarted(w)
    BY <1>a, <2>2, ToTyped DEF ThreadStarted
  <2>3. CASE Loop(w)
    BY <1>a, <2>3, ToTyped DEF Loop
  <2>4. CASE Get(w)
    <3>1. Head(task_queue) \in Items
      BY <2>4 DEF Get, TypeInv, TypeOK
    <3> QED
      BY <1>a, <2>4, <3>1, ToTyped, HeldTyped DEF Get
  <2>5. CASE Timeout(w)
    BY <1>a, <2>5, ToTyped DEF Timeout
  <2>6. CASE Finish(w)
    BY <1>a, <2>6, HeldTyped DEF Finish, Held, Items
  <2>7. CASE Leave(w)
    BY <1>a, <2>7, ToTyped DEF Leave
  <2> QED
    BY <2>1, <2>2, <2>3, <2>4, <2>5, <2>6, <2>7
<1>3. Coming' = Coming /\ Pending' = Pending /\ Stale' = Stale
  <2>1. w \in Coming /\ w \in Coming'
    BY <1>2 DEF Coming
  <2>2. \A v \in Threads : v # w => (v \in Coming' <=> v \in Coming)
    BY <1>2 DEF Coming
  <2>3. Coming' = Coming
    <3>1. Coming' \subseteq Threads /\ Coming \subseteq Threads
      BY DEF Coming
    <3> QED
      BY <2>1, <2>2, <3>1
  <2>4. Stale' = Stale
    BY <1>1, <1>2 DEF Stale, TypeInv, TypeOK
  <2> QED
    BY <1>1, <2>3, <2>4 DEF Pending
<1>4. active_threads' = Cardinality(Started')
  <2>0. active_threads = Cardinality(Started) /\ Cardinality(Started) \in Nat
    BY PoolSets, Counted DEF CoreInv
  <2>1. CASE ThreadStarted(w)
    <3>1. worker[w].at = "enter" /\ worker'[w].at = "loop" /\ active_threads' = active_threads + 1
      BY <1>a, <2>1, ToTyped DEF ThreadStarted
    <3>2. w \notin Started /\ Started' = Started \cup {w}
      BY <1>2, <3>1 DEF Started
    <3> QED
      BY <2>0, <3>1, <3>2, PoolSets, Counted
  <2>2. CASE ~ThreadStarted(w)
    <3>1. Started' = Started
      BY <1>2, <2>2 DEF Started
    <3> QED
      BY <1>1, <2>0, <2>2, <3>1
  <2> QED
    BY <2>1, <2>2
<1>5. Enough'
  <2>1. Cardinality(Coming) \in Nat /\ Pending \in Nat /\ Enough
    BY PoolSets, Counted DEF CoreInv
  <2> QED
    BY <1>1, <1>3, <2>1, EnoughKept
<1> QED
  BY <1>1, <1>2, <1>4, <1>5 DEF CoreInv

\* A thread that exits is counted out, and starts a successor if the count is too small.
LEMMA ExitCore ==
  ASSUME TypeInv, TypeInv', CoreInv, ~shutdown_flag, NEW w \in Threads, ThreadExiting(w)
  PROVE  CoreInv'
<1> DEFINE few == active_threads - 1 < CoreThreads
<1>a. worker \in [Threads -> WorkerThread] /\ active_threads \in Int
  BY DEF TypeInv, TypeOK
<1>1. /\ worker[w].at = "exiting" /\ lock = NoThread /\ active_threads' = active_threads - 1
      /\ worker_threads' = worker_threads \ {w}
      /\ UNCHANGED <<shutdown_flag, caller, stopper, refusals>>
      /\ IF few THEN lock' = w /\ To(w, "relaunch") ELSE Die(w) /\ UNCHANGED lock
  BY DEF ThreadExiting, Exit, Unlocked
<1>2. /\ \A v \in Threads : v # w => worker'[v] = worker[v]
      /\ few => worker'[w].at = "relaunch"
      /\ ~few => worker'[w].at = "dead"
  BY <1>a, <1>1, ToTyped, DieTyped
<1> HIDE DEF few
<1>3. /\ Started' = Started \ {w} /\ w \in Started
      /\ Cardinality(Started) \in Nat /\ active_threads = Cardinality(Started)
      /\ Cardinality(Started') = Cardinality(Started) - 1
  <2>1. Started' = Started \ {w} /\ w \in Started
    BY <1>1, <1>2 DEF Started
  <2> QED
    BY <2>1, PoolSets, Counted DEF CoreInv
<1>4. Pending' = Pending
  BY <1>1 DEF Pending
<1>5. Stale \subseteq Stale'
  BY <1>1, <1>2 DEF Stale, TypeInv, TypeOK
<1>6. Enough'
  <2>0. /\ Cardinality(Coming) \in Nat /\ Pending \in Nat /\ Enough
        /\ Cardinality(Coming') \in Nat
    <3>1. Coming' \in SUBSET Threads
      BY DEF Coming
    <3> QED
      BY <3>1, PoolSets, Counted DEF CoreInv
  <2>1. CASE few
    <3>1. Coming' = Coming
      BY <1>1, <1>2, <2>1 DEF Coming
    <3> QED
      BY <1>1, <1>4, <1>5, <2>0, <3>1, EnoughKept
  <2>2. CASE ~few
    <3>1. Started' \subseteq Coming' /\ Coming' \in SUBSET Threads
      BY DEF Started, Coming
    <3>2. Cardinality(Started') <= Cardinality(Coming')
      BY <3>1, Counted
    <3>3. Cardinality(Started') >= CoreThreads
      BY <1>3, <2>2, PoolAssumption DEF few
    <3> QED
      BY <1>3, <1>4, <2>0, <3>2, <3>3, PoolAssumption DEF Enough
  <2> QED
    BY <2>1, <2>2
<1>7. \A v \in Threads : worker'[v].at \in {"relaunch", "readd"}
                           => lock' = v /\ v \notin worker_threads'
  <2>1. \A v \in Threads : worker[v].at \notin {"relaunch", "readd"}
    BY <1>1, PoolAssumption DEF CoreInv
  <2> QED
    BY <1>1, <1>2, <2>1
<1>8. active_threads' = Cardinality(Started')
  BY <1>1, <1>3
<1> QED
  BY <1>1, <1>6, <1>7, <1>8 DEF CoreInv

\* The successor is started while the lock is held, unless the set is full.
LEMMA RelaunchCore ==
  ASSUME TypeInv, TypeInv', CoreInv, ~shutdown_flag, NEW w \in Threads, Relaunch(w) \/ Readd(w)
  PROVE  CoreInv'
<1>a. worker \in [Threads -> WorkerThread] /\ worker_threads \subseteq Threads
  BY DEF TypeInv, TypeOK
<1>1. /\ UNCHANGED <<active_threads, shutdown_flag, caller, stopper>>
      /\ worker[w].at \in {"relaunch", "readd"} /\ lock = w /\ w \notin worker_threads
      /\ \A v \in Threads : v # w => worker[v].at \notin {"relaunch", "readd"}
  <2>1. worker[w].at \in {"relaunch", "readd"} /\ UNCHANGED <<active_threads, shutdown_flag, caller, stopper>>
    BY DEF Relaunch, Readd
  <2> QED
    BY <2>1 DEF CoreInv
<1>2. Pending' = Pending
  BY <1>1 DEF Pending
<1>3. /\ Cardinality(Coming) \in Nat /\ Pending \in Nat /\ Enough
      /\ active_threads = Cardinality(Started)
  BY PoolSets, Counted DEF CoreInv
<1>4. ASSUME Die(w), UNCHANGED <<worker_threads, refusals>>,
             Cardinality(worker_threads) >= MaxThreads
      PROVE  CoreInv'
  <2>1. worker'[w].at = "dead" /\ \A v \in Threads : v # w => worker'[v] = worker[v]
    BY <1>a, <1>4, DieTyped
  <2>2. worker_threads \ Stale \subseteq Coming' /\ Coming' \in SUBSET Threads
    BY <1>a, <1>1, <2>1 DEF Stale, Coming, WorkerThread
  <2>3. Started' = Started
    BY <1>1, <2>1 DEF Started
  <2>4. Stale' = Stale
    BY <1>1, <1>4, <1>a, <2>1 DEF Stale
  <2>5. RoomForCore' => Cardinality(Coming') >= CoreThreads
    BY <1>4, <2>2, <2>4, FullIsEnough DEF RoomForCore
  <2>6. Cardinality(Coming') \in Nat
    BY <2>2, Counted
  <2>7. Enough'
    BY <1>2, <1>3, <2>5, <2>6, PoolAssumption DEF Enough
  <2> QED
    BY <1>1, <1>3, <1>4, <2>1, <2>3, <2>7 DEF CoreInv
<1>5. ASSUME Die(w), UNCHANGED worker_threads, refusals' = refusals + 1
      PROVE  CoreInv'
  <2>1. worker'[w].at = "dead" /\ \A v \in Threads : v # w => worker'[v] = worker[v]
    BY <1>a, <1>5, DieTyped
  <2>2. Started' = Started
    BY <1>1, <2>1 DEF Started
  <2>3. refusals' # 0
    BY <1>5 DEF TypeInv, TypeOK
  <2>4. Enough'
    BY <2>3 DEF Enough
  <2> QED
    BY <1>1, <1>3, <1>5, <2>1, <2>2, <2>4 DEF CoreInv
<1>6. ASSUME NEW u \in Free, worker[w].at = "relaunch",
             worker' = [worker EXCEPT ![u] = New(TRUE),
                                      ![w] = [worker[w] EXCEPT !.at = "readd", !.child = u]],
             UNCHANGED <<worker_threads, lock, refusals>>
      PROVE  CoreInv'
  <2> DEFINE mine == [worker[w] EXCEPT !.at = "readd", !.child = u]
  <2>0. mine.at = "readd"
    BY <1>a DEF WorkerThread
  <2>1. u \in Threads /\ worker[u].at = "dead" /\ u \notin worker_threads
    BY NewThreads DEF Free
  <2>2. u # w
    BY <1>6, <2>1
  <2>3. worker' = [worker EXCEPT ![u] = New(TRUE), ![w] = mine]
    BY <1>6
  <2> HIDE DEF mine
  <2>4. /\ worker'[w].at = "readd" /\ worker'[u].at = "new"
        /\ \A v \in Threads \ {u, w} : worker'[v] = worker[v]
    BY <1>a, <2>0, <2>1, <2>2, <2>3, NewThreads
  <2>5. Coming' = (Coming \ {w}) \cup {u} /\ w \in Coming /\ u \notin Coming
    BY <1>6, <2>1, <2>2, <2>4 DEF Coming
  <2>6. Cardinality(Coming') = Cardinality(Coming)
    <3>1. Coming \ {w} \in SUBSET Threads /\ u \in Threads \ (Coming \ {w})
      BY <2>1, <2>5 DEF Coming
    <3>2. Cardinality(Coming \ {w}) = Cardinality(Coming) - 1
      BY <2>5, PoolSets, Counted
    <3>3. Cardinality(Coming') = Cardinality(Coming \ {w}) + 1
      BY <2>5, <3>1, Counted
    <3> QED
      BY <1>3, <3>2, <3>3
  <2>7. Started' = Started
    BY <1>6, <2>1, <2>4 DEF Started
  <2>8. Stale \subseteq Stale'
    BY <1>1, <1>6, <1>a, <2>1, <2>4 DEF Stale
  <2>9. Enough'
    BY <1>2, <1>3, <1>6, <2>6, <2>8, EnoughKept
  <2>10. \A v \in Threads : worker'[v].at \in {"relaunch", "readd"}
                              => lock' = v /\ v \notin worker_threads'
    BY <1>1, <1>6, <2>4
  <2>11. caller.built \/ caller.at # "adjust"
    BY <1>1 DEF CoreInv
  <2> QED
    BY <1>1, <1>3, <2>7, <2>9, <2>10, <2>11 DEF CoreInv
<1>7. ASSUME Readd(w) PROVE CoreInv'
  <2>0. /\ Die(w) /\ worker[w].at = "readd" /\ UNCHANGED refusals
        /\ worker_threads' = worker_threads \cup {worker[w].child}
    BY <1>7 DEF Readd
  <2>1. worker'[w].at = "dead" /\ \A v \in Threads : v # w => worker'[v] = worker[v]
    BY <1>a, <2>0, DieTyped
  <2>2. Started' = Started /\ Coming' = Coming
    BY <2>0, <2>1 DEF Started, Coming
  <2>3. Stale \subseteq Stale'
    BY <1>1, <1>a, <2>0, <2>1 DEF Stale
  <2>4. Enough'
    BY <1>2, <1>3, <2>0, <2>2, <2>3, EnoughKept
  <2>5. caller.built \/ caller.at # "adjust"
    BY <1>1 DEF CoreInv
  <2> QED
    BY <1>1, <1>3, <2>1, <2>2, <2>4, <2>5 DEF CoreInv
<1>8. CASE Relaunch(w)
  <2>1. Free # {} => One(Free) \in Free
    BY OneIsMember
  <2> QED
    BY <1>4, <1>5, <1>6, <1>8, <2>1 DEF Relaunch
<1> QED
  BY <1>7, <1>8

\* The constructor and submit.
LEMMA CallerCore ==
  ASSUME TypeInv, TypeInv', CoreInv, ~shutdown_flag, CallerStep \/ \E t \in Tasks : Submit(t)
  PROVE  CoreInv'
<1>a. /\ worker \in [Threads -> WorkerThread] /\ worker_threads \subseteq Threads
      /\ caller \in Caller /\ caller.n \in Nat /\ caller.built \in BOOLEAN
      /\ caller.at \in {"launch", "add"} => caller.n - 1 \in Nat
  BY DEF TypeInv, TypeOK, HandInv, Caller
<1>b. /\ Cardinality(Coming) \in Nat /\ Pending \in Nat /\ Enough
      /\ active_threads = Cardinality(Started)
  BY PoolSets, Counted DEF CoreInv
<1>1. UNCHANGED <<active_threads, shutdown_flag, lock, stopper>>
  BY DEF CallerStep, Submit, Put, Adjust, Grow, Launch, Add, pool
<1>2. ASSUME UNCHANGED <<worker, worker_threads, refusals>>, Pending' >= Pending,
             ~caller'.built => caller'.at \in {"grow", "launch", "add"}
      PROVE  CoreInv'
  <2>1. Coming' = Coming /\ Started' = Started /\ Stale' = Stale
    BY <1>2 DEF Coming, Started, Stale
  <2>2. Pending' \in Nat
    <3>1. caller'.n \in Nat /\ (caller'.at = "add" => caller'.n # 0)
      BY DEF TypeInv, TypeOK, HandInv, Caller
    <3> QED
      BY <3>1, PoolAssumption DEF Pending
  <2>3. Enough'
    BY <1>2, <1>b, <2>1, <2>2, EnoughKept
  <2> QED
    BY <1>1, <1>2, <1>b, <2>1, <2>3 DEF CoreInv
<1>3. ASSUME NEW t \in Tasks, Submit(t) PROVE CoreInv'
  <2>1. caller.built
    BY <1>3 DEF Submit, CoreInv
  <2>2. caller'.built = caller.built
    BY <1>3, <1>a DEF Submit, Caller
  <2>3. UNCHANGED <<worker, worker_threads, refusals>>
    BY <1>3 DEF Submit, pool
  <2>4. Pending' >= Pending
    BY <2>1, <2>2 DEF Pending
  <2> QED
    BY <1>2, <2>1, <2>2, <2>3, <2>4
<1>4. ASSUME Put PROVE CoreInv'
  <2>1. caller.built
    BY <1>4 DEF Put, CoreInv
  <2>2. caller'.built = caller.built
    BY <1>4, <1>a DEF Put, Caller
  <2>3. UNCHANGED <<worker, worker_threads, refusals>>
    BY <1>4 DEF Put
  <2>4. Pending' >= Pending
    BY <2>1, <2>2 DEF Pending
  <2> QED
    BY <1>2, <2>1, <2>2, <2>3, <2>4
<1>5. ASSUME Adjust PROVE CoreInv'
  <2> DEFINE current == Cardinality(worker_threads)
  <2>1. UNCHANGED <<worker, worker_threads, refusals>> /\ caller.at = "adjust"
    BY <1>5 DEF Adjust, pool
  <2>2. /\ caller'.built = caller.built
        /\ \/ current >= CoreThreads /\ caller'.at = "grow"
           \/ caller'.at = "launch" /\ caller'.n = CoreThreads - current
    BY <1>5, <1>a DEF Adjust, Caller
  <2> HIDE DEF current
  <2>3. ~caller.built => current = 0
    BY <2>1, FS_EmptySet DEF CoreInv, current
  <2>4. Pending' >= Pending
    BY <1>a, <2>1, <2>2, <2>3, PoolAssumption DEF Pending
  <2> QED
    BY <1>2, <2>1, <2>2, <2>4
<1>6. ASSUME Grow PROVE CoreInv'
  <2>1. UNCHANGED <<worker, worker_threads, refusals>> /\ caller.at = "grow"
    BY <1>6 DEF Grow, pool
  <2>2. \/ caller'.built = caller.built /\ caller'.at = "launch" /\ caller'.n = 1
        \/ caller'.built
    BY <1>6, <1>a DEF Grow, Caller
  <2>3. Pending' >= Pending
    BY <1>a, <2>1, <2>2 DEF Pending
  <2> QED
    BY <1>2, <2>1, <2>2, <2>3
<1>7. ASSUME caller.at \in {"launch", "add"}, caller' = Launches(caller.n - 1)
      PROVE  /\ ~caller'.built => caller'.at = "launch" /\ ~caller.built
             /\ caller'.built => Pending' = 0
             /\ ~caller'.built => Pending' = caller.n - 1
  <2> DEFINE n == caller.n - 1
  <2>1. n \in Nat /\ caller' = Launches(n)
    BY <1>7, <1>a
  <2> HIDE DEF n
  <2>2. /\ caller'.built = (caller.built \/ n = 0)
        /\ caller'.at = (IF n = 0 THEN "idle" ELSE "launch") /\ caller'.n = n
    BY <1>a, <2>1 DEF Launches, Caller
  <2> QED
    BY <2>2 DEF Pending, n
<1>8. ASSUME Add PROVE CoreInv'
  <2>1. /\ UNCHANGED <<worker, refusals>> /\ caller.at = "add" /\ lock = NoThread
        /\ worker_threads' = worker_threads \cup {caller.child}
        /\ caller' = Launches(caller.n - 1)
    BY <1>8 DEF Add, Unlocked
  <2>2. Pending' >= Pending /\ (~caller'.built => caller'.at = "launch")
    <3>1. caller.built => Pending = 0
      BY DEF Pending
    <3>2. caller.n - 1 \in Nat
      BY <1>a, <2>1
    <3>3. ~caller.built => Pending = caller.n - 1
      BY <2>1 DEF Pending
    <3>4. caller'.built => caller.built \/ caller.n - 1 = 0
      BY <1>a, <2>1, <3>2 DEF Launches, Caller
    <3> QED
      BY <1>7, <2>1, <3>1, <3>2, <3>3, <3>4
  <2>3. Coming' = Coming /\ Started' = Started /\ Stale \subseteq Stale'
    BY <2>1 DEF Coming, Started, Stale
  <2>4. Pending' \in Nat
    <3>1. caller.n - 1 \in Nat /\ 0 \in Nat
      BY <1>a, <2>1
    <3> QED
      BY <1>7, <2>1, <3>1
  <2>5. Enough'
    BY <1>b, <2>1, <2>2, <2>3, <2>4, EnoughKept
  <2>6. \A v \in Threads : worker[v].at \notin {"relaunch", "readd"}
    BY <2>1, PoolAssumption DEF CoreInv
  <2> QED
    BY <1>1, <1>b, <2>1, <2>2, <2>3, <2>5, <2>6 DEF CoreInv
<1>9. ASSUME Launch PROVE CoreInv'
  <2>0. caller.at = "launch" /\ worker_threads' = worker_threads
    BY <1>9 DEF Launch, pool
  <2>1. ASSUME caller' = Launches(caller.n - 1), UNCHANGED worker,
               \/ Cardinality(worker_threads) >= MaxThreads /\ UNCHANGED refusals
               \/ refusals' = refusals + 1
        PROVE  CoreInv'
    <3>1. Coming' = Coming /\ Started' = Started /\ Stale' = Stale
      BY <2>0, <2>1 DEF Coming, Started, Stale
    <3>2. /\ ~caller'.built => caller'.at = "launch"
          /\ Pending' \in Nat
      <4>1. caller.n - 1 \in Nat /\ 0 \in Nat
        BY <1>a, <2>0
      <4> QED
        BY <1>7, <2>0, <2>1, <4>1
    <3>3. Enough'
      <4>1. CASE refusals' = refusals + 1
        <5>1. refusals' # 0
          BY <4>1 DEF TypeInv, TypeOK
        <5> QED
          BY <5>1 DEF Enough
      <4>2. CASE Cardinality(worker_threads) >= MaxThreads /\ UNCHANGED refusals
        <5>1. worker_threads \ Stale \subseteq Coming \cup {w \in Threads : worker[w].at = "readd"}
          BY <1>a DEF Stale, Coming, WorkerThread
        <5>2. worker_threads \ Stale \subseteq Coming
          BY <5>1 DEF CoreInv
        <5>3. RoomForCore => Cardinality(Coming) >= CoreThreads
          BY <4>2, <5>2, PoolSets, FullIsEnough
        <5>4. RoomForCore' = RoomForCore
          BY <3>1 DEF RoomForCore
        <5> QED
          BY <1>b, <3>1, <3>2, <5>3, <5>4, PoolAssumption DEF Enough
      <4> QED
        BY <2>1, <4>1, <4>2
    <3> QED
      BY <1>1, <1>b, <2>0, <2>1, <3>1, <3>2, <3>3 DEF CoreInv
  <2>2. ASSUME NEW u \in Free, worker' = [worker EXCEPT ![u] = New(caller.core)],
               caller' = [caller EXCEPT !.at = "add", !.child = u], UNCHANGED refusals
        PROVE  CoreInv'
    <3>1. u \in Threads /\ worker[u].at = "dead" /\ u \notin worker_threads
      BY NewThreads DEF Free
    <3>2. worker'[u].at = "new" /\ \A v \in Threads : v # u => worker'[v] = worker[v]
      BY <1>a, <2>2, <3>1, NewThreads DEF Caller
    <3>3. Coming' = Coming \cup {u} /\ u \notin Coming /\ Started' = Started
      BY <3>1, <3>2 DEF Coming, Started
    <3>4. Cardinality(Coming') = Cardinality(Coming) + 1
      BY <3>1, <3>3, PoolSets, Counted
    <3>5. caller'.at = "add" /\ caller'.n = caller.n /\ caller'.built = caller.built
      BY <1>a, <2>2 DEF Caller
    <3>6. Pending = IF caller.built THEN 0 ELSE caller.n
      BY <2>0 DEF Pending
    <3>7. Pending' = IF caller.built THEN 0 ELSE caller.n - 1
      BY <3>5 DEF Pending
    <3>8. Stale \subseteq Stale'
      BY <1>a, <2>0, <3>1, <3>2 DEF Stale
    <3>9. Cardinality(Coming') + Pending' >= Cardinality(Coming) + Pending
      BY <1>a, <1>b, <3>4, <3>6, <3>7
    <3>10. Enough'
      BY <1>b, <2>2, <3>8, <3>9, EnoughKept
    <3>11. \A v \in Threads : worker'[v].at \in {"relaunch", "readd"}
                                => lock' = v /\ v \notin worker_threads'
      BY <1>1, <2>0, <3>2 DEF CoreInv
    <3> QED
      BY <1>1, <1>b, <3>3, <3>5, <3>10, <3>11 DEF CoreInv
  <2>3. Free # {} => One(Free) \in Free
    BY OneIsMember
  <2> QED
    BY <1>9, <2>1, <2>2, <2>3 DEF Launch
<1> QED
  BY <1>3, <1>4, <1>5, <1>6, <1>8, <1>9 DEF CallerStep

LEMMA CoreNext == TypeInv /\ TypeInv' /\ CoreInv /\ [Next]_vars => CoreInv'
<1> SUFFICES ASSUME TypeInv, TypeInv', CoreInv, [Next]_vars PROVE CoreInv'
  OBVIOUS
<1>1. CASE UNCHANGED vars
  BY <1>1 DEF vars, pool, CoreInv, Started, Coming, Enough, Pending, RoomForCore, Stale
<1>2. CASE Shutdown \/ StopperStep
  <2>1. shutdown_flag'
    BY <1>2 DEF Shutdown, StopperStep, CancelPending, SignalStart, Signal, CoreInv
  <2> QED
    BY <2>1 DEF CoreInv
<1>3. ASSUME shutdown_flag, ~(Shutdown \/ StopperStep), Next PROVE CoreInv'
  <2>1. shutdown_flag'
    BY <1>3 DEF Next, CallerStep, WorkerStep, Submit, Put, Adjust, Grow, Launch, Add, Begin,
       ThreadStarted, Loop, Get, Timeout, Finish, Leave, ThreadExiting, Exit, Relaunch, Readd,
       OnlyWorker, pool
  <2> QED
    BY <2>1 DEF CoreInv
<1>4. CASE ~shutdown_flag /\ \E w \in Threads : WorkerStep(w)
  BY <1>4, PlainCore, ExitCore, RelaunchCore DEF WorkerStep
<1>5. CASE ~shutdown_flag /\ (CallerStep \/ \E t \in Tasks : Submit(t))
  BY <1>5, CallerCore
<1> QED
  BY <1>1, <1>2, <1>3, <1>4, <1>5 DEF Next

\* active_threads counts the threads that run, and at rest the core is there, for any
\* limits and any number of threads, tasks that end their thread, and submits: as long as
\* no start was refused and the stale threads leave room (threadpool.py:212 to 263).
THEOREM CoreIsKept == Spec => []CountAndCore
<1>1. TypeInv /\ CoreInv => CountAndCore
  <2> SUFFICES ASSUME TypeInv, CoreInv PROVE CountAndCore
    OBVIOUS
  <2>1. ActiveIsStarted
    BY DEF ActiveIsStarted, CoreInv
  <2>2. CoreKept
    <3> SUFFICES ASSUME caller.at = "idle", ~shutdown_flag, refusals = 0, RoomForCore,
                        \A w \in Threads : worker[w].at \in {"dead", "loop", "get", "run"}
                 PROVE  Cardinality(Started) >= CoreThreads
      BY DEF CoreKept
    <3>1. Coming = Started
      BY DEF Coming, Started
    <3>2. Pending = 0 /\ Cardinality(Coming) \in Nat
      BY PoolSets, Counted DEF Pending
    <3> QED
      BY <3>1, <3>2, PoolAssumption DEF CoreInv, Enough
  <2> QED
    BY <2>1, <2>2 DEF CountAndCore
<1> QED
  BY <1>1, CoreInit, CoreNext, TypeInvIsInvariant, PTL DEF Spec

=============================================================================
