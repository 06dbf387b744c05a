# A verification project for CloudRealm

CloudRealm manages big-data clusters: a server keeps a catalogue of services and an inventory of
hosts, agents on the hosts run commands and send heartbeats, a gateway stands in front, and a web
interface shows the result. The backend is being rewritten from Python and Java to Go. This
directory holds TLA+ models of the parts where goroutines, threads, requests, messages and restarts
interleave, the TLC configurations that check them, and proofs that TLAPS checks. Every definition
is a translation of the Go or Python code; `PROJECT.json` ("map") names the lines of each.

## 1. Inventory

| part | state it keeps | operations | interacts with |
|---|---|---|---|
| Service catalogue, `cloud-server-go/service/service_service.go`, `handler/service_handler.go` | rows of services (status, last operation, soft deletion), dependencies, audit trail | create, start, stop, restart, delete, insert the default dependencies at boot | the database, a Python script that acts on machines |
| Host inventory, `host_service.go`, `host_handler.go`, `agent_handler.go` | rows of hosts (status, agent status), operation log | add, register, heartbeat, start, stop, restart, maintenance, offline, delete, and the batch forms | agents over HTTP, the database |
| Operations, `operations_service.go` | requests, stages, one task per host | create, report the status of a task, recount the request, retry | agents, the interface |
| Deployment, tags, users, security, data market, monitoring, AIOps of the server | rows | single reads and writes, constant answers | the database |
| Go agent, `cloud-agent/main.go`, `service/executor.go`, `service/server.go`, `handler/agent_handler.go` | two channels, workers, loop variables, a registration | submit, execute, report, ask for a status, shut down; heartbeats | the server, the shell |
| Worker pool of the Python agent, `apscheduler/threadpool.py` | a queue of tasks, a set of threads and a count of them, a flag | submit, run, start and replace threads, cancel, shut down | the scheduler |
| Action queue of the Python agent, `ActionQueue.py`, `CommandsEventListener.py` | a priority queue, a queue of background commands, a pool, the requests to cancel | put, take, execute, retry, cancel, report | the session (commands), the reports, the scripts |
| Reports of the Python agent, `CommandStatusDict.py`, `CommandStatusReporter.py`, `ServerResponsesListener.py` | status of each command, what is to be sent, what was taken to be sent | update, generate, send in chunks, queue again, shut down | the action queue, the session, the server |
| Session of the Python agent, `HeartbeatThread.py`, `listeners/__init__.py` | connection, registration, caches, a queue of events that wait | connect, register, fetch caches, heartbeat, receive, unregister | the server, the listeners |
| Rest of the Python agent (recovery, alerts, component status, host information, orchestrator) | counters, schedules, the machine | | |
| Gateway, `cloud-gateway` | table of routes, a circuit breaker per route, rate counters | admit, refuse, record, route changes | the services behind it |
| `cloud-jmx`, `cloud-aiops`, `cloud-ui`, `cloud-common` | metrics, constant answers, rendering, libraries | | |

Some parts cannot run as they are at this commit, which decided what to model. The gateway's `main.go`
routes no request to `ProxyRequest`, so the breaker is modelled as `proxy_service.go` defines it. In
the Go agent `server.go` calls a method `Criticalf` that its logger does not have; that line is about
logging, and the rest of the file is modelled as written. The Python agent is in the middle of a
refactoring: `main.py` is not valid Python at line 581, and its classes call each other by names that
the others have just changed. Four of its components are complete in themselves and are modelled
with the calls between them read by the name the caller means, where one is meant. What the models
read differently from the letter of the code:

* At import: modules are named by paths where they are not (`from queue import ActionQueue` in
  `CommandsEventListener.py:15`, `.stomp_adapter` in `ServerResponsesListener.py:14`); `threadpool.py` annotates
  line 365 with `Iterable` and `Iterator`, which line 15 does not import (NameError before Python 3.14),
  and `Utils.py:504` decorates `synchronized` with itself before it is defined. Read as if all were importable.
* `HeartbeatThread` calls `responses.blocking_pop` and catches `DictionaryPopTimeout`; `Utils.py` has
  `blocking_take` and `BlockingDictionaryTimeoutError`. `ServerResponsesListener` stores the pair
  (headers, message), its reader expects the message. Line 299 constructs
  `security.VerifiedHTTPSConnection`, where `security.py` has `SecurityConnectionManager`.
* `CommandStatusDict.py`: its `threading.time` (lines 86, 253, 397) does not exist. `ActionQueue` calls
  `put_command_status` and `generate_report_template`; the manager has `update_command_status` and
  `_generate_report_stub`. The reporter calls `report`, also with `force_full`, and
  `get_pending_commands_count`; the manager has `report_all` and the length of its queue.
* `models/commands.py` lacks the lower-case names its users take from it (`AgentCommand.execution`,
  `auto_execution`, `background_execution`, `status_command`; `CommandStatus.in_progress`, `completed`,
  `failed`, `cancelled`, `ACTIVE_STATUSES`; the groups of commands): read as the values meant.
* `ActionQueue` calls methods of `RecoveryManager` that are not there when recovery is enabled; it is
  disabled by default, and modelled so.

And where nothing sensible can be meant, or the error is swallowed and the program goes on, the
models follow the letter:

* The handlers of answers are registered (by `add_callback`, for `register_handler`) as functions without
  arguments (`CommandStatusDict.py:348`) and called with two (`ServerResponsesListener.py:161`, `193`);
  the TypeError is logged and swallowed. So no answer acknowledges a report or queues it again, and a
  report the server refuses is lost.
* `send` of the connection has no `presend_hook` (`HeartbeatThread.py:330`) and no `log_message_function`
  (`CommandStatusDict.py:306`); both end up among its keywords for headers and are never called.
* `ActionQueue.py:627` calls `command_canceled_reason`, which the orchestrator does not have, before
  anything is reported: the end of a background process changes nothing.

What is hard in this code, and for each part what makes it correct:

* **Whole-row saves from snapshots.** The server reads a row, sleeps or works, and writes all of
  its columns back, without transaction or lock. Correct would be: what is left when nobody works on
  the row is a final state, a deleted row stays deleted, ids are not shared.
* **Restarts between two writes.** A status such as STARTING is written first and replaced later.
  Correct would be: it is always left again, or some operation accepts it.
* **Changes under a read lock, answers that arrive late** in the breaker. Correct would be: a closed
  breaker is below its limit, an open or half-open one is eventually left, trial calls are bounded.
* **Channels, shared variables and the shutdown** of the Go agent. Correct would be: each command
  runs once and its result arrives; no channel is closed in use; nobody waits on everybody.
* **Threads that come and go** in the worker pool: the set of threads is read without its lock, a
  thread enters it after it was started, a task may end its thread. Correct would be: a task runs
  once, the pool keeps its core of threads, and every worker ends after a shutdown.
* **Cancellation, retry and priority** in the action queue. Correct would be: no command is lost, a
  request to cancel ends its own command only, nothing is reported after the final status.
* **Reports that are lost, refused, or sent by two threads.** Correct would be: the end of a command is kept
  until the server has seen it, and the server never sees it undone.
* **Events that arrive while a cache is fetched**, or while those that waited are taken out of the
  queue; connections that are lost at any moment. Correct would be: a registered agent has the server's state, and it registers again after each loss.

`PROJECT.json` ("hazards") lists these at the line where they bite, each with its properties.

## 2. The modules

Each component has a module, an `MC` module for TLC (symmetry, small relations) and a module of
proofs.

**ServiceLifecycle.** `rows`, `deps`, `audit` are the tables; `req` holds the goroutine of each HTTP
request: where it is, the snapshot it read, the statuses it has yet to write. One action is one
database statement: `RunScript` is the handler's call of the script (the processes it acts on are
outside the model, and under `--json` its exit code is always 0), `Refuse`/`Accept` the
look-up and the test of the status, `SaveStage`/`SaveFinal`/`SaveAudit` the writes of
StartService, StopService and RestartService (`Plan` gives their sequence), `DeleteLookup`,
`CheckDependencies`, `MarkDeleted`, `DeleteDependencies` those of DeleteService.
`InitDefaultDependencies` and `InsertDependency` are the goroutine at boot. `Crash` restarts the
server: goroutines go, tables stay. `Init` is an empty database, `InitEstablished`
one whose catalogue and default dependencies are in place. A name stands for the primary key,
because the column is unique and rows are only soft-deleted.

**HostLifecycle.** `rows` is the table of hosts, `req` the operations on them, `hb` the row a heartbeat
has read and not yet written, `agents` the process of each host's agent. A save of a row that has gone
inserts it again, as gorm's `Save` does (`Saved`). `AddHost` is the user's addition, `RegisterAgent` the
agent's own (both `Insert`, which refuses a name that is there), `RegistrationFails` the answer 500 to it.
A heartbeat is looked up as a name or an address, and what the agent sends is the id of its
registration: for a registered agent that is the version of the agent, which is no host's name, so
that the look-up fails; for an agent whose registration failed it is empty, and finds the one host that
was added without address (`bare`, for a member of `Unaddressed`), whoever's agent it is. Hence
`HeartbeatLookup` asks for an agent that is `"unregistered"` and a row that is `bare`. The one
assumption in this is that no host is called like a version, `1.0.0`. `Similar` is the relation behind the
`LIKE '%name%'` of the deletion. Ids come from `lastId`, the table's counter.

**CircuitBreaker.** One route. `isCircuitOpen` holds the lock for reading while it writes, so each of
its statements is an action (`ReadState`, `WriteFirstWord`, `WriteSecondWord`, `ResetCalls`,
`TestCalls`, `LoadCalls`, `StoreCalls`) and the string assignment has a torn value in between;
`RecordFailure` and `RecordSuccess` hold it for writing and need `Readers = {}`. `CoolDown` is the
passing of 30 s. Data races are thus choices of the scheduler.

**CommandExecutor.** `queue` is the channel of *pointers*, `cell` the variables pointed to, with two
fields that are written and read one at a time; `pc`, `todo`, `var`, `unwritten` are the loops of the
heartbeat and of the handlers; `worker` the workers, `results` the second channel, `reporter` the
goroutine that reports, `main` the shutdown. A range loop has one variable for all of its turns
(`go.mod` asks for go 1.21), SubmitCommand a fresh one. `single` is the history variable for the commands
that are alone in their loop, SubmitCommand's and those of an answer with one command: only theirs is a
variable nobody overwrites. `Finish` is disabled for `Hanging` commands:
`cmd.Run` with a buffer as output returns only when every process that inherited the pipe has closed
it, and killing the shell does not do that. What the server puts in an answer is external: any
sequence of commands not issued before.

**TaskPool** is what the worker pool promises its caller, without threads: a task that is submitted is
refused, or pending until it is run, once, or cancelled; only a closed pool refuses or cancels.
**WorkerPool** is `threadpool.py`: `worker` has for each thread object where it is in `run` and what it
holds, `caller` the thread that submits (in `_adjust_thread_count` and `_launch_thread`), `stopper` the
one in `shutdown`. What is done without `thread_lock` is an action for each read: `Adjust` reads the
size of the set, `Grow` that of the queue, `Launch` starts a thread, `Add` puts it in the set.
`ThreadExiting`, `Relaunch`, `Readd` are the end of a worker, which keeps the lock while it starts its
successor. A thread object nobody refers to is used again. `TP == INSTANCE TaskPool WITH status <-
[t \in Tasks |-> StatusOf(t)], closed <- shutdown_flag` is the refinement mapping.

**ActionQueue** has the listener (`Receive`, `Cancel`, `Put`), the thread of the queue (`TakeBackground`,
`TakeSerial`, `TakeParallel`) and, for each command, `execute_command`, in that thread or in the pool:
`Begin` (the IN_PROGRESS report, line 264), `Discard` (the requests to cancel that came before line 282
are forgotten), `Check`, `Launch`, `Succeed`, `Fail`, `Delay`, `GiveUp`, `Report`. A cancellation may come for any
command the server has sent, again, in the background, or when it is over (`CancelIds`). `asked` and
`extra` are history variables of the properties. **HeapQueue** is Python's `heapq` as far as it matters: an item is a pair
(priority, dict), so that two items of one priority cannot be compared, and an operation that raises
leaves the heap as it is at that moment; a sift is a function of the number of steps it has made.

**CommandReports** has `current_state`, `send_queue` and `acknowledged_commands` of the manager, which
change under one lock (so one action per method), and the two threads that send (`Generate`, `Send`, of the
reporter and of a call of `shutdown`). `connection` is what they see of the session: `Register` sets
`is_registered` before `Expose` makes the connection usable, and in between (`"hidden"`), as after a
loss (`"broken"`), a send may raise ConnectionIsAlreadyClosed, when `Send` queues the chunk again as
`QueueAll` does: what counts as acknowledged is refused. `inflight` are the messages on the connection,
`Serve` the server, which may refuse one; the answers have no effect (section 1). `learned` and `lost` are
history variables. Its fields report the defect at construction too: `is_registered` is a copy that
stays FALSE, and then nothing is ever sent; the run takes both values.

**AgentSession** has the heartbeat thread (`beat`), the threads that receive (`receiver`: of this
connection, and of an earlier one that `disconnect` did not wait for) and the server's side of the
channel. The content of a cache is the number of its last change in the server. `Look` reads the
listener's flag without the lock, `Enqueue` with it, `Handle` is `on_event` with its confirmation. The
`finally` of `register` is `Enable` (line 204, from where on the receiving thread handles events itself),
`Dequeue` (one event of the queue all listeners share, line 206) as often as there is one, and `Unlock`;
`Locked` is the lock it holds meanwhile, for which `Enqueue` waits. `spoiled` is a history variable: the
caches that one of three accidents of the code has left behind the server, until they are fetched
again.

The components of the Python agent meet in narrow places, which each module contains from its own
side: ActionQueue gives each command a status (`status`), which CommandReports takes (`Update`: first
IN_PROGRESS, then a final one, as `FinalIsLast` says); CommandReports sees of the session only when a
connection opens and ends (`Register`, `Break`, `Unregister`).

The Go components meet over HTTP only (a heartbeat of the agent is one call of the inventory's
handler), and the Go server has no endpoint that hands out commands yet. They are therefore not
composed into one specification; HostLifecycle contains the agents as far as the server sees them.

## 3. The runs

Runs that pass:

| run | shows | bounds, and why they are enough |
|---|---|---|
| `service_idle` | an idle live service has the status its last operation ends in (`SettledWhenIdle`), which is audited (`LastOpAudited`); a service others depend on survives (`DependedOnKept`); a deleted one leaves no dependency (`DeletedUnlinked`) | two services, one depending on the other, two requests: a conflict needs two snapshots of one row, or a deletion and a change of what it checked |
| `service_restart` | wherever a restart interrupts, some operation accepts the status left (`NeverStranded`); an operation leaves its service STARTING or STOPPING only if the server dies under it (`OperationsEnd`) | an empty database, boot, two requests on one service, one restart: after it no stale snapshot is left, so that a second adds nothing. With one service there is no default dependency to insert; `TypeCorrect` and `IdleIsSettled` are proved with the insertions |
| `host_idle` | a host that no operation is about to write has a settled status and is not shown down with its agent up (`SettledWhenIdle`); with a restart at any moment, the heartbeats of an agent that could not register repair a status left half-way in the row of the host without address and show it ONLINE (`HeartbeatHeals`) | one host, with or without address, two operations and its agent, one insertion (rows come back from snapshots without it), one restart |
| `breaker_safe` | what a caller read is still so when it acts (`ReadIsFresh`); a breaker that lets calls through is below its limit (`ClosedBelowLimit`); an open one is tried again (`OpenIsLeft`) | the limits of the code (5, 3, 3), counters to 6, three callers: two race and a third answers |
| `executor` | nothing is lost or doubled between Submit and the receivers (`PointersAccountedFor`), a command alone in its loop, of SubmitCommand or of an answer to a heartbeat, runs once (`SingleRunsOnce`) and, once accepted, is settled or the process ends (`AcceptedIsSettled`), no channel is closed in use (`ClosedChannelsAreIdle`), the shutdown ends (`StopEnds`), and there is no deadlock. Of several commands in one answer neither can be said: `executor_batch` | channels of one place, so that full is the normal case; two workers, the heartbeat and a handler; two loops over one or two commands; a status request and a failed report. With three commands and three loops the safety part has 3.4 million states and no error |
| `pool` | the pool implements TaskPool (`RunsEachTaskOnce`), counts its threads, keeps its core (`CountAndCore`) and takes every task (`TasksRun`) while the stale threads in its set leave room for them, lets every worker end (`WorkersEnd`) | two tasks that may end their threads, a core of one thread, at most two, five thread objects (one is always free), one start that fails: the fewest with which stale threads fill the set and the core is then lost |
| `actions` | no command is lost unless priorities tie (`NothingLostWithoutTies`), the first in priority is taken (`TakesTheFirst`), a request to cancel ends its own command only, and is not overlooked if it comes after the earlier ones were discarded (`CancelsItsOwn`), a final status is the last (`FinalIsLast`), what is queued is started (`QueuedIsStarted`), the thread ends (`StopEnds`) | one command that is retried, in a pool of one, one that is not, one in the background: the fewest with which the pool is full and both queues are in use; the first and the last can be cancelled, again and again; messages of one command or one request, since a longer one is handled one by one all the same; serial and parallel, priorities that tie and that do not; two attempts, since a third is like the second |
| `reports` | the end of a command is kept until the server has seen it, unless its own report was lost or refused (`FinalKept`), what the server has seen never goes back as long as shutdown does not send too (`NeverBack`), it learns of every end that was not lost (`ServerLearns`) | three commands, one automatic (never sent, and in the way); a history of one place, so that it is always full; two faults (a lost connection, a refused report), so that one follows the other; both senders; 487,736 states |
| `session` | an event waits in the shared queue only while its cache is fetched or its events are taken out (`QueueOwned`), a registered agent has the server's state of every cache that is not `spoiled` (`CachesCurrent`), and it registers until it is stopped (`Registers`) | two caches, so that an event of one could be given to the other; a queue of one place, so that it is full; two changes of each, so that a newer event can overtake one that waits; one fault |

Bounds that stand for something unbounded: `MaxCrashes`, `MaxId`, `MaxCount`, `MaxLoops`,
`MaxBatch`, `MaxPolls`, `MaxFails`, `MaxDeaths`, `MaxRefusals`, `MaxFaults`, `MaxUpdates`, `MaxSends`; inputs
that are chosen: `CancelIds`, `Unaddressed`; limits of
the code that are smaller in a run than in the code: `QueueCap`, `ResultCap`, `MaxAttempts`,
`MaxConcurrent`, `MaxHistory`, `QueueSize`, `MaxThreads`. Symmetry is used only in `service_idle`, which has no
temporal property. Deadlock is checked except in the runs of HostLifecycle, where all ids can be used
up and every agent dead, and in `pool`, `actions`, `reports` and `session`, where the agent may be stopped
or idle with all bounds used up; the liveness properties of these runs say what must not stop.

Runs that TLC must find violated show where the code departs from what a document or a message of
the repository says. `PROJECT.json` ("findings") quotes the line for each.

| run | the code does |
|---|---|
| `service_delete_race` | a stale snapshot marks a service deleted that has just been started |
| `host_resurrected` | a save of a stale snapshot inserts a deleted host again |
| `executor_batch` | with two commands in one answer, one runs twice and the other never |

### Departures met while modelling

The models follow the code in these places too, where it does something other than a document or a
message says; none has a run of its own, because one step shows it or because it lies at the edge
of the model.

* `service_service.go`: a restart in the middle of an operation leaves the row STARTING, and nothing
  looks at it again (`.trae/rules/cloud.md:55` asks for a periodic comparison with the desired state);
  the boot goroutine may insert a dependency on a service that a deletion has removed since it
  listed the services, which is why `service_idle` starts after boot.
* `service_handler.go:153`: the script runs before the status is tested, so a refused start has
  already acted; a script that fails is recorded as HEALTHY, as it exits with 0 under `--json`.
* `host_service.go`: a heartbeat, or any operation, takes a host out of maintenance (681); deleting
  `node-1` twice deletes `node-10` (462); the batch operations write nothing to the operation log (534);
  a batch restart updates a column that does not exist (597); the host of a dead agent stays ONLINE,
  since nothing compares the time of its last heartbeat with the clock (683). A heartbeat of a registered
  agent never finds its host: `agent_handler.go:47` answers the registration with the version of the agent
  as its id, `server.go:253` sends that back, and line 675 looks for a host of that name or address. The
  answer is 500, and the host never becomes RUNNING and ONLINE by heartbeats, as
  `.trae/skills/主机管理/SKILL.md:86` promises. An agent whose host was added before it cannot
  register (109), has no id, and its heartbeats go to the host without address, if there is one. This
  row is the only one `HeartbeatHeals` can be about.
* `host_installer.py` prints its answer over several lines after others: `host_handler.go:213` looks for a
  line that is JSON by itself and `deployment_handler.go:400` for nothing but JSON, so that neither ever
  sees a success. The status `INITIALIZING` it answers thus never reaches a row, and AddHost of a user
  always inserts UNKNOWN unless the user's own request names a status, which the interface does not.
* `proxy_service.go:262`: nothing gives a trial call back that `ProxyRequest` ends without recording it
  (unsupported method, line 216), and failures that stay below the limit because a late success reset
  them do not open the breaker again: once its trial calls are used up, a half-open breaker refuses
  for ever. TLC refutes `(breaker.state = "half-open") ~> (breaker.state # "half-open")` under `FairSpec` of
  CircuitBreaker with the constants of `breaker_safe`.
* `proxy_service.go:256`: more trial calls than the limit can be in flight at once, since callers that
  half-open the breaker together are not counted.
* Go agent: a status request drops the result of another command (`agent_handler.go:97`); the process
  ends while its last results are still in the channel or with the reporter (`main.go:92`, `119`); a
  command whose child keeps the output open occupies its worker beyond the timeout (`executor.go:154`). The last is the constant `Hanging`:
  the runs take it empty, the theorems hold for any.
* `threadpool.py`: the pool may have more than `max_threads` threads, as the size of the set is tested
  before the new thread is in it (232, 240); a thread that has exited before line 240 stays in the set
  and takes a place for ever. Once `max_threads - core_threads + 1` places are taken so, `_thread_exiting`
  cannot replace a core thread any more (226, 232), although line 251 promises "at least core_threads
  core threads", and once all are taken no task runs: hence `RoomForCore` in `CoreKept` and `TasksRun`. TLC
  refutes `CoreKept` without it under the constants of `pool`, in 45 steps; the case came up when the
  invariant of `CoreIsKept` was looked for. A successor may not be a core thread, or the core may be replaced by
  one that is not. A `submit` that overlaps `shutdown` may start a core worker after the signals were
  counted (318), which waits in `get` for ever, and its task may stay in the queue: hence `caller.at =
  "idle"` in `WorkersEnd` and `shutdown_flag` in `TasksRun`.
* `ActionQueue.py`: commands of one priority are lost when the heap compares them (186, 204; also in
  `put`, where the rest of the message goes with them), which is the normal case, since every command
  has priority 10 by default; a test (`test/TestActionQueue.py`, `test_parallel_exec`) expects both of two to
  run. `cancel` is documented as for commands "in progress or in the queue" (133), but
  `execute_command` forgets the request of one that was queued, and also of one that has been reported
  IN_PROGRESS (264) and has not passed line 282 yet: hence `asked = "executing"` in `CancelsItsOwn`. A
  background command is IN_PROGRESS for ever (627, section 1): `FinalIsLast` and `EndedAsAsked` leave
  background commands out. The branches for exit codes of signals (390, 441) are dead, since `PythonExecutor` turns negative codes into 999.
* `CommandStatusDict.py`: `is_registered` is copied when the manager is constructed (69), before any
  registration, so that no report is ever sent; the docstring of `_requeue_unsent` says "Add reports back
  to queue after sending failure" (370), but `queue_report_sending` refuses those in the history of
  acknowledged reports, where they are since line 161, so that a report is lost when the connection is
  found closed; a report the server refuses is lost too, and none is ever acknowledged, as the handlers
  of both cannot be called (348): `lost` in `FinalKept` and `ServerLearns`. Reports of auto-execution
  commands stay in `current_state` for ever (172); a shutdown's report may overtake the reporter's, so that
  the server sees IN_PROGRESS last: `Stopping` in `NeverBack`.
* `HeartbeatThread.py:204` and `listeners/__init__.py`: once a listener is enabled, and while the events that
  waited for it are still taken out of the queue (206), an event that arrives is handled without the lock
  (96, 115), before older ones, which then overwrite it; the thread that receives outlives its connection
  (237) and may put an answer or an event of the old one into the new; an event for which the queue has
  no room is dropped. After each of the three the cache stays behind until the next registration: these
  are the three ways into `spoiled`, and TLC refutes `CachesCurrent` with `Cache` for `Cache \ spoiled` under the
  constants of `session`. `dequeue_unprocessed_events` gives any event to the listener that empties the
  queue; that this is always the right one is `QueueOwned`, for which it matters that the caches are
  fetched one by one.

### Fairness

Only weak fairness is assumed. Service: a handler in flight and the boot goroutine go on, since
goroutines run until the process dies; no request need arrive. Host: the same, and an agent that
runs sends heartbeats (its ticker does). Breaker: goroutines run, the HTTP client has a timeout, so
that each call is answered or given up, requests keep coming, and time passes. Executor: each
goroutine that can take a step does; ticks, requests and signals need not come, and a command of
`Hanging` never ends. Pool, queue, reports and session: the threads of the agent are scheduled, tasks,
scripts and requests end (all have timeouts), the server answers what it receives, a lost connection
is noticed by the request that times out. Nobody has to submit, cancel, send events or stop.

## 4. The proofs

For every value of the constants, under the named assumptions of the modules (`DepsAssumption`,
`CrashAssumption`, `SimilarAssumption`, `AddressAssumption`, `BoundAssumption`, `LimitAssumption`, `ExecutorAssumption`,
`PoolAssumption`, `QueueAssumption`, `ReportsAssumption`, `SessionAssumption`),
which say no more than that numbers are natural, limits positive, workers finite and at least one,
relations over the right sets, and (`AddressAssumption`) that one host at most has no address, since the
column is unique.

| theorem | says | argument |
|---|---|---|
| `ServiceLifecycleProofs!TypeCorrect` | types, from either initial state | `TypeOK` with the shape of a request: what `todo` can be at each `pc` |
| `ServiceLifecycleProofs!DependedOnIsKept` | a depended-on service is never deleted | once `CheckDependencies` has let a deletion through, no dependency points at its service (`DependedInv`) |
| `ServiceLifecycleProofs!IdleIsSettled` | an idle live service has a settled status | an unsettled row is being worked on by a request whose last write is still to come |
| `ServiceLifecycleProofs!StrandedNever` | some operation accepts every live service, across crashes | the statuses written are those an operation starts from or leaves behind when interrupted; each of them is accepted by one |
| `ServiceLifecycleProofs!DeletedIsUnlinked` | dependencies of a deleted service remain only during the deletion | a request between `remove` and `unlink` is the witness |
| `ServiceLifecycleProofs!LastOpIsAudited` | the last operation is audited | a request before `audit` is the witness |
| `HostLifecycleProofs!TypeCorrect` | types | `TypeOK` with the shape of operations and snapshots |
| `HostLifecycleProofs!IdleIsSettled` | without a crash, a host no request is about to write has a settled status | an unsettled row has a request that has written the first status and will write the second |
| `HostLifecycleProofs!IdsAreDistinct` | two hosts never share an id | `IdInv`: rows, snapshots of heartbeats and saving requests *claim* ids; an id is claimed for one host only, and no claim exceeds `lastId`. Rows alone are not inductive: a stale snapshot brings an id back |
| `CircuitBreakerProofs!ReadStaysFresh`, `ClosedIsBelowLimit`, `TypeCorrect` | the three invariants of `breaker_safe` | writers exclude readers, so that the state a reader acts on can only have gone the way other readers take it; a state that lets calls through is entered with failures 0 or kept by adding one below the limit |
| `CommandExecutorProofs!TypeCorrect` | types and capacities | `LoopInv`: a goroutine in a loop has a command left and a variable, a busy worker a pointer |
| `CommandExecutorProofs!NothingVanishes` | `PointersAccountedFor` | each step moves one pointer from one place to the next; the busy workers are counted with the theorems on finite sets |
| `CommandExecutorProofs!ShutdownIsOrdered` | `ClosedChannelsAreIdle` | `ClosingInv`: a worker ends only when the queue is closed and empty, and it closes only after the heartbeat has gone, the one submitter whose panic nobody recovers |
| `CommandExecutorProofs!SingleIsRunOnce` | `SingleRunsOnce` | `SingleInv`: the pointer of a command that is alone in its loop has one owner (`Owns`), it is in no place before it is sent (`Unseen`) and its variable is allocated from then on, to no other loop (`Allocated`) |
| `WorkerPoolProofs!TypeCorrect` | types | `HandInv`: a thread holds a task exactly while it runs, the caller exactly before `put`, and a child while it adds it |
| `WorkerPoolProofs!RunsOnce` | the pool implements TaskPool | `FateInv`: the refused, cancelled, ended, running, queued and submitted tasks are disjoint, a task is in the queue once and with one worker, and the flag is down until `shutdown`. Every step moves at most one task (`FateStep`), in one of the ways of TaskPool (`MoveStep`), or none (`StayStep`); the mapping is a CASE, whose value is the place of the task because the places are disjoint (`StatusIsFate`) |
| `WorkerPoolProofs!CoreIsKept` | `CountAndCore` | `CoreInv`: the counter is the number of live and started threads plus those the lock holder is about to add (`Coming`); a thread leaves only from above the core or hands over to a child, and `Pending` threads make up what is missing (`Enough`) |
| `ActionQueueProofs!TypeCorrect` | types; the pool and the attempts of a command keep their limits | an attempt begins only while one is left (`JobInv`), and a command is put in the pool only when there is room |
| `ActionQueueProofs!NoneIsLost` | `NothingLostWithoutTies` | a command is in one place at a time (`QueueInv`); `Push` and `Pop` keep the elements of a heap whose priorities differ, and raise in no comparison |
| `ActionQueueProofs!FirstIsTaken` | `TakesTheFirst` | `commandQueue` is a heap (`IsHeap`, in `QueueInv`), in which the first is the least (`FirstIsLeast`) |
| `ActionQueueProofs!CancelIsItsOwn`, `FinalStays` | `CancelsItsOwn`; a final status is the last | `FateInv`: an id in `taskIdsToCancel` was asked for, a request that comes after `Discard` stays there until the command gives up, one that comes before (`Waiting`, which includes the place between the report and `Discard`) promises nothing, and a final status belongs to a command that is done |
| `CommandReportsProofs!TypeCorrect` | types, and the size of the history | the history is cut to the limit whenever reports are added to it, and the other steps only take from it |
| `CommandReportsProofs!FinalIsKept` | `FinalKept` | `SingleInv`: a command that is not over is in the queue or in the hands of one thread, not in both nor twice, and not in the history when it is queued, so that taking it once out of each (`RemoveFirst`) leaves nothing of it and its end is queued; from there `FinalKept` is inductive, since every step that drops a report of an end puts the command into `lost`. It holds with and without `report_ongoing_tasks` and with a history of any size |
| `CommandReportsProofs!SeenNeverBack` | `NeverBack` | `SeenInv`: what is in hands, on its way and seen as an end is one the executor told; `OrderInv`: the reports in the reporter's hands, the messages on the connection, and what the server has seen are in the order they were told. A command that is over is reported as such ever after |
| `AgentSessionProofs!TypeCorrect` | types and the size of the queue | `SentInv`: where the heartbeat thread is determines which cache it is about |
| `AgentSessionProofs!QueueIsOwned` | `QueueOwned` | a listener is disabled from `Disable` to `Enable`, and an event is put in the queue only under the lock and after its flag is read again, so that one in the queue is about the cache that is fetched; from `Enable` to `Unlock` the lock is held, so that none is put, and `Unlock` needs an empty queue |
| `AgentSessionProofs!CachesAreCurrent` | `CachesCurrent` | `FreshInv`: of what is on its way about a cache the last is the server's content (`ChannelInv`); when nothing is on its way, the answer nobody has taken, the last event in the queue, or the cache itself is (`CacheInv`), also between `Enable` and `Unlock`, unless the cache is `spoiled`. It starts where the agent asks for the events before it asks for the cache (`AskedInv`): a change the answer does not contain is published to a subscriber. `LinkInv` says that a connection begins with nothing on its way |

The three safety theorems of the catalogue about dependencies, settling and auditing hold, as their
runs, for a server that has not died (`crashes = 0`) and starts established.

Every invariant and action property the passing runs check is stated by a theorem. Each inductive
invariant was first checked by TLC, on the constants of its run.

Two models compute over sequences: the heap of `heapq`, and the loops over the history of reports
(`Kept`, `Learned`). They are written as recursive functions on a number of
steps, because the prover can follow those: `SetInduction` (from the well-foundedness of `<` on the
naturals, as the induction theorems of the library take an operator as parameter) and `Iteration` (such
a function exists) lead to `Rises`, `Sinks` and `Follows`: what holds of the first state and is handed on
by each step holds of the last. For the heap, what is handed on is that the order can only be wrong
at the item that moves: going up, between it and its parent (`SiftDownOrders`), going down, between
it and its children, until `SiftUp` has taken it to a leaf and back (`SiftUpOrders`). `Push` and `Pop` are
therefore right for heaps of any size; `MCActionQueue` compares them with sorting for up to five
items.

Model-checked only: liveness (`OperationsEnd`, `HeartbeatHeals`, `OpenIsLeft`, `AcceptedIsSettled`, the
`StopEnds`, `TasksRun`, `WorkersEnd`, `QueuedIsStarted`, `ServerLearns`, `Registers`), since the prover has no
rule for fairness and ENABLED, and the three runs that show a departure, which are counterexamples.

## 5. Not modelled, and why

* Queries, paging, the texts of answers and logs: no state changes.
* Services of the server that write one row with one statement (tags, users, security, data market,
  monitoring, AIOps): nothing interleaves beyond the lost update of a row.
* Of the Python agent: recovery, alerts, component status and the scheduler's jobs. `RecoveryManager`
  and `ComponentStatusExecutor` lack methods their callers use or overwrite their own lock, and the
  `Job` of `apscheduler` lacks `add_instance`, so that no job ever reaches the pool: there is no behaviour
  to be faithful to. `HostInfo`, `HostCleanup` and the orchestrator read and change the machine. The
  contents of reports and caches, logs and temporary files are data no property is about.
* `cloud-jmx`, `cloud-aiops`, `cloud-ui`: input, output and constant answers; build artefacts.
* `cloud-common` and most of the 429 Python files: vendored libraries (jinja2, simplejson, pyaes, stomp,
  ws4py), wrappers around commands of the operating system, resource definitions and tests, which
  keep no state of the system. This is why the mapped lines are a small share of all Python lines:
  the concurrent core of the agent is some thousand lines, and the rest of the models is about Go.
* In the Go agent, `ActionQueue` and `RecoveryManager` (used by nothing), `ComponentManager`,
  `AlertManager` and `ConfigCache` (maps under one lock each), the metrics in a heartbeat, and the
  outcome of a command (an exit code other than 0 is reported as COMPLETED).

## 6. Plan

In this order:

1. Done: ServiceLifecycle, HostLifecycle, CircuitBreaker, CommandExecutor, WorkerPool with TaskPool,
   ActionQueue, CommandReports and AgentSession, with the runs and theorems above.
2. **ActionRequests** (`operations_service.go`): a request, its stage and a task per host; inserts
   whose errors are ignored (57), concurrent recounts from older reads (229), retries that do not
   reopen the request (404), a request without tasks that never finishes (214). Abstract specification:
   a request finishes once, when all of its tasks have.
3. **RouteTable** (`gateway_handler.go`, `proxy_service.go` 48 to 58): slices that share an array,
   read-modify-write without a lock. Abstract specification: a sequence of routes changed by one
   operation at a time.
4. **ExactlyOnce**, a bag of commands taken, run and answered that CommandExecutor implements for
   loops over one command, as a property of `executor`; then the proof of the step mapping.
5. Theorems of the new modules.
