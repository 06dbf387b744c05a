-------------------------- MODULE CommandExecutor --------------------------
(***************************************************************************)
(* How the Go agent runs commands: the CommandExecutor (executor.go), the  *)
(* heartbeat goroutine and the HTTP handlers that submit to it, the        *)
(* goroutine of main that reports results, and the shutdown of main.       *)
(*                                                                         *)
(* Submit takes a POINTER.  A loop "for _, cmd := range commands" has one  *)
(* variable (go.mod asks for go 1.21), so all the pointers it submits are  *)
(* to that variable, which the next turn of the loop overwrites, field by  *)
(* field, while workers read it.  SubmitCommand has a variable of its own. *)
(***************************************************************************)
EXTENDS Naturals, Sequences, FiniteSets

CONSTANTS Commands,   \* the commands the server and its users can issue
          None,       \* no command yet
          Heartbeat,  \* the goroutine of HeartbeatService
          Handlers,   \* goroutines of HTTP requests
          Workers,    \* goroutines of the executor: 5
          QueueCap,   \* capacity of the channel queue: 100
          ResultCap,  \* capacity of the channel resultChan: 100
          Hanging,    \* commands with a child that keeps the output pipe open
          MaxLoops,   \* bound on the variables that are pointed to
          MaxBatch,   \* bound on the commands in one answer of the server
          MaxPolls,   \* bound on status requests that take a result
          MaxFails    \* bound on reports the server does not accept

ASSUME ExecutorAssumption ==
  /\ None \notin Commands /\ Heartbeat \notin Handlers /\ Hanging \subseteq Commands
  /\ IsFiniteSet(Workers) /\ Workers # {}
  /\ QueueCap \in Nat \ {0} /\ ResultCap \in Nat \ {0}
  /\ MaxLoops \in Nat /\ MaxBatch \in Nat /\ MaxPolls \in Nat /\ MaxFails \in Nat

VARIABLES fresh,          \* the commands not issued yet
          cell,           \* the variables pointed to, each with its two fields
          loops,          \* how many of them are allocated
          pc, todo, var, unwritten,  \* submitters: where, what is left, the
                          \* variable of the loop, its fields still to be written
          queue,          \* channel of pointers
          worker,         \* the workers and what each has read of its command
          results,        \* channel of responses
          queueClosed, resultsClosed,
          main,           \* where the goroutine of main is
          tick,           \* a tick of the heartbeat's ticker is pending
          reporter,       \* the responses the reporting goroutine holds (one or none)
          polls, fails,   \* counters
          sent, taken,    \* pointers sent, responses received
          accepted,       \* commands whose Submit returned
          single,         \* commands that are the only one of their loop
          runs,           \* how often each command was run
          fate            \* what became of the response with the id of a command

submitting == <<fresh, cell, loops, pc, todo, var, unwritten, tick, accepted, single, sent>>
executing  == <<worker, runs>>
answering  == <<reporter, polls, fails, taken, fate>>
vars == <<submitting, executing, answering, queue, results, queueClosed, resultsClosed, main>>

-----------------------------------------------------------------------------
Submitters == Handlers \cup {Heartbeat}
Loops  == 1..MaxLoops
Pointers == Loops \cup {0}
Field  == {"id", "work"}
Value  == Commands \cup {None}
Cell   == [Field -> Value]
Worker == [at : {"idle", "read", "running", "sending", "done"},
           ptr : Pointers, id : Value, work : Value]
Response == [id : Value, work : Value]
Fate   == {"none", "reported", "failed", "answered", "dropped"}

Blank == [f \in Field |-> None]
Idle  == [at |-> "idle", ptr |-> 0, id |-> None, work |-> None]
Busy  == {w \in Workers : worker[w].at \in {"read", "running", "sending"}}
Alive == main # "exited"

Init ==
  /\ fresh = Commands /\ accepted = {} /\ single = {}
  /\ cell = [l \in Loops |-> Blank] /\ loops = 0
  /\ pc = [s \in Submitters |-> "idle"]
  /\ todo = [s \in Submitters |-> <<>>]
  /\ var = [s \in Submitters |-> 0]
  /\ unwritten = [s \in Submitters |-> {}]
  /\ queue = <<>> /\ results = <<>>
  /\ worker = [w \in Workers |-> Idle]
  /\ queueClosed = FALSE /\ resultsClosed = FALSE
  /\ main = "running" /\ tick = FALSE
  /\ reporter = <<>> /\ polls = 0 /\ fails = 0
  /\ sent = 0 /\ taken = 0
  /\ runs = [c \in Commands |-> 0]
  /\ fate = [c \in Commands |-> "none"]

-----------------------------------------------------------------------------
(* Submitting: the loops over the commands of an answer, and SubmitCommand *)

Batches == {b \in UNION {[1..n -> fresh] : n \in 1..MaxBatch} :
              \A i, j \in DOMAIN b : b[i] = b[j] => i = j}

\* What batch adds to the commands whose variable is not overwritten.
Single(batch) == IF Len(batch) = 1 THEN single \cup {batch[1]} ELSE single

\* A goroutine enters the loop over batch, with a new variable.
Enter(s, batch) ==
  /\ Alive /\ pc[s] = "idle" /\ loops < MaxLoops
  /\ loops' = loops + 1
  /\ fresh' = fresh \ {batch[i] : i \in DOMAIN batch}
  /\ pc' = [pc EXCEPT ![s] = "loop"]
  /\ todo' = [todo EXCEPT ![s] = batch]
  /\ var' = [var EXCEPT ![s] = loops + 1]
  /\ unwritten' = [unwritten EXCEPT ![s] = Field]
  /\ UNCHANGED <<cell, accepted, sent, executing, answering, queue, results,
                 queueClosed, resultsClosed, main>>

\* The ticker fires; its channel holds one tick.
Tick ==
  /\ main = "running" /\ tick' = TRUE
  /\ UNCHANGED <<fresh, cell, loops, pc, todo, var, unwritten, accepted, single, sent,
                 executing, answering, queue, results, queueClosed, resultsClosed, main>>

\* sendHeartbeat with commands in the answer; without any, or when it fails.
Beat == \E batch \in Batches :
          tick /\ tick' = FALSE /\ Enter(Heartbeat, batch) /\ single' = Single(batch)

EmptyBeat ==
  /\ Alive /\ pc[Heartbeat] = "idle" /\ tick /\ tick' = FALSE
  /\ UNCHANGED <<fresh, cell, loops, pc, todo, var, unwritten, accepted, single, sent,
                 executing, answering, queue, results, queueClosed, resultsClosed, main>>

\* The handler Heartbeat fetches commands and submits them in the same way.
HandleHeartbeat(h) ==
  \E batch \in Batches : Enter(h, batch) /\ single' = Single(batch) /\ UNCHANGED tick

SubmitCommand(h) ==
  \E c \in fresh : Enter(h, <<c>>) /\ single' = Single(<<c>>) /\ UNCHANGED tick

\* The assignment to the variable of the loop, one field at a time in any order.
WriteField(s, f) ==
  /\ Alive /\ pc[s] = "loop" /\ f \in unwritten[s]
  /\ cell' = [cell EXCEPT ![var[s]] = [@ EXCEPT ![f] = Head(todo[s])]]
  /\ unwritten' = [unwritten EXCEPT ![s] = @ \ {f}]
  /\ UNCHANGED <<fresh, loops, pc, todo, var, tick, accepted, single, sent,
                 executing, answering, queue, results, queueClosed, resultsClosed, main>>

\* Mutant: the queue grows beyond its capacity instead of making the sender wait.
Submit_Unbounded(s) ==
  /\ Alive /\ pc[s] = "loop" /\ unwritten[s] = {} /\ ~queueClosed
  /\ queue' = Append(queue, var[s])
  /\ sent' = sent + 1
  /\ accepted' = accepted \cup {Head(todo[s])}
  /\ todo' = [todo EXCEPT ![s] = Tail(@)]
  /\ pc' = [pc EXCEPT ![s] = IF Len(todo[s]) = 1 THEN "idle" ELSE "loop"]
  /\ unwritten' = [unwritten EXCEPT ![s] = IF Len(todo[s]) = 1 THEN {} ELSE Field]
  /\ UNCHANGED <<fresh, cell, loops, var, tick, single, executing, answering, results,
                 queueClosed, resultsClosed, main>>

\* Submit: the send returns when the channel has room; the loop goes on.
Submit(s) ==
  /\ Alive /\ pc[s] = "loop" /\ unwritten[s] = {} /\ ~queueClosed
  /\ Len(queue) < QueueCap
  /\ queue' = Append(queue, var[s])
  /\ sent' = sent + 1
  /\ accepted' = accepted \cup {Head(todo[s])}
  /\ todo' = [todo EXCEPT ![s] = Tail(@)]
  /\ pc' = [pc EXCEPT ![s] = IF Len(todo[s]) = 1 THEN "idle" ELSE "loop"]
  /\ unwritten' = [unwritten EXCEPT ![s] = IF Len(todo[s]) = 1 THEN {} ELSE Field]
  /\ UNCHANGED <<fresh, cell, loops, var, tick, single, executing, answering, results,
                 queueClosed, resultsClosed, main>>

\* A send on the closed queue, also one that was waiting, panics; gin recovers
\* and the request of a handler has failed.
SubmitPanics(h) ==
  /\ Alive /\ pc[h] = "loop" /\ unwritten[h] = {} /\ queueClosed
  /\ pc' = [pc EXCEPT ![h] = "idle"]
  /\ todo' = [todo EXCEPT ![h] = <<>>]
  /\ UNCHANGED <<fresh, cell, loops, var, unwritten, tick, accepted, single, sent,
                 executing, answering, queue, results, queueClosed, resultsClosed, main>>

-----------------------------------------------------------------------------
(* The workers *)

\* Receive a pointer and read the id of the command for the response.
Take(w) ==
  /\ Alive /\ worker[w].at = "idle" /\ queue # <<>>
  /\ queue' = Tail(queue)
  /\ worker' = [worker EXCEPT ![w] = [at |-> "read", ptr |-> Head(queue),
                                      id |-> cell[Head(queue)]["id"], work |-> None]]
  /\ UNCHANGED <<submitting, runs, answering, results, queueClosed, resultsClosed, main>>

\* Read what to do, through the pointer, and do it.
Run(w) ==
  /\ Alive /\ worker[w].at = "read"
  /\ LET work == cell[worker[w].ptr]["work"] IN
       /\ worker' = [worker EXCEPT ![w] = [@ EXCEPT !.at = "running", !.work = work]]
       /\ runs' = [runs EXCEPT ![work] = @ + 1]
  /\ UNCHANGED <<submitting, answering, queue, results, queueClosed, resultsClosed, main>>

\* Mutant: a command that failed is tried again.
Finish_Retry(w) ==
  /\ Alive /\ worker[w].at = "running" /\ worker[w].work \notin Hanging
  /\ \E at \in {"read", "sending"} : worker' = [worker EXCEPT ![w] = [@ EXCEPT !.at = at]]
  /\ UNCHANGED <<submitting, runs, answering, queue, results, queueClosed, resultsClosed, main>>

\* cmd.Run returns: the shell has ended, by itself or killed at its timeout, and
\* nobody keeps its output open.
Finish(w) ==
  /\ Alive /\ worker[w].at = "running" /\ worker[w].work \notin Hanging
  /\ worker' = [worker EXCEPT ![w] = [@ EXCEPT !.at = "sending"]]
  /\ UNCHANGED <<submitting, runs, answering, queue, results, queueClosed, resultsClosed, main>>

\* Mutant: a worker that finds the channel of results full drops its response.
Deliver_DropWhenFull(w) ==
  /\ Alive /\ worker[w].at = "sending"
  /\ results' = IF Len(results) < ResultCap
                THEN Append(results, [id |-> worker[w].id, work |-> worker[w].work])
                ELSE results
  /\ worker' = [worker EXCEPT ![w] = Idle]
  /\ UNCHANGED <<submitting, runs, answering, queue, queueClosed, resultsClosed, main>>

\* Send the response; waits while the channel is full.
Deliver(w) ==
  /\ Alive /\ worker[w].at = "sending" /\ Len(results) < ResultCap
  /\ results' = Append(results, [id |-> worker[w].id, work |-> worker[w].work])
  /\ worker' = [worker EXCEPT ![w] = Idle]
  /\ UNCHANGED <<submitting, runs, answering, queue, queueClosed, resultsClosed, main>>

\* The range over the queue ends once it is closed and empty.
WorkerExit(w) ==
  /\ Alive /\ worker[w].at = "idle" /\ queueClosed /\ queue = <<>>
  /\ worker' = [worker EXCEPT ![w] = [@ EXCEPT !.at = "done"]]
  /\ UNCHANGED <<submitting, runs, answering, queue, results, queueClosed, resultsClosed, main>>

-----------------------------------------------------------------------------
(* Receiving the results *)

\* Mutant: the goroutine returns when a report has failed.
Receive_UntilFailure ==
  /\ Alive /\ reporter = <<>> /\ results # <<>> /\ fails = 0
  /\ reporter' = <<Head(results)>>
  /\ results' = Tail(results)
  /\ taken' = taken + 1
  /\ UNCHANGED <<polls, fails, fate, submitting, executing, queue, queueClosed,
                 resultsClosed, main>>

\* The goroutine of main ranges over Results.
Receive ==
  /\ Alive /\ reporter = <<>> /\ results # <<>>
  /\ reporter' = <<Head(results)>>
  /\ results' = Tail(results)
  /\ taken' = taken + 1
  /\ UNCHANGED <<polls, fails, fate, submitting, executing, queue, queueClosed,
                 resultsClosed, main>>

\* ReportCommandResult succeeds.
Report ==
  /\ Alive /\ reporter # <<>>
  /\ fate' = [fate EXCEPT ![Head(reporter).id] = "reported"]
  /\ reporter' = <<>>
  /\ UNCHANGED <<polls, fails, taken, submitting, executing, queue, results,
                 queueClosed, resultsClosed, main>>

\* It fails after its retries: the failure is logged and the response is gone.
ReportFails ==
  /\ Alive /\ reporter # <<>> /\ fails < MaxFails
  /\ fails' = fails + 1
  /\ fate' = [fate EXCEPT ![Head(reporter).id] = "failed"]
  /\ reporter' = <<>>
  /\ UNCHANGED <<polls, taken, submitting, executing, queue, results,
                 queueClosed, resultsClosed, main>>

\* GetCommandStatus of command c receives a response from the same channel; one of
\* another command is dropped.
GetCommandStatus(c) ==
  /\ Alive /\ results # <<>> /\ polls < MaxPolls
  /\ polls' = polls + 1
  /\ results' = Tail(results)
  /\ taken' = taken + 1
  /\ fate' = [fate EXCEPT ![Head(results).id] =
                IF Head(results).id = c THEN "answered" ELSE "dropped"]
  /\ UNCHANGED <<reporter, fails, submitting, executing, queue, queueClosed,
                 resultsClosed, main>>

-----------------------------------------------------------------------------
(* The shutdown of main *)

\* A signal: HeartbeatService.Stop stops the ticker and closes stopCh.
Signal ==
  /\ main = "running" /\ main' = "stopping"
  /\ UNCHANGED <<submitting, executing, answering, queue, results, queueClosed, resultsClosed>>

\* The loop of the heartbeat sees stopCh closed; a pending tick may come first.
HeartbeatExit ==
  /\ main = "stopping" /\ pc[Heartbeat] = "idle"
  /\ pc' = [pc EXCEPT ![Heartbeat] = "gone"]
  /\ UNCHANGED <<fresh, cell, loops, todo, var, unwritten, tick, accepted, single, sent,
                 executing, answering, queue, results, queueClosed, resultsClosed, main>>

\* Mutant: the executor is stopped without waiting for the heartbeat.
CloseQueue_AtOnce ==
  /\ main = "stopping"
  /\ main' = "draining" /\ queueClosed' = TRUE
  /\ UNCHANGED <<submitting, executing, answering, queue, results, resultsClosed>>

\* Mutant: CommandExecutor.Stop does not close the queue.
CloseQueue_LeaveOpen ==
  /\ main = "stopping" /\ pc[Heartbeat] = "gone"
  /\ main' = "draining"
  /\ UNCHANGED <<submitting, executing, answering, queue, results, queueClosed, resultsClosed>>

\* The heartbeat goroutine is awaited; then CommandExecutor.Stop closes the queue.
CloseQueue ==
  /\ main = "stopping" /\ pc[Heartbeat] = "gone"
  /\ main' = "draining" /\ queueClosed' = TRUE
  /\ UNCHANGED <<submitting, executing, answering, queue, results, resultsClosed>>

\* Its workers are awaited; then it closes the channel of results.
CloseResults ==
  /\ main = "draining" /\ \A w \in Workers : worker[w].at = "done"
  /\ main' = "closed" /\ resultsClosed' = TRUE
  /\ UNCHANGED <<submitting, executing, answering, queue, results, queueClosed>>

\* main returns, and the process ends whatever its other goroutines do.
Exit ==
  /\ main = "closed" /\ main' = "exited"
  /\ UNCHANGED <<submitting, executing, answering, queue, results, queueClosed, resultsClosed>>

Exited == main = "exited" /\ UNCHANGED vars

-----------------------------------------------------------------------------
Next ==
  \/ Tick \/ Beat \/ EmptyBeat \/ HeartbeatExit
  \/ \E h \in Handlers : HandleHeartbeat(h) \/ SubmitCommand(h) \/ SubmitPanics(h)
  \/ \E s \in Submitters : Submit(s) \/ (\E f \in Field : WriteField(s, f))
  \/ \E w \in Workers : Take(w) \/ Run(w) \/ Finish(w) \/ Deliver(w) \/ WorkerExit(w)
  \/ Receive \/ Report \/ ReportFails
  \/ \E c \in Commands : GetCommandStatus(c)
  \/ Signal \/ CloseQueue \/ CloseResults \/ Exit \/ Exited

Spec == Init /\ [][Next]_vars

\* Every goroutine that can go on does; signals, requests and ticks need not come.
Fairness ==
  /\ WF_vars(HeartbeatExit) /\ WF_vars(Receive) /\ WF_vars(Report \/ ReportFails)
  /\ WF_vars(CloseQueue) /\ WF_vars(CloseResults) /\ WF_vars(Exit)
  /\ \A s \in Submitters : WF_vars(Submit(s) \/ \E f \in Field : WriteField(s, f))
  /\ \A w \in Workers : WF_vars(Take(w) \/ Run(w) \/ Finish(w) \/ Deliver(w) \/ WorkerExit(w))

FairSpec == Spec /\ Fairness

-----------------------------------------------------------------------------
(* Properties *)

\* Every variable keeps its type: what the channels, the variables pointed to, the
\* workers and the submitters hold (executor.go:17 to 23).
TypeOK ==
  /\ fresh \subseteq Commands /\ accepted \subseteq Commands /\ single \subseteq Commands
  /\ cell \in [Loops -> Cell] /\ loops \in Nat /\ loops <= MaxLoops
  /\ pc \in [Submitters -> {"idle", "loop", "gone"}]
  /\ todo \in [Submitters -> Seq(Commands)]
  /\ var \in [Submitters -> Pointers]
  /\ unwritten \in [Submitters -> SUBSET Field]
  /\ queue \in Seq(Loops) /\ results \in Seq(Response)
  /\ Len(queue) <= QueueCap /\ Len(results) <= ResultCap
  /\ worker \in [Workers -> Worker]
  /\ queueClosed \in BOOLEAN /\ resultsClosed \in BOOLEAN /\ tick \in BOOLEAN
  /\ main \in {"running", "stopping", "draining", "closed", "exited"}
  /\ reporter \in Seq(Response) /\ Len(reporter) <= 1
  /\ polls \in Nat /\ fails \in Nat /\ sent \in Nat /\ taken \in Nat
  /\ runs \in [Commands -> Nat]
  /\ fate \in [Commands -> Fate]

\* Every pointer that Submit accepted is in exactly one place, or its response has
\* been received: neither channel nor worker loses or doubles one (executor.go:52 to 66).
PointersAccountedFor == sent = Len(queue) + Cardinality(Busy) + Len(results) + taken

\* A command that is the only one of its loop (of SubmitCommand, or of an answer to a
\* heartbeat), so that nobody overwrites its variable, is run at most once, a response
\* under its id is the response of that run, and an accepted one has been run when the
\* channel of results closes (agent_handler.go:65 to 82, executor.go:45 to 50).
SingleRunsOnce ==
  \A c \in single :
    /\ runs[c] <= 1
    /\ \A i \in DOMAIN results : results[i].id = c => results[i].work = c
    /\ resultsClosed /\ c \in accepted => runs[c] = 1

\* The shutdown closes no channel that is still in use: a send of the heartbeat or of
\* a worker on a closed channel would end the process, and a pointer left in the queue
\* would be lost (main.go:118 to 119, executor.go:45 to 50).
ClosedChannelsAreIdle ==
  /\ queueClosed => pc[Heartbeat] = "gone"
  /\ resultsClosed => Busy = {} /\ queue = <<>>

\* A command that is the only one of its loop, once accepted, is settled one way or the
\* other, or the process ends: full channels delay it and never block it for good
\* (executor.go:53 and 135).  Of several commands in one answer this is not so: one may
\* take the place of another (AcceptedIsRun).
AcceptedIsSettled ==
  \A c \in Commands : (c \in single \cap accepted) ~> (fate[c] # "none" \/ main = "exited")

\* After a signal the process ends: main waits for a heartbeat that may wait for the
\* queue, and for workers that may wait for the channel of results (main.go:118 to 120).
StopEnds == (main = "stopping") ~> (main = "exited")

Quiet ==
  /\ queue = <<>> /\ results = <<>> /\ reporter = <<>> /\ Busy = {}
  /\ \A s \in Submitters : pc[s] # "loop"

\* Doc (.trae/rules/cloud.md:120): the agent takes the commands it receives into its
\* queue and carries them out.  Each accepted command has been run once all is quiet.
AcceptedIsRun == Quiet => \A c \in accepted : runs[c] = 1

=============================================================================
