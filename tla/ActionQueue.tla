---------------------------- MODULE ActionQueue ----------------------------
(***************************************************************************)
(* ActionQueue (ActionQueue.py) of the Python agent and the listener that  *)
(* feeds it (CommandsEventListener.py): the commands the server sends, the *)
(* thread that takes them from a PriorityQueue or a queue of background    *)
(* commands, executes them itself or in a pool, retries and cancels them,  *)
(* and tells the reports (CommandReports) the status of each.              *)
(*                                                                         *)
(* The items of the PriorityQueue are pairs (priority, command), and a     *)
(* command is a dict: the comparison of two pairs of equal priority raises *)
(* TypeError in the middle of an operation of the heap.                    *)
(*                                                                         *)
(* External: heapq and ThreadPoolExecutor of Python, the scripts.  The     *)
(* recovery of components is disabled, its default.                        *)
(***************************************************************************)
EXTENDS Naturals, Sequences, FiniteSets, HeapQueue

CONSTANTS Tasks,       \* the commands the server sends, by taskId
          NoTask,
          Background,  \* those of type BACKGROUND_EXECUTION_COMMAND
          Retryable,   \* those with command_retry_enabled
          CancelIds,   \* those the server may ask to cancel
          PriorityMaps, \* what _get_command_priority may give the commands
          MaxAttempts, \* max_attempts: 10
          MaxConcurrent, \* MAX_CONCURRENT_ACTIONS: 5
          MaxBatch     \* bound on the commands and requests in one message

ASSUME QueueAssumption ==
  /\ NoTask \notin Tasks /\ Background \subseteq Tasks /\ Retryable \subseteq Tasks
  /\ CancelIds \subseteq Tasks
  /\ PriorityMaps \subseteq [Tasks \ Background -> Nat]
  /\ MaxAttempts \in Nat \ {0} /\ MaxConcurrent \in Nat /\ MaxBatch \in Nat

VARIABLES parallel_execution, priority,   \* the configuration, the commands
          fresh,             \* the commands the server has not sent
          listener,          \* the message the listener is handling
          commandQueue, backgroundCommandQueue, stop_event, taskIdsToCancel,
          active_futures,
          main,              \* the thread of the ActionQueue
          job,               \* how far execute_command is with each command
          status,            \* the last status given to the reports
          asked,             \* whether the server has asked to cancel a command
          extra              \* attempts started after it had

config == <<parallel_execution, priority>>
queues == <<commandQueue, backgroundCommandQueue>>
history == <<asked, extra>>
vars == <<config, fresh, listener, queues, stop_event, taskIdsToCancel, active_futures,
          main, job, status, history>>

-----------------------------------------------------------------------------
Place == {"none", "begin", "reported", "check", "attempt", "running", "delay",
          "completed", "failed", "done"}
Waiting == {"none", "begin", "reported"}   \* what is asked then will be forgotten
Executing == {"check", "attempt", "running", "delay"}
Status == {"none", "IN_PROGRESS", "COMPLETED", "FAILED"}
Final == {"COMPLETED", "FAILED"}

Init ==
  /\ parallel_execution \in BOOLEAN
  /\ priority \in PriorityMaps
  /\ fresh = Tasks
  /\ listener = [cancel |-> {}, put |-> <<>>]
  /\ commandQueue = <<>> /\ backgroundCommandQueue = <<>>
  /\ stop_event = FALSE /\ taskIdsToCancel = {} /\ active_futures = {}
  /\ main = [at |-> "background", task |-> NoTask]
  /\ job = [t \in Tasks |-> [at |-> "none", attempt |-> 0]]
  /\ status = [t \in Tasks |-> "none"]
  /\ asked = [t \in Tasks |-> "no"] /\ extra = [t \in Tasks |-> 0]

-----------------------------------------------------------------------------
(* The listener: on_event cancels, then puts, one command after the other *)

Batches == {b \in UNION {[1..n -> fresh] : n \in 0..MaxBatch} :
              \A i, j \in DOMAIN b : b[i] = b[j] => i = j}
Cancellable == CancelIds \ fresh   \* also again, and what is over

Receive ==
  /\ listener = [cancel |-> {}, put |-> <<>>]
  /\ \E batch \in Batches, cancels \in SUBSET Cancellable :
       /\ Len(batch) + Cardinality(cancels) \in 1..MaxBatch
       /\ listener' = [cancel |-> cancels, put |-> batch]
       /\ fresh' = fresh \ {batch[i] : i \in DOMAIN batch}
  /\ UNCHANGED <<config, queues, stop_event, taskIdsToCancel, active_futures, main,
                 job, status, history>>

\* The process is killed too, if there is one: it ends as any process may.
Cancel(t) ==
  /\ t \in listener.cancel
  /\ taskIdsToCancel' = taskIdsToCancel \cup {t}
  /\ listener' = [listener EXCEPT !.cancel = @ \ {t}]
  /\ asked' = [asked EXCEPT ![t] = IF job[t].at \in Executing THEN "executing"
                                   ELSE "otherwise"]
  /\ UNCHANGED <<config, fresh, queues, stop_event, active_futures, main, job,
                 status, extra>>

\* Mutant: the queue is first in, first out.
Put_Unsorted ==
  /\ listener.cancel = {} /\ listener.put # <<>>
  /\ LET t == Head(listener.put)
         To(queue, own) == IF own THEN Append(queue, t) ELSE queue
     IN /\ commandQueue' = To(commandQueue, t \notin Background)
        /\ backgroundCommandQueue' = To(backgroundCommandQueue, t \in Background)
  /\ listener' = [listener EXCEPT !.put = Tail(@)]
  /\ UNCHANGED <<config, fresh, stop_event, taskIdsToCancel,
                 active_futures, main, job, status, history>>

\* put; when it raises the rest of the message is dropped.
Put ==
  /\ listener.cancel = {} /\ listener.put # <<>>
  /\ LET t == Head(listener.put)
         push == Push(priority, commandQueue, t)
     IN IF t \in Background
        THEN /\ backgroundCommandQueue' = Append(backgroundCommandQueue, t)
             /\ listener' = [listener EXCEPT !.put = Tail(@)]
             /\ UNCHANGED commandQueue
        ELSE /\ commandQueue' = push.heap
             /\ listener' = [listener EXCEPT !.put = IF push.raised THEN <<>> ELSE Tail(@)]
             /\ UNCHANGED backgroundCommandQueue
  /\ UNCHANGED <<config, fresh, stop_event, taskIdsToCancel, active_futures, main,
                 job, status, history>>

-----------------------------------------------------------------------------
(* The thread of the ActionQueue *)

OnlyMain == UNCHANGED <<config, fresh, listener, stop_event, taskIdsToCancel, status,
                        history>>
At(place) == [at |-> place, task |-> NoTask]

\* process_command in this thread; from is where it goes on afterwards.
Inline(t, from) ==
  /\ main' = [at |-> from, task |-> t]
  /\ job' = [job EXCEPT ![t].at = "begin"]
  /\ UNCHANGED active_futures

TakeBackground ==
  /\ main = At("background")
  /\ \/ /\ stop_event /\ main' = At("wait")
        /\ UNCHANGED <<backgroundCommandQueue, job, active_futures>>
     \/ /\ ~stop_event /\ backgroundCommandQueue # <<>>
        /\ Inline(Head(backgroundCommandQueue), "more background")
        /\ backgroundCommandQueue' = Tail(backgroundCommandQueue)
     \/ /\ ~stop_event /\ backgroundCommandQueue = <<>>
        /\ main' = At("queue") /\ UNCHANGED <<backgroundCommandQueue, job,
                                              active_futures>>
  /\ UNCHANGED commandQueue /\ OnlyMain

\* The loop over the background queue does not look at stop_event.
MoreBackground ==
  /\ main = At("more background")
  /\ \/ /\ backgroundCommandQueue # <<>>
        /\ Inline(Head(backgroundCommandQueue), "more background")
        /\ backgroundCommandQueue' = Tail(backgroundCommandQueue)
     \/ /\ backgroundCommandQueue = <<>>
        /\ main' = At("queue") /\ UNCHANGED <<backgroundCommandQueue, job,
                                              active_futures>>
  /\ UNCHANGED commandQueue /\ OnlyMain

\* A TypeError of the heap is swallowed, and so is the command taken.
TakeSerial ==
  /\ ~parallel_execution /\ main = At("queue")
  /\ \/ /\ commandQueue = <<>>   \* for EXECUTION_COMMAND_WAIT_TIME
        /\ main' = At("background") /\ UNCHANGED <<commandQueue, job, active_futures>>
     \/ /\ commandQueue # <<>>
        /\ commandQueue' = Pop(priority, commandQueue).heap
        /\ IF Pop(priority, commandQueue).raised
           THEN main' = At("background") /\ UNCHANGED <<job, active_futures>>
           ELSE Inline(Head(commandQueue), "background")
  /\ UNCHANGED backgroundCommandQueue /\ OnlyMain

\* Mutant: a command the pool has no room for is dropped.
TakeParallel_Drop ==
  /\ parallel_execution /\ main = At("queue") /\ ~stop_event /\ commandQueue # <<>>
  /\ commandQueue' = Pop(priority, commandQueue).heap
  /\ LET t == Head(commandQueue) IN
     IF t \in Retryable /\ Cardinality(active_futures) < MaxConcurrent
     THEN active_futures' = active_futures \cup {t} /\ job' = [job EXCEPT ![t].at = "begin"]
     ELSE UNCHANGED <<job, active_futures>>
  /\ UNCHANGED <<main, backgroundCommandQueue>> /\ OnlyMain

\* Mutant: only what may go to the pool is taken.
TakeParallel_OnlyPool ==
  /\ parallel_execution /\ main = At("queue")
  /\ LET pool == commandQueue # <<>> /\ Head(commandQueue) \in Retryable IN
     \/ /\ ~pool
        /\ main' = At("background") /\ UNCHANGED <<commandQueue, job, active_futures>>
     \/ /\ pool
        /\ commandQueue' = Pop(priority, commandQueue).heap
        /\ Inline(Head(commandQueue), "background")
  /\ UNCHANGED backgroundCommandQueue /\ OnlyMain

TakeParallel ==
  /\ parallel_execution /\ main = At("queue")
  /\ \/ /\ stop_event \/ commandQueue = <<>>
        /\ main' = At("background") /\ UNCHANGED <<commandQueue, job, active_futures>>
     \/ /\ ~stop_event /\ commandQueue # <<>>
        /\ commandQueue' = Pop(priority, commandQueue).heap
        /\ LET t == Head(commandQueue) IN
           IF Pop(priority, commandQueue).raised
           THEN main' = At("background") /\ UNCHANGED <<job, active_futures>>
           ELSE IF t \in Retryable /\ Cardinality(active_futures) < MaxConcurrent
           THEN /\ active_futures' = active_futures \cup {t}
                /\ job' = [job EXCEPT ![t].at = "begin"]
                /\ UNCHANGED main
           ELSE Inline(t, "background")
  /\ UNCHANGED backgroundCommandQueue /\ OnlyMain

\* The end of run: wait for the futures, at most 30 seconds.
Finish ==
  /\ main = At("wait") /\ main' = At("stopped")
  /\ UNCHANGED <<queues, job, active_futures>> /\ OnlyMain

\* Some thread sets stop_event and interrupts the wait for a command.
Stop ==
  /\ ~stop_event /\ stop_event' = TRUE
  /\ UNCHANGED <<config, fresh, listener, queues, taskIdsToCancel, active_futures, main,
                 job, status, history>>

-----------------------------------------------------------------------------
(* execute_command, in the thread of the ActionQueue or in the pool *)

Goes(t, from, to) == /\ job[t].at = from
                     /\ job' = [job EXCEPT ![t].at = to]
OnlyJob == UNCHANGED <<config, fresh, listener, queues, stop_event>>

\* process_command returns: to the loop, or the future is done.
End(t) ==
  /\ job' = [job EXCEPT ![t].at = "done"]
  /\ IF main.task = t THEN main' = At(main.at) /\ UNCHANGED active_futures
                      ELSE active_futures' = active_futures \ {t} /\ UNCHANGED main

Begin(t) ==
  /\ Goes(t, "begin", "reported")
  /\ status' = [status EXCEPT ![t] = "IN_PROGRESS"]
  /\ OnlyJob /\ UNCHANGED <<taskIdsToCancel, active_futures, main, history>>

\* What has been asked for so far is forgotten.
Discard(t) ==
  /\ Goes(t, "reported", "check")
  /\ taskIdsToCancel' = taskIdsToCancel \ {t}
  /\ OnlyJob /\ UNCHANGED <<active_futures, main, status, history>>

Cancelled(t) == stop_event \/ t \in taskIdsToCancel

\* Mutant: cancelEvent is taken for the command's own.
GiveUp_AnyCancel(t) ==
  /\ job[t].at \in {"check", "delay"} /\ (stop_event \/ taskIdsToCancel # {})
  /\ taskIdsToCancel' = taskIdsToCancel \ {t}
  /\ End(t)
  /\ OnlyJob /\ UNCHANGED <<status, history>>

\* Mutant: CommandCancelled is not caught and ends the thread.
GiveUp_Uncaught(t) ==
  /\ job[t].at \in {"check", "delay"} /\ Cancelled(t)
  /\ taskIdsToCancel' = taskIdsToCancel \ {t}
  /\ job' = [job EXCEPT ![t].at = "done"]
  /\ OnlyJob /\ UNCHANGED <<active_futures, main, status, history>>

\* CommandCancelled: no report follows.
GiveUp(t) ==
  /\ job[t].at \in {"check", "delay"} /\ Cancelled(t)
  /\ taskIdsToCancel' = taskIdsToCancel \ {t}
  /\ End(t)
  /\ OnlyJob /\ UNCHANGED <<status, history>>

\* Mutant: the requests to cancel are forgotten at each attempt.
Check_Forget(t) ==
  /\ job[t].at = "check"
  /\ taskIdsToCancel' = taskIdsToCancel \ {t}
  /\ job' = [job EXCEPT ![t] = [at |-> "attempt", attempt |-> @.attempt + 1]]
  /\ OnlyJob /\ UNCHANGED <<active_futures, main, status, history>>

\* The next attempt, or max_retry_duration is over.
Check(t) ==
  /\ job[t].at = "check" /\ ~Cancelled(t)
  /\ \/ job' = [job EXCEPT ![t] = [at |-> "attempt", attempt |-> @.attempt + 1]]
     \/ job[t].attempt > 0 /\ job' = [job EXCEPT ![t].at = "failed"]
  /\ OnlyJob /\ UNCHANGED <<taskIdsToCancel, active_futures, main, status, history>>

\* runCommand starts a process, or fails before that.  It does not wait for one in
\* the background: what that one calls at its end raises before it reports anything,
\* since it asks for the reason of a cancellation with a method that does not exist.
Launch(t) ==
  /\ Goes(t, "attempt", "running")
  /\ extra' = [extra EXCEPT ![t] = @ + (IF asked[t] = "executing" THEN 1 ELSE 0)]
  /\ OnlyJob /\ UNCHANGED <<taskIdsToCancel, active_futures, main, status, asked>>

Succeed(t) ==
  /\ Goes(t, "running", "completed")
  /\ OnlyJob /\ UNCHANGED <<taskIdsToCancel, active_futures, main, status, history>>

\* Mutant: the number of attempts has no limit.
Fail_NoLimit(t) ==
  /\ job[t].at = "attempt" \/ (job[t].at = "running" /\ t \notin Background)
  /\ job' = [job EXCEPT ![t].at = "delay"]
  /\ OnlyJob /\ UNCHANGED <<taskIdsToCancel, active_futures, main, status, history>>

\* Mutant: each failed attempt is reported.
Fail_Report(t) ==
  /\ job[t].at = "attempt" \/ (job[t].at = "running" /\ t \notin Background)
  /\ status' = [status EXCEPT ![t] = "FAILED"]
  /\ job' = [job EXCEPT ![t].at = IF t \in Retryable /\ job[t].attempt < MaxAttempts
                                  THEN "delay" ELSE "failed"]
  /\ OnlyJob /\ UNCHANGED <<taskIdsToCancel, active_futures, main, history>>

\* The script fails, is killed, or does not start.
Fail(t) ==
  /\ job[t].at = "attempt" \/ (job[t].at = "running" /\ t \notin Background)
  /\ job' = [job EXCEPT ![t].at = IF t \in Retryable \ Background /\ job[t].attempt < MaxAttempts
                                  THEN "delay" ELSE "failed"]
  /\ OnlyJob /\ UNCHANGED <<taskIdsToCancel, active_futures, main, status, history>>

Delay(t) ==
  /\ Goes(t, "delay", "check") /\ ~Cancelled(t)
  /\ OnlyJob /\ UNCHANGED <<taskIdsToCancel, active_futures, main, status, history>>

\* _determine_command_status; a background command that was started is IN_PROGRESS.
FinalStatus(t) == CASE t \in Background -> "IN_PROGRESS"
                    [] t \notin Background /\ job[t].at = "completed" -> "COMPLETED"
                    [] t \notin Background /\ job[t].at = "failed" -> "FAILED"

\* _report_final_status
Report(t) ==
  /\ job[t].at \in {"completed", "failed"}
  /\ status' = [status EXCEPT ![t] = FinalStatus(t)]
  /\ End(t)
  /\ OnlyJob /\ UNCHANGED <<taskIdsToCancel, history>>

-----------------------------------------------------------------------------
Listener == Put \/ \E t \in Tasks : Cancel(t)
MainStep == TakeBackground \/ MoreBackground \/ TakeSerial \/ TakeParallel \/ Finish
JobStep(t) == \/ Begin(t) \/ Discard(t) \/ GiveUp(t) \/ Check(t)
              \/ Launch(t) \/ Succeed(t) \/ Fail(t) \/ Delay(t) \/ Report(t)

Next == \/ Receive \/ Listener \/ MainStep \/ Stop
        \/ \E t \in Tasks : JobStep(t)

Spec == Init /\ [][Next]_vars
FairSpec == /\ Spec /\ WF_vars(Listener) /\ WF_vars(MainStep)
            /\ \A t \in Tasks : WF_vars(JobStep(t))

-----------------------------------------------------------------------------
(* Properties *)

TypeOK ==
  /\ parallel_execution \in BOOLEAN /\ priority \in PriorityMaps
  /\ fresh \subseteq Tasks
  /\ listener \in [cancel : SUBSET Tasks, put : Seq(Tasks)]
  /\ commandQueue \in Seq(Tasks) /\ backgroundCommandQueue \in Seq(Background)
  /\ stop_event \in BOOLEAN /\ taskIdsToCancel \subseteq Tasks
  /\ active_futures \subseteq Retryable /\ Cardinality(active_futures) <= MaxConcurrent
  /\ main \in [at : {"background", "more background", "queue", "wait", "stopped"},
              task : Tasks \cup {NoTask}]
  /\ job \in [Tasks -> [at : Place, attempt : 0..MaxAttempts]]
  /\ status \in [Tasks -> Status]
  /\ asked \in [Tasks -> {"no", "executing", "otherwise"}] /\ extra \in [Tasks -> Nat]

Elements(s) == {s[i] : i \in DOMAIN s}
Known(t) == \/ t \in fresh \cup Elements(listener.put) \cup Elements(commandQueue)
            \/ t \in Elements(backgroundCommandQueue) \/ job[t].at # "none"

\* A command the server sent is waiting somewhere or is executed: none is lost.
NothingLost == \A t \in Tasks : Known(t)

\* None is lost when no two commands of the PriorityQueue have the same priority.
Distinct == \A s, t \in Tasks \ Background : s # t => priority[s] # priority[t]
NothingLostWithoutTies == Distinct => NothingLost

\* ... and then the one that is taken comes before all that stay.
TakesTheFirst == [][ Distinct /\ Len(commandQueue') < Len(commandQueue) =>
   \A t \in Elements(commandQueue') : priority[Head(commandQueue)] < priority[t] ]_vars

\* A command that was started ends without a final report only if the server
\* asked to cancel it, or the agent stops: not because another was cancelled.
EndedAsAsked == \A t \in Tasks \ Background :
  job[t].at = "done" => \/ status[t] \in Final
                        \/ asked[t] # "no" \/ stop_event

\* A request to cancel that comes after execute_command has discarded the earlier
\* ones is not overlooked: at most the attempt that is about to start is still made.
CancelCut == \A t \in Tasks : extra[t] <= 1

\* A request to cancel ends no command but its own, and does end that one if it
\* comes after line 282 of ActionQueue.py; one that comes before, while the command
\* is queued or has just been reported IN_PROGRESS, is forgotten there.
CancelsItsOwn == EndedAsAsked /\ CancelCut

\* The final status of a command is not followed by another.
FinalIsLast == [][ \A t \in Tasks \ Background :
                     status[t] \in Final => status'[t] = status[t] ]_vars

\* The thread takes what is queued, unless it stops, or commands of one priority
\* are in its way: one that the pool has no room for is executed in the thread.
QueuedIsStarted == \A t \in Tasks :
  (t \in Elements(commandQueue) \cup Elements(backgroundCommandQueue)) ~>
     (job[t].at # "none" \/ stop_event \/ ~Distinct)

\* The thread ends when it is told to, whatever it waits for or executes.
StopEnds == stop_event ~> main = At("stopped")

=============================================================================
