--------------------------- MODULE CommandReports ---------------------------
(***************************************************************************)
(* The reports of the Python agent to the server: CommandStatusManager     *)
(* (CommandStatusDict.py), which keeps the last status of each command and *)
(* the tasks whose status is to be sent, and CommandStatusReporter, whose  *)
(* thread sends them; a call of shutdown sends what is left in a thread of *)
(* its own.  current_state, send_queue and acknowledged_commands change    *)
(* under status_lock, so each method that takes it is one action; reports  *)
(* are sent without the lock.                                              *)
(*                                                                         *)
(* The answers of the server change nothing here: the handlers that should *)
(* acknowledge or requeue a report take no argument, ServerResponses-      *)
(* Listener calls them with two, and swallows the TypeError.  What counts  *)
(* as acknowledged is what was taken to be sent.                           *)
(*                                                                         *)
(* External: the server, and the connection, of which only what these      *)
(* classes see of HeartbeatThread is here: register and unregister.        *)
(***************************************************************************)
EXTENDS Naturals, SequencesExt

CONSTANTS Tasks,
          AutoTasks,   \* the tasks of type AUTO_EXECUTION_COMMAND
          MaxHistory,  \* MAX_REPORT_HISTORY, 1000
          MaxFaults    \* bound on the connections lost and the reports refused

ASSUME ReportsAssumption == AutoTasks \subseteq Tasks /\ MaxHistory \in Nat \ {0}
                            /\ MaxFaults \in Nat

VARIABLES
  is_registered,   \* the manager's own copy, of the time of its construction
  report_ongoing_tasks,
  current_state,   \* the last status the executor gave each task
  send_queue, acknowledged_commands,
  thread,          \* the two that send reports
  connection,      \* of HeartbeatThread; the agent is registered unless "none"
  inflight,        \* messages sent on it and not yet with the server
  seen,            \* the last status the server has seen of each task
  learned,         \* tasks whose end it has seen
  lost,            \* tasks whose last report was lost or refused
  faults

state == <<current_state, send_queue, acknowledged_commands>>
config == <<is_registered, report_ongoing_tasks>>
vars == <<config, state, thread, connection, inflight, seen, learned, lost, faults>>

Senders == {"reporter", "shutdown"}
Status == {"none", "IN_PROGRESS", "final"}
Report == [task : Tasks, status : Status]
Idle == [at |-> "idle", reports |-> <<>>]

\* InitializerModule constructs the manager before it registers, with FALSE, and
\* then nothing is ever sent; TRUE is what the methods are written for.
Init ==
  /\ is_registered \in BOOLEAN /\ report_ongoing_tasks \in BOOLEAN
  /\ current_state = [t \in Tasks |-> "none"]
  /\ send_queue = <<>> /\ acknowledged_commands = <<>>
  /\ thread = [p \in Senders |-> IF p = "reporter" THEN Idle ELSE [Idle EXCEPT !.at = "none"]]
  /\ connection = "none" /\ inflight = <<>>
  /\ seen = [t \in Tasks |-> "none"] /\ learned = {} /\ lost = {} /\ faults = 0

-----------------------------------------------------------------------------
\* The tasks whose end the reports tell.
Ends(reports) == {r.task : r \in {q \in Range(reports) : q.status = "final"}}
Stopping == thread["shutdown"].at # "none"

\* The elements of s that are in S, in their order.
Kept(s, S) ==
  LET kept[i \in 0..Len(s)] ==
        IF i = 0 THEN <<>>
        ELSE IF s[i] \in S THEN Append(kept[i - 1], s[i]) ELSE kept[i - 1]
  IN kept[Len(s)]

\* queue_report_sending, of the tasks of some reports in turn: it refuses those
\* that count as acknowledged.
QueueAll(queue, reports) ==
  queue \o Kept([i \in DOMAIN reports |-> reports[i].task],
                {t \in Tasks : current_state[t] # "none"} \ Range(acknowledged_commands))

\* update_command_status: the executor first tells IN_PROGRESS, then the end.
Update(t) ==
  /\ current_state[t] # "final"
  /\ LET s == IF current_state[t] = "none" THEN "IN_PROGRESS" ELSE "final"
         rest == RemoveFirst(send_queue, t)
     IN /\ current_state' = [current_state EXCEPT ![t] = s]
        /\ acknowledged_commands' = RemoveFirst(acknowledged_commands, t)
        /\ send_queue' = IF (s = "final" \/ report_ongoing_tasks)
                             /\ ~Contains(acknowledged_commands', t)
                         THEN Append(rest, t) ELSE rest
  /\ UNCHANGED <<config, thread, connection, inflight, seen, learned, lost, faults>>

-----------------------------------------------------------------------------
(* The thread of the reporter, and the one that calls shutdown *)

\* Mutant: a single command is not worth a report.
Cycle_Few ==
  /\ thread["reporter"].at = "idle"
  /\ ~Stopping /\ connection # "none" /\ Len(send_queue) > 1
  /\ thread' = [thread EXCEPT !["reporter"].at = "report"]
  /\ UNCHANGED <<config, state, connection, inflight, seen, learned, lost, faults>>

\* _reporting_cycle, _should_report
Cycle ==
  /\ thread["reporter"].at = "idle"
  /\ ~Stopping /\ connection # "none" /\ send_queue # <<>>
  /\ thread' = [thread EXCEPT !["reporter"].at = "report"]
  /\ UNCHANGED <<config, state, connection, inflight, seen, learned, lost, faults>>

Shutdown ==
  /\ ~Stopping
  /\ thread' = [thread EXCEPT !["shutdown"].at = IF connection # "none" THEN "report" ELSE "idle"]
  /\ UNCHANGED <<config, state, connection, inflight, seen, learned, lost, faults>>

Due == Kept(send_queue, {t \in Tasks \ AutoTasks : current_state[t] # "none"})

\* Mutant: the history grows without limit.
Generate_Unbounded(p) ==
  /\ thread[p].at = "report"
  /\ LET reports == [i \in DOMAIN Due |-> [task |-> Due[i], status |-> current_state[Due[i]]]]
     IN thread' = [thread EXCEPT ![p] = IF reports = <<>> THEN Idle
                                        ELSE [at |-> "send", reports |-> reports]]
  /\ acknowledged_commands' = acknowledged_commands \o Due
  /\ send_queue' = <<>>
  /\ UNCHANGED <<config, current_state, connection, inflight, seen, learned, lost, faults>>

\* _generate_report: what is to be sent counts as acknowledged from now on, as
\* long as the history has room for it.
Generate(p) ==
  /\ thread[p].at = "report"
  /\ LET reports == [i \in DOMAIN Due |-> [task |-> Due[i], status |-> current_state[Due[i]]]]
         history == acknowledged_commands \o Due
         over == IF Len(history) > MaxHistory THEN Len(history) - MaxHistory ELSE 0
     IN /\ thread' = [thread EXCEPT ![p] = IF reports = <<>> THEN Idle
                                           ELSE [at |-> "send", reports |-> reports]]
        /\ acknowledged_commands' = SubSeq(history, over + 1, Len(history))
  /\ send_queue' = <<>>
  /\ UNCHANGED <<config, current_state, connection, inflight, seen, learned, lost, faults>>

\* Mutant: after a chunk the cycle is over.
Done_First(rest) == Idle

\* The next chunk, as long as there is one.
Done(rest) == IF rest = <<>> THEN Idle ELSE [at |-> "send", reports |-> rest]

\* Mutant: each chunk is sent by a thread of its own, in any order.
Send_Unordered(p) ==
  /\ thread[p].at = "send" /\ is_registered /\ connection = "open"
  /\ thread' = [thread EXCEPT ![p] = Idle]
  /\ \E i \in 0..Len(inflight) : inflight' = InsertAt(inflight, i + 1, thread[p].reports)
  /\ UNCHANGED <<config, state, connection, seen, learned, lost, faults>>

\* _send_report_chunk, of as many reports as fit.
Send(p) ==
  /\ thread[p].at = "send" /\ is_registered
  /\ \E n \in 1..Len(thread[p].reports) :
       LET chunk == SubSeq(thread[p].reports, 1, n)
           rest == SubSeq(thread[p].reports, n + 1, Len(thread[p].reports))
       IN /\ thread' = [thread EXCEPT ![p] = Done(rest)]
          /\ \/ /\ connection = "open" /\ inflight' = Append(inflight, chunk)
                /\ UNCHANGED <<send_queue, lost>>
             \/ /\ connection = "broken"     \* nothing tells the sender
                /\ lost' = lost \cup Ends(chunk)
                /\ UNCHANGED <<inflight, send_queue>>
             \/ /\ connection # "open"       \* ConnectionIsAlreadyClosed
                /\ send_queue' = QueueAll(send_queue, chunk)
                /\ lost' = lost \cup (Ends(chunk) \cap Range(acknowledged_commands))
                /\ UNCHANGED inflight
  /\ UNCHANGED <<config, current_state, acknowledged_commands, connection, seen, learned, faults>>

\* Another exception ends the cycle.
SendFails(p) ==
  /\ thread[p].at = "send" /\ is_registered /\ connection = "broken"
  /\ thread' = [thread EXCEPT ![p] = Idle]
  /\ lost' = lost \cup Ends(thread[p].reports)
  /\ UNCHANGED <<config, state, connection, inflight, seen, learned, faults>>

\* Each chunk is skipped, since the manager believes it is not registered.
Skip(p) ==
  /\ thread[p].at = "send" /\ ~is_registered
  /\ thread' = [thread EXCEPT ![p] = Idle]
  /\ lost' = lost \cup Ends(thread[p].reports)
  /\ UNCHANGED <<config, state, connection, inflight, seen, learned, faults>>

-----------------------------------------------------------------------------
(* The server and the connection *)

\* What it has seen after the reports of a message, one after the other.
Learned(chunk) ==
  LET after[i \in 0..Len(chunk)] ==
        IF i = 0 THEN seen ELSE [after[i - 1] EXCEPT ![chunk[i].task] = chunk[i].status]
  IN after[Len(chunk)]

\* The server takes the messages in their order, and may refuse one: the answer
\* finds a handler that cannot be called.
Serve ==
  /\ connection = "open" /\ inflight # <<>>
  /\ inflight' = Tail(inflight)
  /\ \/ /\ seen' = Learned(Head(inflight)) /\ learned' = learned \cup Ends(Head(inflight))
        /\ UNCHANGED <<lost, faults>>
     \/ /\ faults < MaxFaults /\ faults' = faults + 1
        /\ lost' = lost \cup Ends(Head(inflight)) /\ UNCHANGED <<seen, learned>>
  /\ UNCHANGED <<config, state, thread, connection>>

Break ==
  /\ connection = "open" /\ faults < MaxFaults
  /\ connection' = "broken" /\ faults' = faults + 1
  /\ inflight' = <<>>
  /\ lost' = lost \cup UNION {Ends(inflight[i]) : i \in DOMAIN inflight}
  /\ UNCHANGED <<config, state, thread, seen, learned>>

\* unregister of HeartbeatThread
Unregister ==
  /\ connection = "broken" /\ connection' = "none"
  /\ UNCHANGED <<config, state, thread, inflight, seen, learned, lost, faults>>

\* register sets is_registered, and then lets the other threads use the connection.
Register ==
  /\ connection = "none" /\ connection' = "hidden"
  /\ UNCHANGED <<config, state, thread, inflight, seen, learned, lost, faults>>
Expose ==
  /\ connection = "hidden" /\ connection' = "open"
  /\ UNCHANGED <<config, state, thread, inflight, seen, learned, lost, faults>>

-----------------------------------------------------------------------------
Reporting(p) == Generate(p) \/ Send(p) \/ SendFails(p) \/ Skip(p)
Heartbeats == Unregister \/ Register \/ Expose

Next == \/ \E t \in Tasks : Update(t)
        \/ Cycle \/ Shutdown \/ \E p \in Senders : Reporting(p)
        \/ Serve \/ Break \/ Heartbeats

Spec == Init /\ [][Next]_vars
FairSpec == /\ Spec /\ WF_vars(Cycle) /\ WF_vars(Serve) /\ WF_vars(Heartbeats)
            /\ \A p \in Senders : WF_vars(Reporting(p))

-----------------------------------------------------------------------------
(* Properties *)

TypeOK ==
  /\ is_registered \in BOOLEAN /\ report_ongoing_tasks \in BOOLEAN
  /\ current_state \in [Tasks -> Status] /\ send_queue \in Seq(Tasks)
  /\ acknowledged_commands \in Seq(Tasks) /\ Len(acknowledged_commands) <= MaxHistory
  /\ thread \in [Senders -> [at : {"none", "idle", "report", "send"}, reports : Seq(Report)]]
  /\ connection \in {"none", "hidden", "open", "broken"}
  /\ inflight \in Seq(Seq(Report))
  /\ seen \in [Tasks -> Status] /\ learned \subseteq Tasks /\ lost \subseteq Tasks
  /\ faults \in 0..MaxFaults

\* The end of a command is in the queue, in the hands of a thread that sends it,
\* on its way, or seen by the server, unless a lost connection or a refusal took
\* the report itself: none is overlooked between the queue, the chunks of two
\* threads, the history of what counts as acknowledged and the queue again.
FinalKept == \A t \in Tasks \ AutoTasks :
  current_state[t] = "final" =>
    \/ t \in Range(send_queue)
    \/ \E p \in Senders : t \in Ends(thread[p].reports)
    \/ \E i \in DOMAIN inflight : t \in Ends(inflight[i])
    \/ t \in learned \cup lost

\* What the server has seen of a task never goes back, as long as shutdown sends
\* no report of its own.
NeverBack == [][ \A t \in Tasks :
  seen[t] = "final" /\ seen'[t] # "final" => Stopping ]_vars

\* The server sees the end of each command: unless the manager believes it is not
\* registered, the agent stops, or the report itself is lost or refused.
ServerLearns == \A t \in Tasks \ AutoTasks :
  current_state[t] = "final" ~> t \in learned \cup lost \/ ~is_registered \/ Stopping

=============================================================================
