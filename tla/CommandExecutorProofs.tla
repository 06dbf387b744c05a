----------------------- MODULE CommandExecutorProofs -----------------------
(***************************************************************************)
(* Proofs about CommandExecutor, for any number of commands, handlers and  *)
(* workers and any capacity of the two channels.                           *)
(***************************************************************************)
EXTENDS CommandExecutor, FiniteSetTheorems, TLAPS

\* A submitter in its loop has a command left and a variable; a pointer with a worker
\* is a pointer to a variable.
LoopInv ==
  /\ \A s \in Submitters : pc[s] = "loop" => todo[s] # <<>> /\ var[s] \in Loops
  /\ \A w \in Busy : worker[w].ptr \in Loops

TypeInv == TypeOK /\ LoopInv

\* An answer of the server is a nonempty sequence of commands.
LEMMA BatchIsSequence ==
  ASSUME fresh \subseteq Commands, NEW b \in Batches
  PROVE  b \in Seq(Commands) /\ b # <<>>
<1>1. PICK n \in 1..MaxBatch : b \in [1..n -> fresh]
  BY DEF Batches
<1>2. n \in Nat /\ n >= 1
  BY <1>1, ExecutorAssumption
<1>3. b \in Seq(fresh) /\ Len(b) = n
  BY <1>1, <1>2
<1>4. b \in Seq(Commands)
  BY <1>3
<1> QED
  BY <1>2, <1>3, <1>4

LEMMA InitTyped == Init => TypeInv
<1> SUFFICES ASSUME Init PROVE TypeInv
  OBVIOUS
<1>1. Blank \in Cell
  BY DEF Blank, Cell, Value
<1>2. cell \in [Loops -> Cell]
  BY <1>1 DEF Init
<1>3. Idle \in Worker
  BY DEF Idle, Worker, Value, Pointers
<1>4. worker \in [Workers -> Worker]
  BY <1>3 DEF Init
<1>5. loops \in Nat /\ loops <= MaxLoops
  BY ExecutorAssumption DEF Init
<1>6. /\ Len(queue) <= QueueCap /\ Len(results) <= ResultCap /\ Len(reporter) <= 1
      /\ queue \in Seq(Loops) /\ results \in Seq(Response) /\ reporter \in Seq(Response)
  BY ExecutorAssumption DEF Init
<1>7. /\ todo \in [Submitters -> Seq(Commands)] /\ var \in [Submitters -> Pointers]
      /\ pc \in [Submitters -> {"idle", "loop", "gone"}]
      /\ unwritten \in [Submitters -> SUBSET Field]
  BY DEF Init, Pointers
<1>8. TypeOK
  BY <1>2, <1>4, <1>5, <1>6, <1>7 DEF Init, TypeOK, Fate
<1>9. LoopInv
  BY DEF Init, LoopInv, Busy, Idle
<1> QED
  BY <1>8, <1>9 DEF TypeInv

\* Entering a loop with a nonempty sequence of commands.
LEMMA EnterTyped ==
  ASSUME TypeInv, NEW s \in Submitters, NEW b \in Seq(Commands), b # <<>>, Enter(s, b),
         tick' \in BOOLEAN, single' \subseteq Commands
  PROVE  TypeInv'
<1> USE DEF TypeInv
<1>1. loops + 1 \in Loops /\ loops' \in Nat /\ loops' <= MaxLoops
  BY ExecutorAssumption DEF Enter, TypeOK, Loops
<1>2. /\ pc' \in [Submitters -> {"idle", "loop", "gone"}]
      /\ todo' \in [Submitters -> Seq(Commands)]
      /\ unwritten' \in [Submitters -> SUBSET Field]
  BY DEF Enter, TypeOK
<1>3. var' \in [Submitters -> Pointers]
  BY <1>1 DEF Enter, TypeOK, Pointers
<1>4. fresh' \subseteq Commands
  BY DEF Enter, TypeOK
<1>5. TypeOK'
  BY <1>1, <1>2, <1>3, <1>4 DEF Enter, TypeOK, executing, answering
<1>6. Busy' = Busy
  BY DEF Busy, Enter, executing
<1>7. LoopInv'
  BY <1>1, <1>6 DEF LoopInv, Enter, TypeOK, executing, Busy
<1> QED
  BY <1>5, <1>7

\* The turns of a loop.
LEMMA SubmitTyped ==
  ASSUME TypeInv, NEW s \in Submitters,
         Submit(s) \/ (\E f \in Field : WriteField(s, f))
  PROVE  TypeInv'
<1> USE DEF TypeInv
<1>1. ASSUME Submit(s) PROVE TypeInv'
  <2>1. todo[s] \in Seq(Commands) /\ todo[s] # <<>> /\ var[s] \in Loops
    BY <1>1 DEF Submit, TypeOK, LoopInv
  <2>2. Head(todo[s]) \in Commands /\ Tail(todo[s]) \in Seq(Commands)
    BY <2>1
  <2>3. queue' \in Seq(Loops) /\ Len(queue') <= QueueCap
    BY <1>1, <2>1, ExecutorAssumption DEF Submit, TypeOK
  <2>4. /\ todo' \in [Submitters -> Seq(Commands)]
        /\ pc' \in [Submitters -> {"idle", "loop", "gone"}]
        /\ unwritten' \in [Submitters -> SUBSET Field]
        /\ accepted' \subseteq Commands /\ sent' \in Nat
    BY <1>1, <2>2 DEF Submit, TypeOK
  <2>5. TypeOK'
    BY <1>1, <2>3, <2>4 DEF Submit, TypeOK, executing, answering
  <2>6. Len(todo[s]) # 1 => Tail(todo[s]) # <<>>
    <3>1. Len(todo[s]) \in Nat /\ Len(todo[s]) # 0
      BY <2>1
    <3>2. Len(Tail(todo[s])) = Len(todo[s]) - 1
      BY <2>1
    <3>6. Len(<<>>) = 0
      OBVIOUS
    <3> SUFFICES ASSUME Tail(todo[s]) = <<>> PROVE Len(todo[s]) = 1
      OBVIOUS
    <3>3. Len(Tail(todo[s])) = 0
      BY <3>6, Zenon
    <3> DEFINE n == Len(todo[s])
    <3>4. n \in Nat /\ 0 = n - 1
      BY <3>1, <3>2, <3>3
    <3> HIDE DEF n
    <3>5. n = 1
      BY <3>4
    <3> QED
      BY <3>5 DEF n
  <2>7. Busy' = Busy
    BY <1>1 DEF Submit, Busy, executing
  <2>8. LoopInv'
    BY <1>1, <2>6, <2>7 DEF LoopInv, Submit, TypeOK, executing, Busy
  <2> QED
    BY <2>5, <2>8
<1>2. ASSUME NEW f \in Field, WriteField(s, f) PROVE TypeInv'
  <2>1. todo[s] \in Seq(Commands) /\ todo[s] # <<>> /\ var[s] \in Loops
    BY <1>2 DEF WriteField, TypeOK, LoopInv
  <2>2. Head(todo[s]) \in Value
    BY <2>1 DEF Value
  <2> DEFINE new == [cell[var[s]] EXCEPT ![f] = Head(todo[s])]
  <2>3. cell[var[s]] \in Cell
    BY <2>1 DEF TypeOK
  <2>4. new \in Cell
    BY <2>2, <2>3 DEF Cell
  <2>5. cell' = [cell EXCEPT ![var[s]] = new]
    BY <1>2 DEF WriteField
  <2> HIDE DEF new
  <2>6. cell' \in [Loops -> Cell]
    BY <2>4, <2>5 DEF TypeOK
  <2>7. unwritten' \in [Submitters -> SUBSET Field]
    BY <1>2 DEF WriteField, TypeOK
  <2>8. TypeOK'
    BY <1>2, <2>6, <2>7 DEF WriteField, TypeOK, executing, answering
  <2>9. LoopInv'
    BY <1>2 DEF LoopInv, WriteField, TypeOK, executing, Busy
  <2> QED
    BY <2>8, <2>9
<1> QED
  BY <1>1, <1>2

\* The other steps of the goroutines that submit.
LEMMA SubmitterTyped ==
  ASSUME TypeInv,
         \/ Tick \/ Beat \/ EmptyBeat \/ HeartbeatExit
         \/ \E h \in Handlers : HandleHeartbeat(h) \/ SubmitCommand(h) \/ SubmitPanics(h)
  PROVE  TypeInv'
<1> USE DEF TypeInv
<1>0. fresh \subseteq Commands /\ tick \in BOOLEAN /\ single \subseteq Commands
  BY DEF TypeOK
<1>1. ASSUME Tick PROVE TypeInv'
  BY <1>1 DEF Tick, TypeOK, LoopInv, Busy, executing, answering
<1>2. ASSUME EmptyBeat PROVE TypeInv'
  BY <1>2 DEF EmptyBeat, TypeOK, LoopInv, Busy, executing, answering
<1>3. ASSUME HeartbeatExit PROVE TypeInv'
  <2>1. TypeOK'
    BY <1>3 DEF HeartbeatExit, TypeOK, executing, answering
  <2>2. LoopInv'
    BY <1>3 DEF HeartbeatExit, TypeOK, LoopInv, Busy, executing
  <2> QED
    BY <2>1, <2>2
<1>4. ASSUME Beat PROVE TypeInv'
  <2>1. PICK b \in Batches : tick' = FALSE /\ Enter(Heartbeat, b) /\ single' = Single(b)
    BY <1>4 DEF Beat
  <2>2. b \in Seq(Commands) /\ b # <<>> /\ single' \subseteq Commands
    BY <1>0, <2>1, BatchIsSequence DEF Single
  <2> QED
    BY <1>0, <2>1, <2>2, EnterTyped DEF Submitters
<1>5. ASSUME NEW h \in Handlers, HandleHeartbeat(h) PROVE TypeInv'
  <2>1. PICK b \in Batches : tick' = tick /\ Enter(h, b) /\ single' = Single(b)
    BY <1>5 DEF HandleHeartbeat
  <2>2. b \in Seq(Commands) /\ b # <<>> /\ single' \subseteq Commands
    BY <1>0, <2>1, BatchIsSequence DEF Single
  <2> QED
    BY <1>0, <2>1, <2>2, EnterTyped DEF Submitters
<1>6. ASSUME NEW h \in Handlers, SubmitCommand(h) PROVE TypeInv'
  <2>1. PICK c \in fresh : tick' = tick /\ Enter(h, <<c>>) /\ single' = single \cup {c}
    BY <1>6 DEF SubmitCommand, Single
  <2>2. <<c>> \in Seq(Commands) /\ <<c>> # <<>> /\ single' \subseteq Commands
    BY <1>0, <2>1
  <2> QED
    BY <1>0, <2>1, <2>2, EnterTyped DEF Submitters
<1>7. ASSUME NEW h \in Handlers, SubmitPanics(h) PROVE TypeInv'
  <2>1. <<>> \in Seq(Commands)
    OBVIOUS
  <2>2. TypeOK'
    BY <1>7, <2>1 DEF SubmitPanics, TypeOK, executing, answering
  <2>3. LoopInv'
    BY <1>7 DEF SubmitPanics, TypeOK, LoopInv, Busy, executing
  <2> QED
    BY <2>2, <2>3
<1> QED
  BY <1>1, <1>2, <1>3, <1>4, <1>5, <1>6, <1>7

\* The steps of a worker.
LEMMA WorkerTyped ==
  ASSUME TypeInv, NEW w \in Workers,
         Take(w) \/ Run(w) \/ Finish(w) \/ Deliver(w) \/ WorkerExit(w)
  PROVE  TypeInv'
<1> USE DEF TypeInv
<1>0. worker[w] \in Worker
  BY DEF TypeOK
<1>1. ASSUME Take(w) PROVE TypeInv'
  <2> DEFINE new == [at |-> "read", ptr |-> Head(queue), id |-> cell[Head(queue)]["id"],
                     work |-> None]
  <2>1. Head(queue) \in Loops /\ Tail(queue) \in Seq(Loops) /\ Len(Tail(queue)) <= QueueCap
    BY <1>1, ExecutorAssumption DEF Take, TypeOK
  <2>2. cell[Head(queue)] \in Cell
    BY <2>1 DEF TypeOK
  <2>3. new \in Worker /\ new.ptr \in Loops
    BY <2>1, <2>2 DEF Worker, Cell, Field, Value, Pointers
  <2>4. worker' = [worker EXCEPT ![w] = new]
    BY <1>1 DEF Take
  <2> HIDE DEF new
  <2>5. worker' \in [Workers -> Worker] /\ queue' = Tail(queue)
    BY <1>1, <2>3, <2>4 DEF TypeOK, Take
  <2>6. TypeOK'
    BY <1>1, <2>1, <2>5 DEF Take, TypeOK, submitting, answering
  <2>7. LoopInv'
    BY <1>1, <2>3, <2>4 DEF Take, TypeOK, LoopInv, Busy, submitting
  <2> QED
    BY <2>6, <2>7
<1>2. ASSUME Run(w) PROVE TypeInv'
  <2> DEFINE work == cell[worker[w].ptr]["work"]
             new == [worker[w] EXCEPT !.at = "running", !.work = work]
  <2>1. worker[w].ptr \in Loops
    BY <1>2 DEF Run, LoopInv, Busy
  <2>2. cell[worker[w].ptr] \in Cell
    BY <2>1 DEF TypeOK
  <2>3. work \in Value
    BY <2>2 DEF Cell, Field
  <2>4. new \in Worker /\ new.ptr = worker[w].ptr
    BY <1>0, <2>3 DEF Worker
  <2>5. worker' = [worker EXCEPT ![w] = new] /\ runs' = [runs EXCEPT ![work] = runs[work] + 1]
    BY <1>2 DEF Run
  <2> HIDE DEF new, work
  <2>6. worker' \in [Workers -> Worker]
    BY <2>4, <2>5 DEF TypeOK
  <2>7. runs' \in [Commands -> Nat]
    <3>1. runs \in [Commands -> Nat]
      BY DEF TypeOK
    <3>2. CASE work \in Commands
      BY <2>5, <3>1, <3>2
    <3>3. CASE work \notin Commands
      BY <2>5, <3>1, <3>3, Zenon
    <3> QED
      BY <3>2, <3>3
  <2>8. TypeOK'
    BY <1>2, <2>6, <2>7 DEF Run, TypeOK, submitting, answering
  <2>9. LoopInv'
    BY <1>2, <2>1, <2>4, <2>5 DEF Run, TypeOK, LoopInv, Busy, submitting
  <2> QED
    BY <2>8, <2>9
<1>3. ASSUME Finish(w) PROVE TypeInv'
  <2> DEFINE new == [worker[w] EXCEPT !.at = "sending"]
  <2>1. worker[w].ptr \in Loops
    BY <1>3 DEF Finish, LoopInv, Busy
  <2>2. new \in Worker /\ new.ptr = worker[w].ptr
    BY <1>0 DEF Worker
  <2>3. worker' = [worker EXCEPT ![w] = new]
    BY <1>3 DEF Finish
  <2> HIDE DEF new
  <2>4. TypeOK'
    BY <1>3, <2>2, <2>3 DEF Finish, TypeOK, submitting, answering
  <2>5. LoopInv'
    BY <1>3, <2>1, <2>2, <2>3 DEF Finish, TypeOK, LoopInv, Busy, submitting
  <2> QED
    BY <2>4, <2>5
<1>4. ASSUME Deliver(w) PROVE TypeInv'
  <2> DEFINE answer == [id |-> worker[w].id, work |-> worker[w].work]
  <2>1. answer \in Response
    BY <1>0 DEF Worker, Response
  <2>2. results' = Append(results, answer) /\ worker' = [worker EXCEPT ![w] = Idle]
    BY <1>4 DEF Deliver
  <2> HIDE DEF answer
  <2>3. results' \in Seq(Response) /\ Len(results') <= ResultCap
    BY <1>4, <2>1, <2>2, ExecutorAssumption DEF Deliver, TypeOK
  <2>4. Idle \in Worker
    BY DEF Idle, Worker, Value, Pointers
  <2>5. worker' \in [Workers -> Worker]
    BY <2>2, <2>4 DEF TypeOK
  <2>6. TypeOK'
    BY <1>4, <2>3, <2>5 DEF Deliver, TypeOK, submitting, answering
  <2>7. LoopInv'
    BY <1>4, <2>2 DEF Deliver, TypeOK, LoopInv, Busy, Idle, submitting
  <2> QED
    BY <2>6, <2>7
<1>5. ASSUME WorkerExit(w) PROVE TypeInv'
  <2> DEFINE new == [worker[w] EXCEPT !.at = "done"]
  <2>1. new \in Worker /\ new.at = "done"
    BY <1>0 DEF Worker
  <2>2. worker' = [worker EXCEPT ![w] = new]
    BY <1>5 DEF WorkerExit
  <2> HIDE DEF new
  <2>3. TypeOK'
    BY <1>5, <2>1, <2>2 DEF WorkerExit, TypeOK, submitting, answering
  <2>4. LoopInv'
    BY <1>5, <2>1, <2>2 DEF WorkerExit, TypeOK, LoopInv, Busy, submitting
  <2> QED
    BY <2>3, <2>4
<1> QED
  BY <1>1, <1>2, <1>3, <1>4, <1>5

\* Receiving results, and the shutdown.
LEMMA ReceiverTyped ==
  ASSUME TypeInv,
         \/ Receive \/ Report \/ ReportFails \/ (\E c \in Commands : GetCommandStatus(c))
         \/ Signal \/ CloseQueue \/ CloseResults \/ Exit
  PROVE  TypeInv'
<1> USE DEF TypeInv
<1>0. results # <<>> => /\ Head(results) \in Response /\ Tail(results) \in Seq(Response)
                        /\ Len(Tail(results)) <= ResultCap
  BY ExecutorAssumption DEF TypeOK
<1>1. ASSUME Receive PROVE TypeInv'
  <2>1. reporter' \in Seq(Response) /\ Len(reporter') <= 1
    BY <1>0, <1>1 DEF Receive
  <2>2. TypeOK'
    BY <1>0, <1>1, <2>1 DEF Receive, TypeOK, submitting, executing
  <2>3. LoopInv'
    BY <1>1 DEF Receive, LoopInv, Busy, submitting, executing
  <2> QED
    BY <2>2, <2>3
<1>2. ASSUME Report \/ ReportFails PROVE TypeInv'
  <2> DEFINE id == Head(reporter).id
  <2>0. PICK f \in Fate : fate' = [fate EXCEPT ![id] = f]
    BY <1>2 DEF Report, ReportFails, Fate
  <2> HIDE DEF id
  <2>1. fate' \in [Commands -> Fate]
    BY <2>0 DEF TypeOK
  <2>5. reporter' = <<>>
    BY <1>2 DEF Report, ReportFails
  <2>6. reporter' \in Seq(Response) /\ Len(reporter') <= 1
    BY <2>5
  <2>7. fails' \in Nat
    BY <1>2 DEF Report, ReportFails, TypeOK
  <2>4. fails' \in Nat /\ reporter' \in Seq(Response) /\ Len(reporter') <= 1
    BY <2>6, <2>7
  <2>2. TypeOK'
    BY <1>2, <2>1, <2>4 DEF Report, ReportFails, TypeOK, submitting, executing
  <2>3. LoopInv'
    BY <1>2 DEF Report, ReportFails, LoopInv, Busy, submitting, executing
  <2> QED
    BY <2>2, <2>3
<1>3. ASSUME NEW c \in Commands, GetCommandStatus(c) PROVE TypeInv'
  <2> DEFINE id == Head(results).id
  <2>0. PICK f \in Fate : fate' = [fate EXCEPT ![id] = f]
    BY <1>3 DEF GetCommandStatus, Fate
  <2> HIDE DEF id
  <2>1. fate' \in [Commands -> Fate]
    BY <2>0 DEF TypeOK
  <2>4. taken' \in Nat /\ polls' \in Nat
    BY <1>3 DEF GetCommandStatus, TypeOK
  <2>2. TypeOK'
    BY <1>0, <1>3, <2>1, <2>4 DEF GetCommandStatus, TypeOK, submitting, executing
  <2>3. LoopInv'
    BY <1>3 DEF GetCommandStatus, LoopInv, Busy, submitting, executing
  <2> QED
    BY <2>2, <2>3
<1>4. ASSUME Signal \/ CloseQueue \/ CloseResults \/ Exit PROVE TypeInv'
  <2>1. TypeOK'
    BY <1>4 DEF Signal, CloseQueue, CloseResults, Exit, TypeOK,
                submitting, executing, answering
  <2>2. LoopInv'
    BY <1>4 DEF Signal, CloseQueue, CloseResults, Exit, LoopInv, Busy, submitting, executing
  <2> QED
    BY <2>1, <2>2
<1> QED
  BY <1>1, <1>2, <1>3, <1>4

LEMMA StutterTyped == TypeInv /\ UNCHANGED vars => TypeInv'
<1> QED
  BY DEF TypeInv, TypeOK, LoopInv, Busy, vars, submitting, executing, answering

LEMMA TypeInvIsInvariant == Spec => []TypeInv
<1>1. TypeInv /\ [Next]_vars => TypeInv'
  BY SubmitTyped, SubmitterTyped, WorkerTyped, ReceiverTyped, StutterTyped
     DEF Next, Exited
<1> QED
  BY <1>1, InitTyped, PTL DEF Spec

\* Every variable of the agent's executor keeps its type; both channels stay within
\* their capacity (executor.go:17 to 35).
THEOREM TypeCorrect == Spec => []TypeOK
<1>1. TypeInv => TypeOK
  BY DEF TypeInv
<1> QED
  BY <1>1, TypeInvIsInvariant, PTL

-----------------------------------------------------------------------------
(* No pointer is lost or doubled *)

LEMMA BusyIsFinite == IsFiniteSet(Busy) /\ Cardinality(Busy) \in Nat
<1>1. Busy \in SUBSET Workers
  BY DEF Busy
<1>2. IsFiniteSet(Busy)
  BY <1>1, ExecutorAssumption, FS_Subset
<1> QED
  BY <1>2, FS_CardinalityType

LEMMA AccountingIsKept ==
  ASSUME TypeInv, PointersAccountedFor, Next
  PROVE  PointersAccountedFor'
<1> USE DEF TypeInv
<1>0. /\ queue \in Seq(Loops) /\ results \in Seq(Response)
      /\ Len(queue) \in Nat /\ Len(results) \in Nat /\ sent \in Nat /\ taken \in Nat
      /\ worker \in [Workers -> Worker]
  BY DEF TypeOK
<1>1. ASSUME NEW w \in Workers, Take(w) PROVE PointersAccountedFor'
  <2>1. w \notin Busy /\ Busy' = Busy \cup {w}
    BY <1>0, <1>1 DEF Take, Busy
  <2>2. Cardinality(Busy') = Cardinality(Busy) + 1
    BY <2>1, BusyIsFinite, FS_AddElement
  <2>3. Len(queue') = Len(queue) - 1
    BY <1>0, <1>1 DEF Take
  <2> QED
    BY <1>0, <1>1, <2>2, <2>3, BusyIsFinite DEF Take, PointersAccountedFor, submitting, answering
<1>2. ASSUME NEW w \in Workers, Run(w) \/ Finish(w) \/ WorkerExit(w)
      PROVE  PointersAccountedFor'
  <2>1. Busy' = Busy
    BY <1>0, <1>2 DEF Run, Finish, WorkerExit, Busy, Worker
  <2> QED
    BY <1>2, <2>1 DEF Run, Finish, WorkerExit, PointersAccountedFor, submitting, answering
<1>3. ASSUME NEW w \in Workers, Deliver(w) PROVE PointersAccountedFor'
  <2>1. w \in Busy /\ Busy' = Busy \ {w}
    BY <1>0, <1>3 DEF Deliver, Busy, Idle
  <2>2. Cardinality(Busy') = Cardinality(Busy) - 1
    BY <2>1, BusyIsFinite, FS_RemoveElement
  <2>3. Len(results') = Len(results) + 1
    BY <1>0, <1>3 DEF Deliver
  <2>4. UNCHANGED <<queue, sent, taken>>
    BY <1>3 DEF Deliver, submitting, answering
  <2> QED
    BY <1>0, <2>2, <2>3, <2>4, BusyIsFinite DEF PointersAccountedFor
<1>4. ASSUME NEW s \in Submitters, Submit(s) PROVE PointersAccountedFor'
  <2>1. Len(queue') = Len(queue) + 1
    BY <1>0, <1>4 DEF Submit
  <2>2. Busy' = Busy
    BY <1>4 DEF Submit, Busy, executing
  <2> QED
    BY <1>0, <1>4, <2>1, <2>2, BusyIsFinite DEF Submit, PointersAccountedFor, answering
<1>5. ASSUME Receive \/ \E c \in Commands : GetCommandStatus(c) PROVE PointersAccountedFor'
  <2>1. Len(results') = Len(results) - 1 /\ taken' = taken + 1
    BY <1>0, <1>5 DEF Receive, GetCommandStatus
  <2>2. Busy' = Busy /\ queue' = queue /\ sent' = sent
    BY <1>5 DEF Receive, GetCommandStatus, Busy, executing, submitting
  <2> QED
    BY <1>0, <2>1, <2>2, BusyIsFinite DEF PointersAccountedFor
<1>6. ASSUME UNCHANGED <<queue, results, worker, sent, taken>> PROVE PointersAccountedFor'
  BY <1>6 DEF PointersAccountedFor, Busy
<1>7. ASSUME \/ Tick \/ Beat \/ EmptyBeat \/ HeartbeatExit
             \/ \E h \in Handlers : HandleHeartbeat(h) \/ SubmitCommand(h) \/ SubmitPanics(h)
             \/ \E s \in Submitters, f \in Field : WriteField(s, f)
      PROVE  PointersAccountedFor'
  BY <1>6, <1>7 DEF Tick, Beat, EmptyBeat, HeartbeatExit, HandleHeartbeat, SubmitCommand,
     SubmitPanics, WriteField, Enter, executing, answering
<1>8. ASSUME Report \/ ReportFails \/ Signal \/ CloseQueue \/ CloseResults \/ Exit \/ Exited
      PROVE  PointersAccountedFor'
  BY <1>6, <1>8 DEF Report, ReportFails, Signal, CloseQueue, CloseResults, Exit, Exited,
     vars, submitting, executing, answering
<1> QED
  BY <1>1, <1>2, <1>3, <1>4, <1>5, <1>7, <1>8 DEF Next

\* Neither a channel nor a worker loses a command that was submitted or answers it twice
\* (executor.go:52 to 66 and 135), whatever the capacities and the number of workers.
THEOREM NothingVanishes == Spec => []PointersAccountedFor
<1>1. Init => PointersAccountedFor
  <2> SUFFICES ASSUME Init PROVE PointersAccountedFor
    OBVIOUS
  <2>1. Busy = {}
    BY DEF Init, Busy, Idle
  <2>2. Cardinality(Busy) = 0
    BY <2>1, FS_EmptySet
  <2>3. Len(queue) = 0 /\ Len(results) = 0 /\ sent = 0 /\ taken = 0
    BY DEF Init
  <2> QED
    BY <2>2, <2>3 DEF PointersAccountedFor
<1>2. TypeInv /\ PointersAccountedFor /\ [Next]_vars => PointersAccountedFor'
  <2>1. ASSUME UNCHANGED vars, PointersAccountedFor PROVE PointersAccountedFor'
    BY <2>1 DEF PointersAccountedFor, Busy, vars, submitting, executing, answering
  <2> QED
    BY <2>1, AccountingIsKept
<1> QED
  BY <1>1, <1>2, TypeInvIsInvariant, PTL DEF Spec

-----------------------------------------------------------------------------
(* The order of the shutdown *)

\* Why no channel is closed in use: the queue closes after the heartbeat has gone, a
\* worker ends only when the queue is closed and empty, and nothing is sent to it then.
ClosingInv ==
  /\ main \in {"running", "stopping"} => ~queueClosed
  /\ main # "closed" /\ main # "exited" => ~resultsClosed
  /\ queueClosed => pc[Heartbeat] = "gone"
  /\ \A w \in Workers : worker[w].at = "done" => queueClosed /\ queue = <<>>
  /\ resultsClosed => queueClosed /\ \A w \in Workers : worker[w].at = "done"

LEMMA ClosingInvIsKept ==
  ASSUME TypeInv, ClosingInv, Next
  PROVE  ClosingInv'
<1> USE DEF TypeInv
<1>0. worker \in [Workers -> Worker] /\ Heartbeat \in Submitters
      /\ pc \in [Submitters -> {"idle", "loop", "gone"}]
  BY DEF TypeOK, Submitters
<1>1. ASSUME NEW w \in Workers,
             Take(w) \/ Run(w) \/ Finish(w) \/ Deliver(w) \/ WorkerExit(w)
      PROVE  ClosingInv'
  <2>1. UNCHANGED <<main, queueClosed, resultsClosed, pc>>
    BY <1>1 DEF Take, Run, Finish, Deliver, WorkerExit, submitting
  <2>2. \A v \in Workers : v # w => worker'[v] = worker[v]
    BY <1>0, <1>1 DEF Take, Run, Finish, Deliver, WorkerExit
  <2>3. worker[w].at # "done"
    BY <1>1 DEF Take, Run, Finish, Deliver, WorkerExit
  <2>4. worker'[w].at = "done" => queueClosed /\ queue = <<>> /\ queue' = queue
    <3>1. ASSUME Take(w) PROVE worker'[w].at # "done"
      BY <1>0, <3>1 DEF Take
    <3>2. ASSUME Run(w) PROVE worker'[w].at # "done"
      BY <1>0, <3>2 DEF Run, Worker
    <3>3. ASSUME Finish(w) PROVE worker'[w].at # "done"
      BY <1>0, <3>3 DEF Finish, Worker
    <3>4. ASSUME Deliver(w) PROVE worker'[w].at # "done"
      BY <1>0, <3>4 DEF Deliver, Idle
    <3>5. ASSUME WorkerExit(w) PROVE queueClosed /\ queue = <<>> /\ queue' = queue
      BY <3>5 DEF WorkerExit
    <3> QED
      BY <1>1, <3>1, <3>2, <3>3, <3>4, <3>5
  <2>5. \A v \in Workers : worker[v].at = "done" => queue' = <<>>
    BY <1>1 DEF Take, Run, Finish, Deliver, WorkerExit, ClosingInv
  <2> QED
    BY <2>1, <2>2, <2>3, <2>4, <2>5 DEF ClosingInv
<1>2. ASSUME NEW s \in Submitters, Submit(s) PROVE ClosingInv'
  BY <1>0, <1>2 DEF Submit, ClosingInv, executing
<1>3. ASSUME NEW s \in Submitters, NEW b, Enter(s, b) PROVE ClosingInv'
  BY <1>0, <1>3 DEF Enter, ClosingInv, executing
<1>4. ASSUME Tick \/ EmptyBeat \/ (\E s \in Submitters, f \in Field : WriteField(s, f))
      PROVE ClosingInv'
  <2>1. UNCHANGED <<main, queueClosed, resultsClosed, pc, queue, worker>>
    BY <1>4 DEF Tick, EmptyBeat, WriteField, executing
  <2> QED
    BY <2>1 DEF ClosingInv
<1>5. ASSUME NEW h \in Handlers, SubmitPanics(h) PROVE ClosingInv'
  BY <1>0, <1>5, ExecutorAssumption DEF SubmitPanics, ClosingInv, executing
<1>6. ASSUME HeartbeatExit \/ Signal PROVE ClosingInv'
  BY <1>0, <1>6 DEF HeartbeatExit, Signal, ClosingInv, executing, submitting
<1>7. ASSUME CloseQueue \/ CloseResults \/ Exit \/ Exited PROVE ClosingInv'
  BY <1>7, ExecutorAssumption
     DEF CloseQueue, CloseResults, Exit, Exited, ClosingInv, vars, executing, submitting
<1>8. ASSUME Receive \/ Report \/ ReportFails \/ (\E c \in Commands : GetCommandStatus(c))
      PROVE  ClosingInv'
  BY <1>8 DEF Receive, Report, ReportFails, GetCommandStatus, ClosingInv, executing, submitting
<1> QED
  BY <1>1, <1>2, <1>3, <1>4, <1>5, <1>6, <1>7, <1>8
     DEF Next, Beat, HandleHeartbeat, SubmitCommand, Submitters

\* The shutdown closes neither the queue while the heartbeat may send on it nor the
\* results while a worker may, and leaves nothing in the queue (main.go:118 to 119,
\* executor.go:45 to 50).
THEOREM ShutdownIsOrdered == Spec => []ClosedChannelsAreIdle
<1>1. Init => ClosingInv
  BY DEF Init, ClosingInv, Idle
<1>2. TypeInv /\ ClosingInv /\ [Next]_vars => ClosingInv'
  <2>1. ASSUME UNCHANGED vars, ClosingInv PROVE ClosingInv'
    BY <2>1 DEF ClosingInv, vars, submitting, executing
  <2> QED
    BY <2>1, ClosingInvIsKept
<1>3. ClosingInv => ClosedChannelsAreIdle
  BY ExecutorAssumption DEF ClosingInv, ClosedChannelsAreIdle, Busy
<1> QED
  BY <1>1, <1>2, <1>3, TypeInvIsInvariant, PTL DEF Spec

-----------------------------------------------------------------------------
(* Commands that are the only one of their loop *)

Elements(s) == {s[i] : i \in DOMAIN s}

\* Worker w has the pointer to variable l and has yet to read what to do there.
Reads(w, l) == worker[w].at = "read" /\ worker[w].ptr = l

\* A command that was not issued is found nowhere.
Unseen(c) ==
  /\ \A s \in Submitters : pc[s] = "loop" => c \notin Elements(todo[s])
  /\ \A l \in Loops, f \in Field : cell[l][f] # c
  /\ \A w \in Workers : worker[w].id # c
  /\ \A i \in DOMAIN results : results[i].id # c
  /\ runs[c] = 0 /\ c \notin accepted

\* Variable l is the one of command c, and of no other.
OwnCell(c, l) == \A k \in Loops, f \in Field : cell[k][f] = c => k = l

\* Nobody has got the pointer to l yet.
Unsent(c, l) ==
  /\ c \notin accepted /\ runs[c] = 0
  /\ l \notin Elements(queue) /\ \A w \in Workers : ~Reads(w, l)

\* The submitter that writes c writes it to l, and writes nothing else there.
InLoop(c, l) ==
  \A s \in Submitters : pc[s] = "loop" =>
    /\ c \in Elements(todo[s]) => var[s] = l
    /\ var[s] = l => /\ todo[s] = <<c>> /\ Unsent(c, l)
                     /\ \A f \in Field \ unwritten[s] : cell[l][f] = c

\* The pointer to l is in the queue once, and c is there to be read.
InQueue(c, l) ==
  \A i \in DOMAIN queue : queue[i] = l =>
    /\ \A f \in Field : cell[l][f] = c
    /\ runs[c] = 0
    /\ \A j \in DOMAIN queue : queue[j] = l => j = i
    /\ \A w \in Workers : ~Reads(w, l)

\* One worker reads c, and has its id; what answers to the id of c has run c.
AtWorker(c, l) ==
  \A w \in Workers :
    /\ Reads(w, l) => /\ cell[l]["work"] = c /\ runs[c] = 0
                      /\ \A v \in Workers : Reads(v, l) => v = w
    /\ worker[w].id = c => IF worker[w].at = "read" THEN worker[w].ptr = l
                                                    ELSE worker[w].work = c

Answers(c) == \A i \in DOMAIN results : results[i].id = c => results[i].work = c

RunOnce(c, l) ==
  /\ runs[c] <= 1
  /\ c \in accepted /\ runs[c] = 0 => \/ l \in Elements(queue)
                                      \/ \E w \in Workers : Reads(w, l)

Owns(c, l) == /\ OwnCell(c, l) /\ InLoop(c, l) /\ InQueue(c, l) /\ AtWorker(c, l)
              /\ Answers(c) /\ RunOnce(c, l)

\* Each loop has a variable of its own; pointers lead to variables that exist.
Allocated ==
  /\ \A s \in Submitters : pc[s] = "loop" =>
       /\ var[s] <= loops
       /\ \A t \in Submitters : pc[t] = "loop" /\ var[t] = var[s] => t = s
  /\ \A i \in DOMAIN queue : queue[i] <= loops
  /\ \A w \in Workers : worker[w].at = "read" => worker[w].ptr <= loops

SingleInv ==
  /\ Allocated
  /\ \A c \in fresh : Unseen(c)
  /\ \A c \in single : c \notin fresh /\ \E l \in 1..loops : Owns(c, l)

\* What Owns, Unseen and Allocated speak of.
watched == <<cell, pc, todo, var, unwritten, queue, worker, results, accepted, runs>>

LEMMA WatchedKept ==
  ASSUME UNCHANGED watched
  PROVE  /\ \A c, l : Owns(c, l) => Owns(c, l)'
         /\ \A c : Unseen(c) => Unseen(c)'
         /\ (Allocated /\ loops' = loops => Allocated')
BY DEF watched, Owns, OwnCell, InLoop, InQueue, AtWorker, Answers, RunOnce, Unsent, Reads,
   Unseen, Allocated

LEMMA ElementsOfTail ==
  ASSUME NEW S, NEW q \in Seq(S), q # <<>>
  PROVE  /\ Elements(Tail(q)) \subseteq Elements(q)
         /\ Head(q) \in Elements(q)
         /\ Elements(q) = Elements(Tail(q)) \cup {Head(q)}
         /\ DOMAIN Tail(q) = 1..(Len(q) - 1)
         /\ \A i \in DOMAIN Tail(q) : Tail(q)[i] = q[i + 1] /\ i + 1 \in DOMAIN q
<1>1. Len(q) \in Nat /\ Len(q) >= 1 /\ DOMAIN q = 1..Len(q) /\ Head(q) = q[1]
  OBVIOUS
<1>2. DOMAIN Tail(q) = 1..(Len(q) - 1)
  BY <1>1
<1>3. \A i \in 1..(Len(q) - 1) : Tail(q)[i] = q[i + 1] /\ i + 1 \in DOMAIN q
  BY <1>1
<1>4. \A i \in 1..Len(q) : i = 1 \/ i - 1 \in 1..(Len(q) - 1)
  BY <1>1
<1>5. Elements(q) \subseteq Elements(Tail(q)) \cup {Head(q)}
  <2> SUFFICES ASSUME NEW i \in DOMAIN q PROVE q[i] \in Elements(Tail(q)) \cup {Head(q)}
    BY DEF Elements
  <2>1. CASE i = 1
    BY <1>1, <2>1
  <2>2. CASE i # 1
    <3>1. i \in Nat /\ i - 1 \in 1..(Len(q) - 1)
      BY <1>1, <1>4, <2>2
    <3>2. Tail(q)[i - 1] = q[i]
      BY <1>3, <3>1
    <3> QED
      BY <1>2, <3>1, <3>2 DEF Elements
  <2> QED
    BY <2>1, <2>2
<1>6. Elements(Tail(q)) \subseteq Elements(q)
  BY <1>2, <1>3 DEF Elements
<1>7. Head(q) \in Elements(q)
  BY <1>1 DEF Elements
<1> QED
  BY <1>2, <1>3, <1>5, <1>6, <1>7

LEMMA ElementsOfAppend ==
  ASSUME NEW S, NEW q \in Seq(S), NEW x \in S
  PROVE  /\ Elements(Append(q, x)) = Elements(q) \cup {x}
         /\ DOMAIN Append(q, x) = 1..(Len(q) + 1) /\ DOMAIN q = 1..Len(q)
         /\ Append(q, x)[Len(q) + 1] = x
         /\ \A i \in 1..Len(q) : Append(q, x)[i] = q[i]
<1>1. /\ Len(q) \in Nat
      /\ DOMAIN Append(q, x) = 1..(Len(q) + 1) /\ DOMAIN q = 1..Len(q)
      /\ Append(q, x)[Len(q) + 1] = x
      /\ \A i \in 1..Len(q) : Append(q, x)[i] = q[i]
  OBVIOUS
<1>2. \A i \in 1..(Len(q) + 1) : i \in 1..Len(q) \/ i = Len(q) + 1
  BY <1>1
<1>3. \A i \in 1..Len(q) : i \in 1..(Len(q) + 1)
  BY <1>1
<1>4. Len(q) + 1 \in 1..(Len(q) + 1)
  BY <1>1
<1> HIDE DEF Elements
<1>5. Elements(Append(q, x)) = Elements(q) \cup {x}
  BY <1>1, <1>2, <1>3, <1>4 DEF Elements
<1> QED
  BY <1>1, <1>5

\* A loop over commands nobody has seen, with a variable of its own.
LEMMA EnterKeeps ==
  ASSUME TypeInv, SingleInv, NEW s \in Submitters, NEW b \in Seq(Commands),
         Elements(b) \subseteq fresh, Enter(s, b)
  PROVE  /\ Allocated' /\ fresh' = fresh \ Elements(b)
         /\ \A c \in fresh' : Unseen(c)'
         /\ \A c \in single, l \in 1..loops : Owns(c, l) => Owns(c, l)'
         /\ \A c \in fresh, l \in Loops : b = <<c>> /\ l = loops + 1 => Owns(c, l)'
<1> USE DEF TypeInv
<1>1. /\ pc' = [pc EXCEPT ![s] = "loop"] /\ todo' = [todo EXCEPT ![s] = b]
      /\ var' = [var EXCEPT ![s] = loops + 1] /\ unwritten' = [unwritten EXCEPT ![s] = Field]
      /\ loops' = loops + 1 /\ loops \in Nat /\ loops + 1 <= MaxLoops
      /\ UNCHANGED <<cell, queue, worker, results, accepted, runs>>
    BY ExecutorAssumption DEF Enter, TypeOK, executing
<1>2. /\ pc'[s] = "loop" /\ todo'[s] = b /\ var'[s] = loops + 1 /\ unwritten'[s] = Field
      /\ \A t \in Submitters \ {s} : /\ pc'[t] = pc[t] /\ todo'[t] = todo[t]
                                     /\ var'[t] = var[t] /\ unwritten'[t] = unwritten[t]
  BY <1>1 DEF TypeOK
<1>3. /\ \A t \in Submitters : var[t] \in Nat
      /\ \A i \in DOMAIN queue : queue[i] \in Nat
      /\ \A w \in Workers : worker[w].ptr \in Nat
  <2>1. Loops \subseteq Nat /\ Pointers \subseteq Nat
    BY DEF Loops, Pointers
  <2>2. queue \in Seq(Loops) /\ worker \in [Workers -> Worker] /\ var \in [Submitters -> Pointers]
    BY DEF TypeOK
  <2>3. \A i \in DOMAIN queue : queue[i] \in Loops
    BY <2>2
  <2>4. \A w \in Workers : worker[w].ptr \in Pointers
    BY <2>2 DEF Worker
  <2> QED
    BY <2>1, <2>2, <2>3, <2>4
<1>a. \A k \in Nat : k <= loops => k # loops + 1 /\ k <= loops + 1
  BY <1>1
<1>4. /\ \A t \in Submitters : pc[t] = "loop" => var[t] # loops + 1 /\ var[t] <= loops + 1
      /\ \A i \in DOMAIN queue : queue[i] # loops + 1 /\ queue[i] <= loops + 1
      /\ \A w \in Workers : worker[w].at = "read" => /\ worker[w].ptr # loops + 1
                                                   /\ worker[w].ptr <= loops + 1
  BY <1>3, <1>a DEF SingleInv, Allocated
<1>5. fresh' = fresh \ Elements(b)
  BY DEF Enter, Elements
<1>6. Allocated'
  <2>1. loops + 1 <= loops + 1
    BY <1>1
  <2> QED
    BY <1>1, <1>2, <1>4, <2>1 DEF SingleInv, Allocated
<1>7. ASSUME NEW c \in fresh' PROVE Unseen(c)'
  <2>1. Unseen(c) /\ c \notin Elements(b)
    BY <1>5 DEF SingleInv
  <2> QED
    BY <1>1, <1>2, <2>1 DEF Unseen
<1>8. ASSUME NEW c \in single, NEW l \in 1..loops, Owns(c, l) PROVE Owns(c, l)'
  <2>1. c \notin Elements(b) /\ l # loops + 1
    BY <1>1 DEF SingleInv
  <2>2. InLoop(c, l)'
    BY <1>1, <1>2, <1>8, <2>1 DEF Owns, InLoop, Unsent, Reads
  <2> QED
    BY <1>1, <1>8, <2>2 DEF Owns, OwnCell, InQueue, AtWorker, Answers, RunOnce, Reads
<1>9. ASSUME NEW c \in fresh, NEW l \in Loops, b = <<c>>, l = loops + 1 PROVE Owns(c, l)'
  <2>1. Unseen(c)
    BY DEF SingleInv
  <2>3. l \notin Elements(queue) /\ \A w \in Workers : ~Reads(w, l)
    BY <1>4, <1>9 DEF Elements, Reads
  <2>4. Unsent(c, l)'
    BY <1>1, <2>1, <2>3 DEF Unsent, Unseen, Reads
  <2>5. InLoop(c, l)'
    BY <1>1, <1>2, <1>4, <1>9, <2>1, <2>4 DEF InLoop, Unseen
  <2>6. InQueue(c, l)'
    BY <1>1, <1>4, <1>9 DEF InQueue
  <2>7. AtWorker(c, l)'
    BY <1>1, <2>1, <2>3 DEF AtWorker, Unseen, Reads
  <2>8. OwnCell(c, l)' /\ Answers(c)' /\ RunOnce(c, l)'
    BY <1>1, <2>1 DEF OwnCell, Answers, RunOnce, Unseen
  <2> QED
    BY <2>5, <2>6, <2>7, <2>8 DEF Owns
<1> QED
  BY <1>5, <1>6, <1>7, <1>8, <1>9

\* What every step but an Enter keeps.
Kept == /\ Allocated'
        /\ \A c \in fresh : Unseen(c)'
        /\ \A c \in single, l \in 1..loops : Owns(c, l) => Owns(c, l)'

LEMMA WriteKeeps ==
  ASSUME TypeInv, SingleInv, NEW s \in Submitters, NEW f \in Field, WriteField(s, f)
  PROVE  Kept
<1> USE DEF TypeInv
<1> DEFINE x == Head(todo[s])
           k == var[s]
<1>1. /\ pc[s] = "loop" /\ f \in unwritten[s]
      /\ UNCHANGED <<pc, todo, var, queue, worker, results, accepted, runs, loops>>
  BY DEF WriteField, executing
<1>2. k \in Loops /\ todo[s] \in Seq(Commands) /\ todo[s] # <<>>
  BY <1>1 DEF TypeOK, LoopInv
<1>3. x \in Elements(todo[s])
  BY <1>2, ElementsOfTail
<1>4. /\ cell'[k][f] = x
      /\ \A g \in Field : g # f => cell'[k][g] = cell[k][g]
      /\ \A l \in Loops : l # k => cell'[l] = cell[l]
  BY <1>2 DEF WriteField, TypeOK, Cell
<1>5. /\ unwritten'[s] = unwritten[s] \ {f}
      /\ \A t \in Submitters : t # s => unwritten'[t] = unwritten[t]
  BY DEF WriteField, TypeOK
<1> HIDE DEF x, k
<1>6. Allocated'
  BY <1>1 DEF SingleInv, Allocated
<1>7. ASSUME NEW c \in fresh PROVE Unseen(c)'
  <2>1. Unseen(c)
    BY DEF SingleInv
  <2>2. x # c
    BY <1>1, <1>3, <2>1 DEF Unseen
  <2>3. \A l \in Loops, g \in Field : cell'[l][g] # c
    BY <1>4, <2>1, <2>2 DEF Unseen
  <2> QED
    BY <1>1, <2>1, <2>3 DEF Unseen
<1>8. ASSUME NEW c \in single, NEW l \in 1..loops, Owns(c, l) PROVE Owns(c, l)'
  <2>1. /\ x = c => k = l
        /\ k = l => x = c /\ Unsent(c, l) /\ todo[s] = <<c>>
    <3>1. InLoop(c, l)
      BY <1>8 DEF Owns
    <3>2. x = c => k = l
      BY <1>1, <1>3, <3>1 DEF InLoop, k
    <3>3. k = l => Unsent(c, l) /\ todo[s] = <<c>>
      BY <1>1, <3>1 DEF InLoop, k
    <3>4. todo[s] = <<c>> => x = c
      BY DEF x
    <3> QED
      BY <3>2, <3>3, <3>4
  <2>2. OwnCell(c, l)'
    BY <1>4, <1>8, <2>1 DEF Owns, OwnCell
  <2>3. l \in Loops
    BY ExecutorAssumption DEF TypeOK, Loops
  <2>4. k # l => cell'[l] = cell[l]
    BY <1>4, <2>3
  <2>5. k = l => \A g \in Field \ unwritten'[s] : cell'[l][g] = c
    <3>1. \A g \in Field \ unwritten[s] : k = l => cell[l][g] = c
      BY <1>1, <1>8 DEF Owns, InLoop, k
    <3> QED
      BY <1>4, <1>5, <2>1, <3>1
  <2>6. InLoop(c, l)'
    <3> SUFFICES ASSUME NEW t \in Submitters, pc[t] = "loop"
                 PROVE  /\ c \in Elements(todo[t]) => var[t] = l
                        /\ var[t] = l => /\ todo[t] = <<c>> /\ Unsent(c, l)'
                                         /\ \A g \in Field \ unwritten'[t] : cell'[l][g] = c
      BY <1>1 DEF InLoop
    <3>1. /\ c \in Elements(todo[t]) => var[t] = l
          /\ var[t] = l => /\ todo[t] = <<c>> /\ Unsent(c, l)
                           /\ \A g \in Field \ unwritten[t] : cell[l][g] = c
      BY <1>8 DEF Owns, InLoop
    <3>2. Unsent(c, l) => Unsent(c, l)'
      BY <1>1 DEF Unsent, Reads
    <3>3. CASE t = s
      BY <2>5, <3>1, <3>2, <3>3 DEF k
    <3>4. CASE t # s
      <4>1. var[t] = l => k # l
        BY <1>1, <3>4 DEF SingleInv, Allocated, k
      <4> QED
        BY <1>5, <2>4, <3>1, <3>2, <3>4, <4>1
    <3> QED
      BY <3>3, <3>4
  <2>7. InQueue(c, l)'
    <3>1. CASE k = l
      BY <1>1, <2>1, <3>1 DEF InQueue, Unsent, Elements
    <3>2. CASE k # l
      BY <1>1, <1>8, <2>4, <3>2 DEF Owns, InQueue, Reads
    <3> QED
      BY <3>1, <3>2
  <2>8. AtWorker(c, l)'
    <3>1. CASE k = l
      BY <1>1, <1>8, <2>1, <3>1 DEF Owns, AtWorker, Unsent, Reads
    <3>2. CASE k # l
      BY <1>1, <1>8, <2>4, <3>2 DEF Owns, AtWorker, Reads
    <3> QED
      BY <3>1, <3>2
  <2> QED
    BY <1>1, <1>8, <2>2, <2>6, <2>7, <2>8 DEF Owns, Answers, RunOnce, Reads
<1> QED
  BY <1>6, <1>7, <1>8 DEF Kept

LEMMA SubmitKeeps ==
  ASSUME TypeInv, SingleInv, NEW s \in Submitters, Submit(s)
  PROVE  Kept
<1> USE DEF TypeInv
<1> DEFINE x == Head(todo[s])
           k == var[s]
           n == Len(queue) + 1
<1>1. /\ pc[s] = "loop" /\ unwritten[s] = {} /\ queue' = Append(queue, k)
      /\ accepted' = accepted \cup {x}
      /\ UNCHANGED <<cell, var, worker, results, runs, loops>>
  BY DEF Submit, executing
<1>2. /\ k \in Loops /\ todo[s] \in Seq(Commands) /\ todo[s] # <<>>
      /\ queue \in Seq(Loops) /\ Len(queue) \in Nat
  BY <1>1 DEF TypeOK, LoopInv
<1>3. x \in Elements(todo[s]) /\ Elements(Tail(todo[s])) \subseteq Elements(todo[s])
  BY <1>2, ElementsOfTail
<1>4. /\ todo'[s] = Tail(todo[s])
      /\ pc'[s] = "loop" => Len(todo[s]) # 1
      /\ pc'[s] = "loop" \/ pc'[s] = "idle"
      /\ \A t \in Submitters : t # s => /\ pc'[t] = pc[t] /\ todo'[t] = todo[t]
                                       /\ unwritten'[t] = unwritten[t]
  BY DEF Submit, TypeOK
<1>5. /\ Elements(queue') = Elements(queue) \cup {k}
      /\ DOMAIN queue' = 1..n /\ DOMAIN queue = 1..Len(queue) /\ queue'[n] = k
      /\ \A i \in 1..Len(queue) : queue'[i] = queue[i]
  BY <1>1, <1>2, ElementsOfAppend
<1>6. \A i \in 1..n : i \in 1..Len(queue) \/ i = n
  BY <1>2
<1> HIDE DEF x, k, n
<1>7. Allocated'
  <2>1. k <= loops
    BY <1>1 DEF SingleInv, Allocated, k
  <2>2. \A i \in DOMAIN queue' : queue'[i] <= loops
    BY <1>5, <1>6, <2>1 DEF SingleInv, Allocated
  <2>3. \A t \in Submitters : pc'[t] = "loop" => pc[t] = "loop"
    BY <1>1, <1>4
  <2> QED
    BY <1>1, <2>2, <2>3 DEF SingleInv, Allocated
<1>8. ASSUME NEW c \in fresh PROVE Unseen(c)'
  <2>1. Unseen(c)
    BY DEF SingleInv
  <2>2. \A t \in Submitters : pc'[t] = "loop" => c \notin Elements(todo'[t])
    BY <1>1, <1>3, <1>4, <2>1 DEF Unseen
  <2>3. c \notin accepted'
    BY <1>1, <1>3, <2>1 DEF Unseen
  <2> QED
    BY <1>1, <2>1, <2>2, <2>3 DEF Unseen
<1>9. ASSUME NEW c \in single, NEW l \in 1..loops, Owns(c, l) PROVE Owns(c, l)'
  <2>0. InLoop(c, l) /\ InQueue(c, l) /\ AtWorker(c, l) /\ RunOnce(c, l)
    BY <1>9 DEF Owns
  <2>1. /\ x = c => k = l
        /\ k = l => /\ todo[s] = <<c>> /\ Unsent(c, l)
                    /\ \A f \in Field : cell[l][f] = c
    BY <1>1, <1>3, <2>0 DEF InLoop, k
  <2>2. k = l => Len(todo[s]) = 1
    BY <2>1
  <2>3. k # l => (l \in Elements(queue') <=> l \in Elements(queue))
    BY <1>5
  <2>4. InLoop(c, l)'
    <3> SUFFICES ASSUME NEW t \in Submitters, pc'[t] = "loop"
                 PROVE  /\ c \in Elements(todo'[t]) => var[t] = l
                        /\ var[t] = l => /\ todo'[t] = <<c>> /\ Unsent(c, l)'
                                         /\ \A g \in Field \ unwritten'[t] : cell[l][g] = c
      BY <1>1 DEF InLoop
    <3>1. pc[t] = "loop"
      BY <1>1, <1>4
    <3>2. /\ c \in Elements(todo[t]) => var[t] = l
          /\ var[t] = l => /\ todo[t] = <<c>> /\ Unsent(c, l)
                           /\ \A g \in Field \ unwritten[t] : cell[l][g] = c
      BY <2>0, <3>1 DEF InLoop
    <3>3. CASE t = s
      BY <1>3, <1>4, <2>2, <3>2, <3>3 DEF k
    <3>4. CASE t # s
      <4>1. var[t] = l => k # l
        BY <1>1, <3>1, <3>4 DEF SingleInv, Allocated, k
      <4>2. k # l /\ Unsent(c, l) => Unsent(c, l)'
        BY <1>1, <2>1, <2>3 DEF Unsent, Reads
      <4> QED
        BY <1>4, <3>2, <3>4, <4>1, <4>2
    <3> QED
      BY <3>3, <3>4
  <2>5. InQueue(c, l)'
    <3>1. CASE k = l
      <4>1. \A i \in 1..Len(queue) : queue[i] # l
        BY <1>5, <2>1, <3>1 DEF Unsent, Elements
      <4>2. \A i \in DOMAIN queue' : queue'[i] = l => i = n
        BY <1>5, <1>6, <4>1
      <4> QED
        BY <1>1, <2>1, <3>1, <4>2 DEF InQueue, Unsent, Reads
    <3>2. CASE k # l
      <4>1. \A i \in DOMAIN queue' : queue'[i] = l => i \in DOMAIN queue /\ queue[i] = l
        BY <1>5, <1>6, <3>2
      <4> QED
        BY <1>1, <2>0, <4>1 DEF InQueue, Reads
    <3> QED
      BY <3>1, <3>2
  <2>6. RunOnce(c, l)'
    BY <1>1, <1>5, <2>0, <2>1 DEF RunOnce, Reads
  <2>7. OwnCell(c, l)' /\ AtWorker(c, l)' /\ Answers(c)'
    BY <1>1, <1>9 DEF Owns, OwnCell, AtWorker, Answers, Reads
  <2> QED
    BY <2>4, <2>5, <2>6, <2>7 DEF Owns
<1> QED
  BY <1>7, <1>8, <1>9 DEF Kept

LEMMA TakeKeeps ==
  ASSUME TypeInv, SingleInv, NEW w \in Workers, Take(w)
  PROVE  Kept
<1> USE DEF TypeInv
<1> DEFINE h == Head(queue)
<1>1. /\ worker[w].at = "idle" /\ queue' = Tail(queue) /\ queue # <<>>
      /\ UNCHANGED <<cell, pc, todo, var, unwritten, results, accepted, runs, loops>>
  BY DEF Take, submitting
<1>2. queue \in Seq(Loops) /\ worker \in [Workers -> Worker]
  BY DEF TypeOK
<1>3. /\ worker'[w].at = "read" /\ worker'[w].ptr = h /\ worker'[w].id = cell[h]["id"]
      /\ \A v \in Workers : v # w => worker'[v] = worker[v]
  BY <1>2 DEF Take
<1>4. /\ Elements(queue') \subseteq Elements(queue) /\ h \in Elements(queue)
      /\ Elements(queue) = Elements(queue') \cup {h}
      /\ \A i \in DOMAIN queue' : /\ queue'[i] = queue[i + 1]
                                  /\ i + 1 \in DOMAIN queue /\ i + 1 # 1 /\ i \in Nat
      /\ queue[1] = h /\ 1 \in DOMAIN queue
  <2>1. /\ \A i \in 1..(Len(queue) - 1) : i + 1 # 1 /\ i \in Nat
        /\ queue[1] = h /\ 1 \in DOMAIN queue
    BY <1>1, <1>2
  <2> QED
    BY <1>1, <1>2, <2>1, ElementsOfTail
<1>5. h \in Loops /\ h <= loops
  BY <1>2, <1>4 DEF SingleInv, Allocated
<1> HIDE DEF h
<1>6. Allocated'
  BY <1>1, <1>3, <1>4, <1>5 DEF SingleInv, Allocated
<1>7. ASSUME NEW c \in fresh PROVE Unseen(c)'
  <2>1. Unseen(c)
    BY DEF SingleInv
  <2>2. worker'[w].id # c
    BY <1>3, <1>5, <2>1 DEF Unseen, Field
  <2> QED
    BY <1>1, <1>3, <2>1, <2>2 DEF Unseen
<1>8. ASSUME NEW c \in single, NEW l \in 1..loops, Owns(c, l) PROVE Owns(c, l)'
  <2>0. OwnCell(c, l) /\ InLoop(c, l) /\ InQueue(c, l) /\ AtWorker(c, l) /\ RunOnce(c, l)
    BY <1>8 DEF Owns
  <2>1. h = l => /\ \A f \in Field : cell[l][f] = c
                 /\ runs[c] = 0 /\ l \notin Elements(queue') /\ \A v \in Workers : ~Reads(v, l)
    BY <1>4, <2>0 DEF InQueue, Elements
  <2>2. \A v \in Workers : Reads(v, l)' <=> Reads(v, l) \/ (v = w /\ h = l)
    BY <1>1, <1>3 DEF Reads
  <2>3. InLoop(c, l)'
    <3>1. Unsent(c, l) => Unsent(c, l)'
      BY <1>1, <1>4, <2>2 DEF Unsent
    <3> QED
      BY <1>1, <2>0, <3>1 DEF InLoop
  <2>4. InQueue(c, l)'
    <3> SUFFICES ASSUME NEW i \in DOMAIN queue', queue'[i] = l
                 PROVE  /\ \A f \in Field : cell[l][f] = c
                        /\ runs[c] = 0
                        /\ \A j \in DOMAIN queue' : queue'[j] = l => j = i
                        /\ \A v \in Workers : ~Reads(v, l)'
      BY <1>1 DEF InQueue
    <3>1. h # l
      BY <2>1 DEF Elements
    <3>2. /\ \A f \in Field : cell[l][f] = c
          /\ runs[c] = 0
          /\ \A j \in DOMAIN queue : queue[j] = l => j = i + 1
          /\ \A v \in Workers : ~Reads(v, l)
      BY <1>4, <2>0 DEF InQueue
    <3>3. \A j \in DOMAIN queue' : queue'[j] = l => j + 1 = i + 1
      BY <1>4, <3>2
    <3>4. \A j \in DOMAIN queue' : j \in Nat /\ i \in Nat /\ (j + 1 = i + 1 => j = i)
      BY <1>4
    <3> QED
      BY <2>2, <3>1, <3>2, <3>3, <3>4
  <2>5. AtWorker(c, l)'
    <3>1. \A v \in Workers : Reads(v, l)' => /\ cell[l]["work"] = c /\ runs[c] = 0
                                             /\ \A u \in Workers : Reads(u, l)' => u = v
      BY <2>0, <2>1, <2>2 DEF AtWorker, Field
    <3>2. worker'[w].id = c => worker'[w].ptr = l
      BY <1>3, <1>5, <2>0 DEF OwnCell, Field
    <3>3. \A v \in Workers : worker'[v].id = c =>
             IF worker'[v].at = "read" THEN worker'[v].ptr = l ELSE worker'[v].work = c
      BY <1>3, <2>0, <3>2 DEF AtWorker
    <3> QED
      BY <1>1, <3>1, <3>3 DEF AtWorker
  <2>6. RunOnce(c, l)'
    BY <1>1, <1>4, <2>0, <2>2 DEF RunOnce
  <2>7. OwnCell(c, l)' /\ Answers(c)'
    BY <1>1, <1>8 DEF Owns, OwnCell, Answers
  <2> QED
    BY <2>3, <2>4, <2>5, <2>6, <2>7 DEF Owns
<1> QED
  BY <1>6, <1>7, <1>8 DEF Kept

LEMMA RunKeeps ==
  ASSUME TypeInv, SingleInv, NEW w \in Workers, Run(w)
  PROVE  Kept
<1> USE DEF TypeInv
<1> DEFINE p == worker[w].ptr
           x == cell[p]["work"]
<1>1. /\ worker[w].at = "read" /\ runs' = [runs EXCEPT ![x] = @ + 1]
      /\ UNCHANGED <<cell, pc, todo, var, unwritten, queue, results, accepted, loops>>
  BY DEF Run, submitting
<1>2. worker \in [Workers -> Worker] /\ runs \in [Commands -> Nat] /\ p \in Loops
  BY <1>1 DEF TypeOK, LoopInv, Busy
<1>3. /\ worker'[w].at = "running" /\ worker'[w].work = x /\ worker'[w].id = worker[w].id
      /\ \A v \in Workers : v # w => worker'[v] = worker[v]
  BY <1>2 DEF Run, Worker
<1>4. \A c \in Commands : runs'[c] = IF c = x THEN runs[c] + 1 ELSE runs[c]
  BY <1>1, <1>2
<1>5. fresh \subseteq Commands /\ single \subseteq Commands
  BY DEF TypeOK
<1> HIDE DEF p, x
<1>6. Allocated'
  BY <1>1, <1>3 DEF SingleInv, Allocated
<1>7. ASSUME NEW c \in fresh PROVE Unseen(c)'
  <2>1. Unseen(c)
    BY DEF SingleInv
  <2>2. x # c
    BY <1>2, <2>1 DEF Unseen, Field, x
  <2> QED
    BY <1>1, <1>3, <1>4, <1>5, <2>1, <2>2 DEF Unseen
<1>8. ASSUME NEW c \in single, NEW l \in 1..loops, Owns(c, l) PROVE Owns(c, l)'
  <2>0. OwnCell(c, l) /\ InLoop(c, l) /\ InQueue(c, l) /\ AtWorker(c, l) /\ RunOnce(c, l)
    BY <1>8 DEF Owns
  <2>1. /\ x = c => Reads(w, l)
        /\ p = l => Reads(w, l)
        /\ Reads(w, l) => x = c /\ runs[c] = 0
    <3>1. x = c => p = l
      BY <1>2, <2>0 DEF OwnCell, Field, x
    <3>2. p = l <=> Reads(w, l)
      BY <1>1 DEF Reads, p
    <3>3. Reads(w, l) => cell[l]["work"] = c /\ runs[c] = 0
      BY <2>0 DEF AtWorker
    <3> QED
      BY <3>1, <3>2, <3>3 DEF x
  <2>2. \A v \in Workers : Reads(v, l)' <=> Reads(v, l) /\ v # w
    BY <1>3 DEF Reads
  <2>3. /\ x = c => runs'[c] = 1 /\ \A v \in Workers : ~Reads(v, l)'
        /\ x # c => runs'[c] = runs[c] /\ \A v \in Workers : Reads(v, l)' <=> Reads(v, l)
    <3>1. x = c => runs[c] = 0 /\ runs'[c] = runs[c] + 1
      BY <1>4, <1>5, <2>1
    <3>2. x = c => \A v \in Workers : Reads(v, l) => v = w
      BY <2>0, <2>1 DEF AtWorker
    <3>3. x # c => ~Reads(w, l) /\ runs'[c] = runs[c]
      BY <1>4, <1>5, <2>1
    <3> QED
      BY <2>2, <3>1, <3>2, <3>3
  <2>4. InLoop(c, l)'
    <3>1. Unsent(c, l) => x # c
      BY <2>1 DEF Unsent
    <3>2. Unsent(c, l) => Unsent(c, l)'
      BY <1>1, <2>3, <3>1 DEF Unsent
    <3> QED
      BY <1>1, <2>0, <3>2 DEF InLoop
  <2>5. InQueue(c, l)'
    <3>1. \A i \in DOMAIN queue : queue[i] = l => x # c
      BY <2>0, <2>1 DEF InQueue
    <3> QED
      BY <1>1, <2>0, <2>3, <3>1 DEF InQueue
  <2>6. AtWorker(c, l)'
    <3>1. worker'[w].id = c => x = c
      BY <1>1, <1>3, <2>0, <2>1 DEF AtWorker, p
    <3>2. \A v \in Workers : worker'[v].id = c =>
             IF worker'[v].at = "read" THEN worker'[v].ptr = l ELSE worker'[v].work = c
      BY <1>3, <2>0, <3>1 DEF AtWorker
    <3>3. \A v \in Workers : Reads(v, l)' => /\ cell[l]["work"] = c /\ runs'[c] = 0
                                             /\ \A u \in Workers : Reads(u, l)' => u = v
      BY <2>0, <2>3 DEF AtWorker
    <3> QED
      BY <1>1, <3>2, <3>3 DEF AtWorker
  <2>7. RunOnce(c, l)'
    BY <1>1, <2>0, <2>3 DEF RunOnce
  <2>8. OwnCell(c, l)' /\ Answers(c)'
    BY <1>1, <1>8 DEF Owns, OwnCell, Answers
  <2> QED
    BY <2>4, <2>5, <2>6, <2>7, <2>8 DEF Owns
<1> QED
  BY <1>6, <1>7, <1>8 DEF Kept

LEMMA DeliverKeeps ==
  ASSUME TypeInv, SingleInv, NEW w \in Workers, Finish(w) \/ Deliver(w) \/ WorkerExit(w)
  PROVE  Kept
<1> USE DEF TypeInv
<1> DEFINE r == [id |-> worker[w].id, work |-> worker[w].work]
           n == Len(results) + 1
<1>1. /\ worker[w].at # "read"
      /\ UNCHANGED <<cell, pc, todo, var, unwritten, queue, accepted, runs, loops>>
      /\ results' = results \/ results' = Append(results, r)
  BY DEF Finish, Deliver, WorkerExit, submitting
<1>2. worker \in [Workers -> Worker] /\ results \in Seq(Response) /\ worker[w] \in Worker
  BY DEF TypeOK
<1>3. /\ worker'[w].at # "read"
      /\ \/ worker'[w].id = None
         \/ worker'[w].id = worker[w].id /\ worker'[w].work = worker[w].work
      /\ \A v \in Workers : v # w => worker'[v] = worker[v]
  BY <1>2 DEF Finish, Deliver, WorkerExit, Worker, Idle
<1>4. \A i \in DOMAIN results' :
        \/ i \in DOMAIN results /\ results'[i] = results[i]
        \/ results'[i].id = worker[w].id /\ results'[i].work = worker[w].work
  <2>1. r \in Response /\ r.id = worker[w].id /\ r.work = worker[w].work
    BY <1>2 DEF Worker, Response
  <2> HIDE DEF r
  <2>2. CASE results' = results
    BY <2>2
  <2>3. CASE results' = Append(results, r)
    <3>1. /\ DOMAIN results' = 1..(Len(results) + 1) /\ DOMAIN results = 1..Len(results)
          /\ results'[Len(results) + 1] = r /\ Len(results) \in Nat
          /\ \A i \in 1..Len(results) : results'[i] = results[i]
      BY <1>2, <2>1, <2>3, ElementsOfAppend
    <3>2. \A i \in 1..(Len(results) + 1) : i \in 1..Len(results) \/ i = Len(results) + 1
      BY <3>1
    <3> QED
      BY <2>1, <3>1, <3>2
  <2> QED
    BY <1>1, <2>2, <2>3
<1>5. fresh \subseteq Commands /\ single \subseteq Commands
  BY DEF TypeOK
<1> HIDE DEF r, n
<1>6. Allocated'
  BY <1>1, <1>3 DEF SingleInv, Allocated
<1>7. ASSUME NEW c \in fresh PROVE Unseen(c)'
  <2>1. Unseen(c) /\ c # None
    BY <1>5, ExecutorAssumption DEF SingleInv
  <2> QED
    BY <1>1, <1>3, <1>4, <2>1 DEF Unseen
<1>8. ASSUME NEW c \in single, NEW l \in 1..loops, Owns(c, l) PROVE Owns(c, l)'
  <2>0. /\ OwnCell(c, l) /\ InLoop(c, l) /\ InQueue(c, l) /\ AtWorker(c, l)
        /\ RunOnce(c, l) /\ Answers(c) /\ c # None
    BY <1>5, <1>8, ExecutorAssumption DEF Owns
  <2>1. \A v \in Workers : Reads(v, l)' <=> Reads(v, l)
    BY <1>1, <1>3 DEF Reads
  <2>2. worker[w].id = c => worker[w].work = c
    BY <1>1, <2>0 DEF AtWorker
  <2>3. AtWorker(c, l)'
    <3>1. \A v \in Workers : worker'[v].id = c =>
             IF worker'[v].at = "read" THEN worker'[v].ptr = l ELSE worker'[v].work = c
      BY <1>3, <2>0, <2>2 DEF AtWorker
    <3> QED
      BY <1>1, <2>0, <2>1, <3>1 DEF AtWorker
  <2>4. Answers(c)'
    BY <1>4, <2>0, <2>2 DEF Answers
  <2>5. InLoop(c, l)' /\ InQueue(c, l)' /\ RunOnce(c, l)' /\ OwnCell(c, l)'
    BY <1>1, <2>0, <2>1 DEF InLoop, Unsent, InQueue, RunOnce, OwnCell
  <2> QED
    BY <2>3, <2>4, <2>5 DEF Owns
<1> QED
  BY <1>6, <1>7, <1>8 DEF Kept

\* Responses leave the channel; a submitter leaves its loop, or the heartbeat ends.
LEMMA LeaveKeeps ==
  ASSUME TypeInv, SingleInv,
         \/ Receive \/ (\E c \in Commands : GetCommandStatus(c))
         \/ HeartbeatExit \/ (\E h \in Handlers : SubmitPanics(h))
  PROVE  Kept
<1> USE DEF TypeInv
<1>1. /\ UNCHANGED <<cell, var, unwritten, queue, worker, accepted, runs, loops>>
      /\ results' = results \/ (results # <<>> /\ results' = Tail(results))
  BY DEF Receive, GetCommandStatus, HeartbeatExit, SubmitPanics, submitting, executing
<1>2. \A s \in Submitters : pc'[s] = "loop" => pc[s] = "loop" /\ todo'[s] = todo[s]
  <2>1. CASE Receive \/ (\E c \in Commands : GetCommandStatus(c))
    BY <2>1 DEF Receive, GetCommandStatus, submitting
  <2>2. CASE HeartbeatExit
    BY <2>2 DEF HeartbeatExit, TypeOK
  <2>3. CASE \E h \in Handlers : SubmitPanics(h)
    BY <2>3 DEF SubmitPanics, TypeOK
  <2> QED
    BY <2>1, <2>2, <2>3
<1>3. \A i \in DOMAIN results' : \E j \in DOMAIN results : results'[i] = results[j]
  BY <1>1, ElementsOfTail DEF TypeOK
<1>4. Allocated'
  BY <1>1, <1>2 DEF SingleInv, Allocated
<1>5. ASSUME NEW c \in fresh PROVE Unseen(c)'
  BY <1>1, <1>2, <1>3 DEF SingleInv, Unseen
<1>6. ASSUME NEW c \in single, NEW l \in 1..loops, Owns(c, l) PROVE Owns(c, l)'
  <2>1. InLoop(c, l)'
    BY <1>1, <1>2, <1>6 DEF Owns, InLoop, Unsent, Reads
  <2>2. Answers(c)'
    BY <1>3, <1>6 DEF Owns, Answers
  <2> QED
    BY <1>1, <1>6, <2>1, <2>2 DEF Owns, OwnCell, InQueue, AtWorker, RunOnce, Reads
<1> QED
  BY <1>4, <1>5, <1>6 DEF Kept

LEMMA SingleNext == TypeInv /\ SingleInv /\ [Next]_vars => SingleInv'
<1> SUFFICES ASSUME TypeInv, SingleInv, [Next]_vars PROVE SingleInv'
  OBVIOUS
<1>0. fresh \subseteq Commands /\ loops \in Nat
  BY DEF TypeInv, TypeOK
<1>1. ASSUME Kept, UNCHANGED <<fresh, loops, single>> PROVE SingleInv'
  BY <1>1 DEF Kept, SingleInv
<1>2. ASSUME NEW s \in Submitters, NEW b \in Batches, Enter(s, b), single' = single
      PROVE  SingleInv'
  <2>1. b \in Seq(Commands) /\ Elements(b) \subseteq fresh
    BY <1>0, BatchIsSequence DEF Batches, Elements
  <2>2. /\ Allocated' /\ fresh' = fresh \ Elements(b)
        /\ \A c \in fresh' : Unseen(c)'
        /\ \A c \in single, l \in 1..loops : Owns(c, l) => Owns(c, l)'
    BY <1>2, <2>1, EnterKeeps
  <2>3. loops' = loops + 1 /\ 1..loops \subseteq 1..(loops + 1)
    BY <1>0, <1>2 DEF Enter
  <2> QED
    BY <1>2, <2>2, <2>3 DEF SingleInv
<1>3. ASSUME NEW s \in Submitters, NEW c \in fresh, Enter(s, <<c>>), single' = single \cup {c}
      PROVE  SingleInv'
  <2>2. <<c>> \in Seq(Commands) /\ Elements(<<c>>) = {c}
    BY <1>0 DEF Elements
  <2>3. /\ loops' = loops + 1 /\ 1..loops \subseteq 1..(loops + 1)
        /\ loops + 1 \in 1..(loops + 1) /\ loops + 1 \in Loops
    BY <1>0, <1>3, ExecutorAssumption DEF Enter, Loops
  <2>4. /\ Allocated' /\ fresh' = fresh \ {c}
        /\ \A d \in fresh' : Unseen(d)'
        /\ \A d \in single, l \in 1..loops : Owns(d, l) => Owns(d, l)'
        /\ \A d \in fresh, l \in Loops : <<c>> = <<d>> /\ l = loops + 1 => Owns(d, l)'
    <3>1. Elements(<<c>>) \subseteq fresh
      BY <2>2
    <3> QED
      BY <1>3, <2>2, <3>1, EnterKeeps
  <2>5. \E l \in 1..loops' : Owns(c, l)'
    BY <2>3, <2>4
  <2>6. \A d \in single : \E l \in 1..loops' : Owns(d, l)'
    BY <2>3, <2>4 DEF SingleInv
  <2> QED
    BY <1>3, <2>4, <2>5, <2>6 DEF SingleInv
<1>4. ASSUME Beat \/ (\E h \in Handlers : HandleHeartbeat(h) \/ SubmitCommand(h))
      PROVE  SingleInv'
  <2>1. ASSUME NEW h \in Handlers, SubmitCommand(h) PROVE SingleInv'
    BY <1>3, <2>1 DEF SubmitCommand, Single, Submitters
  <2>2. ASSUME NEW s \in Submitters, NEW b \in Batches, Enter(s, b), single' = Single(b)
        PROVE  SingleInv'
    <3>1. CASE Len(b) # 1
      BY <1>2, <2>2, <3>1 DEF Single
    <3>2. CASE Len(b) = 1
      <4>1. b \in Seq(Commands) /\ Elements(b) \subseteq fresh
        BY <1>0, BatchIsSequence DEF Batches, Elements
      <4>2. b = <<b[1]>> /\ b[1] \in fresh
        BY <3>2, <4>1 DEF Elements
      <4>3. single' = single \cup {b[1]}
        BY <2>2, <3>2 DEF Single
      <4> QED
        BY <1>3, <2>2, <4>2, <4>3
    <3> QED
      BY <3>1, <3>2
  <2> QED
    BY <1>4, <2>1, <2>2 DEF Beat, HandleHeartbeat, Submitters
<1>5. ASSUME NEW s \in Submitters, Submit(s) \/ (\E f \in Field : WriteField(s, f))
      PROVE  SingleInv'
  <2>1. UNCHANGED <<fresh, loops, single>>
    BY <1>5 DEF Submit, WriteField
  <2> QED
    BY <1>1, <1>5, <2>1, SubmitKeeps, WriteKeeps
<1>6. ASSUME NEW w \in Workers,
             Take(w) \/ Run(w) \/ Finish(w) \/ Deliver(w) \/ WorkerExit(w)
      PROVE  SingleInv'
  <2>1. UNCHANGED <<fresh, loops, single>>
    BY <1>6 DEF Take, Run, Finish, Deliver, WorkerExit, submitting
  <2> QED
    BY <1>1, <1>6, <2>1, TakeKeeps, RunKeeps, DeliverKeeps
<1>7. ASSUME \/ Receive \/ (\E c \in Commands : GetCommandStatus(c))
             \/ HeartbeatExit \/ (\E h \in Handlers : SubmitPanics(h))
      PROVE  SingleInv'
  <2>1. UNCHANGED <<fresh, loops, single>>
    BY <1>7 DEF Receive, GetCommandStatus, HeartbeatExit, SubmitPanics, submitting
  <2> QED
    BY <1>1, <1>7, <2>1, LeaveKeeps
<1>8. ASSUME \/ Tick \/ EmptyBeat \/ Report \/ ReportFails \/ Signal \/ CloseQueue
             \/ CloseResults \/ Exit \/ Exited \/ UNCHANGED vars
      PROVE  SingleInv'
  <2>1. UNCHANGED watched /\ UNCHANGED <<fresh, loops, single>>
    BY <1>8 DEF Tick, EmptyBeat, Report, ReportFails, Signal, CloseQueue, CloseResults, Exit,
                Exited, vars, watched, submitting, executing, answering
  <2> QED
    BY <2>1, WatchedKept DEF SingleInv
<1> QED
  BY <1>4, <1>5, <1>6, <1>7, <1>8 DEF Next

\* A command that is the only one of its loop is run at most once, the responses under its id are those of
\* its run, and once the channel of results is closed an accepted one has been run
\* (agent_handler.go:65 to 82, executor.go:45 to 66).
THEOREM SingleIsRunOnce == Spec => []SingleRunsOnce
<1>1. Init => SingleInv /\ ClosingInv
  <2> SUFFICES ASSUME Init PROVE SingleInv /\ ClosingInv
    OBVIOUS
  <2>1. Allocated /\ single = {} /\ ClosingInv
    BY DEF Init, Allocated, ClosingInv, Idle
  <2>2. ASSUME NEW c \in fresh PROVE Unseen(c)
    <3>1. c \in Commands /\ c # None /\ runs[c] = 0
      BY <2>2, ExecutorAssumption DEF Init
    <3>2. \A l \in Loops, f \in Field : cell[l][f] = None
      BY DEF Init, Blank
    <3> QED
      BY <3>1, <3>2 DEF Init, Unseen, Idle
  <2> QED
    BY <2>1, <2>2 DEF SingleInv
<1>2. TypeInv /\ ClosingInv /\ [Next]_vars => ClosingInv'
  <2>1. ASSUME UNCHANGED vars, ClosingInv PROVE ClosingInv'
    BY <2>1 DEF ClosingInv, vars, submitting, executing
  <2> QED
    BY <2>1, ClosingInvIsKept
<1>3. TypeInv /\ SingleInv /\ ClosingInv => SingleRunsOnce
  <2> SUFFICES ASSUME TypeInv, SingleInv, ClosingInv, NEW c \in single
               PROVE  /\ runs[c] <= 1 /\ Answers(c)
                      /\ resultsClosed /\ c \in accepted => runs[c] = 1
    BY DEF SingleRunsOnce, Answers
  <2>1. PICK l \in 1..loops : Owns(c, l)
    BY DEF SingleInv
  <2>2. runs[c] \in Nat
    BY DEF TypeInv, TypeOK
  <2>3. resultsClosed => Elements(queue) = {} /\ \A w \in Workers : ~Reads(w, l)
    BY ExecutorAssumption DEF ClosingInv, Reads, Elements
  <2> QED
    BY <2>1, <2>2, <2>3 DEF Owns, RunOnce
<1> QED
  BY <1>1, <1>2, <1>3, SingleNext, TypeInvIsInvariant, PTL DEF Spec

=============================================================================
