----------------------- MODULE ServiceLifecycleProofs -----------------------
(***************************************************************************)
(* Proofs about ServiceLifecycle, for any sets of names, of requests and   *)
(* of default dependencies and any number of restarts.                     *)
(***************************************************************************)
EXTENDS ServiceLifecycle, TLAPS

-----------------------------------------------------------------------------
(* Type correctness *)

\* What the fields of a request are worth at each of its statements.  The
\* statuses still to be written end with the one the operation aims at.
Target(op) == IF op = "STOP" THEN "STOPPED" ELSE "HEALTHY"

RequestShape(r) ==
  LET q == req[r] IN
  /\ q.pc # "idle" => q.name \in Names
  /\ q.pc \in {"lookup", "saving", "audit"} => q.op \in Ops
  /\ q.pc = "saving" => /\ Len(q.todo) > 0
                        /\ q.todo[Len(q.todo)] = Target(q.op)
                        /\ ~q.snap.deleted

Shape == \A r \in Requests : RequestShape(r)

TypeInv == TypeOK /\ Shape

LEMMA PlanShape ==
  ASSUME NEW op \in Ops, NEW status \in Status
  PROVE  /\ Plan(op, status) \in Seq(Status)
         /\ Len(Plan(op, status)) > 0
         /\ Plan(op, status)[Len(Plan(op, status))] = Target(op)
<1>1. CASE op = "START"
  <2>1. Plan(op, status) = <<"STARTING", "HEALTHY">>
    BY <1>1 DEF Plan
  <2>2. <<"STARTING", "HEALTHY">> \in Seq(Status)
    BY DEF Status
  <2>3. Len(Plan(op, status)) = 2 /\ Plan(op, status)[2] = "HEALTHY"
    BY <2>1
  <2>4. QED
    BY <1>1, <2>1, <2>2, <2>3 DEF Target
<1>2. CASE op = "STOP"
  <2>1. Plan(op, status) = <<"STOPPING", "STOPPED">>
    BY <1>2 DEF Plan
  <2>2. <<"STOPPING", "STOPPED">> \in Seq(Status)
    BY DEF Status
  <2>3. Len(Plan(op, status)) = 2 /\ Plan(op, status)[2] = "STOPPED"
    BY <2>1
  <2>4. QED
    BY <1>2, <2>1, <2>2, <2>3 DEF Target
<1>3. CASE op = "RESTART" /\ status = "STOPPED"
  <2>1. Plan(op, status) = <<"STOPPED", "STARTING", "HEALTHY">>
    BY <1>3 DEF Plan
  <2>2. <<"STOPPED", "STARTING", "HEALTHY">> \in Seq(Status)
    BY DEF Status
  <2>3. Len(Plan(op, status)) = 3 /\ Plan(op, status)[3] = "HEALTHY"
    BY <2>1
  <2>4. Target(op) = "HEALTHY"
    BY <1>3 DEF Target
  <2>5. QED
    BY <2>1, <2>2, <2>3, <2>4
<1>4. CASE op = "RESTART" /\ status # "STOPPED"
  <2>1. Plan(op, status) = <<"STOPPING", "STOPPED", "STARTING", "HEALTHY">>
    BY <1>4 DEF Plan
  <2>2. <<"STOPPING", "STOPPED", "STARTING", "HEALTHY">> \in Seq(Status)
    BY DEF Status
  <2>3. Len(Plan(op, status)) = 4 /\ Plan(op, status)[4] = "HEALTHY"
    BY <2>1
  <2>4. Target(op) = "HEALTHY"
    BY <1>4 DEF Target
  <2>5. QED
    BY <2>1, <2>2, <2>3, <2>4
<1>5. QED
  BY <1>1, <1>2, <1>3, <1>4 DEF Ops

LEMMA TailShape ==
  ASSUME NEW s \in Seq(Status), Len(s) > 1
  PROVE  /\ Head(s) \in Status
         /\ Tail(s) \in Seq(Status)
         /\ Len(Tail(s)) > 0
         /\ Tail(s)[Len(Tail(s))] = s[Len(s)]
OBVIOUS

LEMMA IdleType == NewRow \in Row /\ Idle \in Request
<1>1. <<>> \in Seq(Status)
  OBVIOUS
<1>2. QED
  BY <1>1 DEF Idle, Request, Pc, Row, NewRow, Status, Ops

\* A request that moves to q, of the right type and shape, while the others
\* stay where they are.
LEMMA MoveRequest ==
  ASSUME req \in [Requests -> Request], Shape,
         NEW r \in Requests, NEW q \in Request,
         req' = [req EXCEPT ![r] = q],
         q.pc # "idle" => q.name \in Names,
         q.pc \in {"lookup", "saving", "audit"} => q.op \in Ops,
         q.pc = "saving" => /\ Len(q.todo) > 0
                            /\ q.todo[Len(q.todo)] = Target(q.op)
                            /\ ~q.snap.deleted
  PROVE  req' \in [Requests -> Request] /\ Shape'
<1>1. req' \in [Requests -> Request]
  OBVIOUS
<1>2. req'[r] = q /\ \A x \in Requests \ {r} : req'[x] = req[x]
  OBVIOUS
<1>3. ASSUME NEW x \in Requests PROVE RequestShape(x)'
  <2>1. CASE x = r
    BY <1>2, <2>1 DEF RequestShape
  <2>2. CASE x # r
    BY <1>2, <2>2 DEF Shape, RequestShape
  <2>3. QED
    BY <2>1, <2>2
<1>4. QED
  BY <1>1, <1>3 DEF Shape

LEMMA TypeInit == (Init \/ InitEstablished) => TypeInv
<1> USE IdleType, DepsAssumption, CrashAssumption
<1>1. Init => TypeOK
  BY DEF Init, TypeOK
<1>2. InitEstablished => TypeOK
  BY DEF InitEstablished, TypeOK
<1>3. ASSUME req = [r \in Requests |-> Idle] PROVE Shape
  <2>1. ASSUME NEW r \in Requests PROVE req[r].pc = "idle"
    BY <1>3 DEF Idle
  <2>2. QED
    BY <2>1 DEF Shape, RequestShape
<1>4. QED
  BY <1>1, <1>2, <1>3 DEF TypeInv, Init, InitEstablished

LEMMA TypeNext == TypeInv /\ [Next]_vars => TypeInv'
<1> SUFFICES ASSUME TypeInv, [Next]_vars PROVE TypeInv'
  OBVIOUS
<1> USE DepsAssumption, CrashAssumption, IdleType
<1>0. TypeOK /\ Shape /\ req \in [Requests -> Request]
  BY DEF TypeInv, TypeOK
<1>1. ASSUME NEW n \in Names, CreateService(n) PROVE TypeInv'
  BY <1>0, <1>1 DEF CreateService, TypeInv, TypeOK, Shape, RequestShape
<1>2. ASSUME NEW r \in Requests, NEW n \in Names, NEW op \in Ops, RunScript(r, op, n)
      PROVE  TypeInv'
  <2> DEFINE q == [Idle EXCEPT !.pc = "lookup", !.op = op, !.name = n]
  <2>1. q \in Request /\ q.pc = "lookup" /\ q.name = n /\ q.op = op
    BY DEF Request, Pc, Idle
  <2>2. req' = [req EXCEPT ![r] = q]
    BY <1>2 DEF RunScript
  <2> HIDE DEF q
  <2>3. req' \in [Requests -> Request] /\ Shape'
    BY <1>0, <2>1, <2>2, MoveRequest
  <2>4. QED
    BY <1>0, <1>2, <2>3 DEF RunScript, TypeInv, TypeOK
<1>3. ASSUME NEW r \in Requests, NEW n \in Names, DeleteLookup(r, n) PROVE TypeInv'
  <2> DEFINE q == [Idle EXCEPT !.pc = "check", !.op = "DELETE", !.name = n,
                               !.snap = rows[n]]
  <2>1. q \in Request /\ q.pc = "check" /\ q.name = n
    BY <1>0 DEF Request, Pc, Idle, TypeOK
  <2>2. req' = [req EXCEPT ![r] = q]
    BY <1>3 DEF DeleteLookup
  <2> HIDE DEF q
  <2>3. req' \in [Requests -> Request] /\ Shape'
    BY <1>0, <2>1, <2>2, MoveRequest
  <2>4. QED
    BY <1>0, <1>3, <2>3 DEF DeleteLookup, TypeInv, TypeOK
<1>4. ASSUME NEW r \in Requests, req' = [req EXCEPT ![r] = Idle]
      PROVE  req' \in [Requests -> Request] /\ Shape'
  <2>1. Idle.pc = "idle"
    BY DEF Idle
  <2>2. QED
    BY <1>0, <1>4, <2>1, MoveRequest
<1>5. ASSUME NEW r \in Requests, Refuse(r) PROVE TypeInv'
  BY <1>0, <1>4, <1>5 DEF Refuse, TypeInv, TypeOK
<1>6. ASSUME NEW r \in Requests, Accept(r) PROVE TypeInv'
  <2>1. /\ req[r].name \in Names
        /\ req[r].op \in Ops
        /\ rows[req[r].name] \in Row
        /\ ~rows[req[r].name].deleted
    BY <1>0, <1>6 DEF Accept, Live, TypeOK, Shape, RequestShape
  <2> DEFINE plan == Plan(req[r].op, rows[req[r].name].status)
             q == [req[r] EXCEPT !.pc = "saving", !.snap = rows[req[r].name],
                                 !.todo = plan]
  <2>2. /\ plan \in Seq(Status)
        /\ Len(plan) > 0
        /\ plan[Len(plan)] = Target(req[r].op)
    BY <2>1, PlanShape DEF Row
  <2>3. req' = [req EXCEPT ![r] = q]
    BY <1>6 DEF Accept
  <2> HIDE DEF plan
  <2>4. /\ q \in Request
        /\ q.pc = "saving" /\ q.name = req[r].name /\ q.op = req[r].op
        /\ q.todo = plan /\ q.snap = rows[req[r].name]
    BY <1>0, <2>1, <2>2 DEF Request, Pc
  <2> HIDE DEF q
  <2>5. req' \in [Requests -> Request] /\ Shape'
    BY <1>0, <2>1, <2>2, <2>3, <2>4, MoveRequest
  <2>6. QED
    BY <1>0, <1>6, <2>5 DEF Accept, TypeInv, TypeOK
<1>7. ASSUME NEW r \in Requests, SaveStage(r) PROVE TypeInv'
  <2> DEFINE todo == req[r].todo
             s == [req[r].snap EXCEPT !.status = Head(todo)]
             q == [req[r] EXCEPT !.snap = s, !.todo = Tail(todo)]
  <2>1. /\ todo \in Seq(Status)
        /\ Len(todo) > 1
        /\ todo[Len(todo)] = Target(req[r].op)
        /\ req[r] \in Request
        /\ req[r].pc = "saving"
        /\ req[r].snap \in Row
        /\ ~req[r].snap.deleted
        /\ req[r].name \in Names
        /\ req[r].op \in Ops
    BY <1>0, <1>7 DEF SaveStage, Shape, RequestShape, Request
  <2>2. /\ Head(todo) \in Status
        /\ Tail(todo) \in Seq(Status)
        /\ Len(Tail(todo)) > 0
        /\ Tail(todo)[Len(Tail(todo))] = Target(req[r].op)
    BY <2>1, TailShape
  <2>3. s \in Row /\ ~s.deleted
    BY <2>1, <2>2 DEF Row
  <2>4. /\ rows' = [rows EXCEPT ![req[r].name] = s]
        /\ req' = [req EXCEPT ![r] = q]
    BY <1>7 DEF SaveStage
  <2> HIDE DEF s, todo
  <2>5. /\ q \in Request
        /\ q.pc = "saving" /\ q.name = req[r].name /\ q.op = req[r].op
        /\ q.todo = Tail(todo) /\ q.snap = s
    BY <2>1, <2>2, <2>3 DEF Request
  <2> HIDE DEF q
  <2>6. req' \in [Requests -> Request] /\ Shape'
    BY <1>0, <2>1, <2>2, <2>3, <2>4, <2>5, MoveRequest
  <2>7. QED
    BY <1>0, <1>7, <2>1, <2>3, <2>4, <2>6 DEF SaveStage, TypeInv, TypeOK
<1>8. ASSUME NEW r \in Requests, SaveFinal(r) PROVE TypeInv'
  <2> DEFINE s == [req[r].snap EXCEPT !.status = Head(req[r].todo), !.lastOp = req[r].op]
             q == [req[r] EXCEPT !.pc = "audit", !.snap = s, !.todo = <<>>]
  <2>1. /\ req[r] \in Request
        /\ req[r].pc = "saving"
        /\ req[r].todo \in Seq(Status)
        /\ Len(req[r].todo) = 1
        /\ req[r].snap \in Row
        /\ req[r].name \in Names
        /\ req[r].op \in Ops
    BY <1>0, <1>8 DEF SaveFinal, Shape, RequestShape, Request
  <2>2. Head(req[r].todo) \in Status /\ <<>> \in Seq(Status)
    BY <2>1
  <2>3. s \in Row
    BY <2>1, <2>2 DEF Row
  <2>4. /\ rows' = [rows EXCEPT ![req[r].name] = s]
        /\ req' = [req EXCEPT ![r] = q]
    BY <1>8 DEF SaveFinal
  <2> HIDE DEF s
  <2>5. /\ q \in Request
        /\ q.pc = "audit" /\ q.name = req[r].name /\ q.op = req[r].op
    BY <2>1, <2>2, <2>3 DEF Request, Pc
  <2> HIDE DEF q
  <2>6. req' \in [Requests -> Request] /\ Shape'
    BY <1>0, <2>1, <2>4, <2>5, MoveRequest
  <2>7. QED
    BY <1>0, <1>8, <2>1, <2>3, <2>4, <2>6 DEF SaveFinal, TypeInv, TypeOK
<1>9. ASSUME NEW r \in Requests, SaveAudit(r) PROVE TypeInv'
  <2>1. req[r].name \in Names /\ req[r].op \in Ops
    BY <1>0, <1>9 DEF SaveAudit, Shape, RequestShape
  <2>2. audit' \subseteq Names \X Ops
    BY <1>0, <1>9, <2>1 DEF SaveAudit, TypeOK
  <2>3. req' \in [Requests -> Request] /\ Shape'
    BY <1>4, <1>9 DEF SaveAudit
  <2>4. QED
    BY <1>0, <1>9, <2>2, <2>3 DEF SaveAudit, TypeInv, TypeOK
<1>10. ASSUME NEW r \in Requests, CheckDependencies(r) PROVE TypeInv'
  <2> DEFINE q == [req[r] EXCEPT !.pc = "remove"]
  <2>1. /\ req[r].name \in Names
        /\ req' = [req EXCEPT ![r] = q] \/ req' = [req EXCEPT ![r] = Idle]
    BY <1>0, <1>10 DEF CheckDependencies, Shape, RequestShape
  <2>2. q \in Request /\ q.pc = "remove" /\ q.name = req[r].name
    BY <1>0 DEF Request, Pc
  <2> HIDE DEF q
  <2>3. req' \in [Requests -> Request] /\ Shape'
    BY <1>0, <1>4, <2>1, <2>2, MoveRequest
  <2>4. QED
    BY <1>0, <1>10, <2>3 DEF CheckDependencies, TypeInv, TypeOK
<1>11. ASSUME NEW r \in Requests, MarkDeleted(r) PROVE TypeInv'
  <2> DEFINE q == [req[r] EXCEPT !.pc = "unlink"]
             s == [req[r].snap EXCEPT !.deleted = TRUE]
  <2>1. /\ req[r].name \in Names
        /\ req' = [req EXCEPT ![r] = q]
        /\ rows' = [rows EXCEPT ![req[r].name] = s]
    BY <1>0, <1>11 DEF MarkDeleted, Shape, RequestShape
  <2>2. q \in Request /\ q.pc = "unlink" /\ q.name = req[r].name
    BY <1>0 DEF Request, Pc
  <2>3. s \in Row
    BY <1>0 DEF Request, Row
  <2> HIDE DEF q, s
  <2>4. req' \in [Requests -> Request] /\ Shape'
    BY <1>0, <2>1, <2>2, MoveRequest
  <2>5. QED
    BY <1>0, <1>11, <2>1, <2>3, <2>4 DEF MarkDeleted, TypeInv, TypeOK
<1>12. ASSUME NEW r \in Requests, DeleteDependencies(r) PROVE TypeInv'
  BY <1>0, <1>4, <1>12 DEF DeleteDependencies, TypeInv, TypeOK
<1>13. CASE Boot
  BY <1>0, <1>13 DEF Boot, InitDefaultDependencies, InsertDependency,
                     TypeInv, TypeOK, Shape, RequestShape
<1>14. CASE Crash
  <2>1. \A r \in Requests : req'[r].pc = "idle"
    BY <1>14 DEF Crash, Idle
  <2>2. Shape'
    BY <2>1 DEF Shape, RequestShape
  <2>3. QED
    BY <1>0, <1>14, <2>2 DEF Crash, TypeInv, TypeOK
<1>15. CASE UNCHANGED vars
  BY <1>0, <1>15 DEF vars, TypeInv, TypeOK, Shape, RequestShape
<1>16. QED
  BY <1>1, <1>2, <1>3, <1>5, <1>6, <1>7, <1>8, <1>9, <1>10, <1>11, <1>12,
     <1>13, <1>14, <1>15 DEF Next, Arrive, Continue

\* Every variable keeps its type, from an empty database as from an
\* established one.
THEOREM TypeCorrect == (Spec => []TypeOK) /\ (SpecEstablished => []TypeOK)
<1>1. TypeInv => TypeOK
  BY DEF TypeInv
<1>2. QED
  BY <1>1, TypeInit, TypeNext, PTL DEF Spec, SpecEstablished

\* Wherever restarts of the server interrupt operations, and whatever stale
\* snapshots the interrupted ones left, some operation accepts the status of each
\* live service.
THEOREM StrandedNever ==
  (Spec => []NeverStranded) /\ (SpecEstablished => []NeverStranded)
<1>1. ASSUME NEW s \in Status PROVE \E op \in Ops : s \in AcceptedFrom(op)
  <2>1. CASE s \in {"STOPPED", "STARTING"}
    BY <2>1 DEF AcceptedFrom, Ops
  <2>2. CASE s \in {"HEALTHY", "STOPPING"}
    <3>1. s \in AcceptedFrom("STOP") /\ "STOP" \in Ops
      BY <2>2 DEF AcceptedFrom, Ops
    <3>2. QED
      BY <3>1
  <2>3. QED
    BY <2>1, <2>2 DEF Status
<1>2. TypeInv => NeverStranded
  BY <1>1 DEF TypeInv, TypeOK, NeverStranded, Row
<1>3. QED
  BY <1>2, TypeInit, TypeNext, PTL DEF Spec, SpecEstablished

-----------------------------------------------------------------------------
(***************************************************************************)
(* The safety invariants that do not follow from the types.  Each has an   *)
(* inductive strengthening below, which speaks of the requests in the      *)
(* middle of their statements.                                             *)
(***************************************************************************)

(* Steps of a server that has never died *)

LEMMA NoCrash ==
  ASSUME TypeInv, [Next]_vars, crashes' = 0
  PROVE  ~Crash /\ crashes = 0
<1>1. crashes \in Nat
  BY CrashAssumption DEF TypeInv, TypeOK
<1>2. ~Crash
  BY <1>1 DEF Crash
<1>3. QED
  BY <1>2 DEF Next, Arrive, Continue, Boot, CreateService, RunScript, Refuse,
     Accept, SaveStage, SaveFinal, SaveAudit, DeleteLookup, CheckDependencies,
     MarkDeleted, DeleteDependencies, InitDefaultDependencies,
     InsertDependency, vars

-----------------------------------------------------------------------------
(* No service that others depend on is deleted *)

\* Once CheckDependencies has let a deletion through, nothing may point at its
\* service any more: that is what keeps DependedOnKept when the row is marked.
DependedInv ==
  crashes = 0 =>
    /\ boot.pc = "done"
    /\ \A d \in deps :
         /\ Live(d[2])
         /\ \A r \in Requests : req[r].pc \in {"remove", "unlink"} => req[r].name # d[2]

LEMMA DependedNext == TypeInv /\ DependedInv /\ [Next]_vars => DependedInv'
<1> SUFFICES ASSUME TypeInv, DependedInv, [Next]_vars, crashes' = 0
             PROVE  /\ boot'.pc = "done"
                    /\ \A d \in deps' :
                         /\ Live(d[2])'
                         /\ \A r \in Requests : req'[r].pc \in {"remove", "unlink"}
                                                  => req'[r].name # d[2]
  BY DEF DependedInv
<1>0. /\ req \in [Requests -> Request] /\ rows \in [Names -> Row] /\ Shape
      /\ created \subseteq Names /\ deps \subseteq Names \X Names
      /\ crashes \in Nat
  BY DepsAssumption, CrashAssumption DEF TypeInv, TypeOK
<1>1. ~Crash /\ crashes = 0
  BY NoCrash
<1>2. /\ boot.pc = "done"
      /\ \A d \in deps :
           /\ Live(d[2])
           /\ \A r \in Requests : req[r].pc \in {"remove", "unlink"} => req[r].name # d[2]
  BY <1>1 DEF DependedInv
<1>3. ASSUME NEW n \in Names, CreateService(n) PROVE DependedInv'
  <2>1. \A m \in Names : Live(m) => Live(m)'
    BY <1>0, <1>3 DEF CreateService, Live
  <2>2. \A d \in deps : Live(d[2])'
    BY <1>0, <1>2, <2>1
  <2>3. QED
    <3>1. UNCHANGED <<deps, boot, req>>
      BY <1>3 DEF CreateService
    <3>2. QED
      BY <1>2, <2>2, <3>1 DEF DependedInv, Live
<1>4. ASSUME NEW r \in Requests, Arrive(r) PROVE DependedInv'
  <2>1. UNCHANGED <<created, rows, deps, boot>>
    BY <1>4 DEF Arrive, RunScript, DeleteLookup
  <2>2. req'[r].pc \in {"lookup", "check"} /\ \A x \in Requests \ {r} : req'[x] = req[x]
    BY <1>0, <1>4 DEF Arrive, RunScript, DeleteLookup, Idle
  <2>3. QED
    BY <1>2, <2>1, <2>2 DEF DependedInv, Live
<1>5. ASSUME NEW r \in Requests, Refuse(r) \/ Accept(r) \/ SaveAudit(r) PROVE DependedInv'
  <2>1. UNCHANGED <<created, rows, deps, boot>>
    BY <1>5 DEF Refuse, Accept, SaveAudit
  <2>2. req'[r].pc \in {"idle", "saving"} /\ \A x \in Requests \ {r} : req'[x] = req[x]
    <3>1. req[r] \in Request
      BY <1>0
    <3>2. CASE Refuse(r) \/ SaveAudit(r)
      <4>1. req' = [req EXCEPT ![r] = Idle]
        BY <3>2 DEF Refuse, SaveAudit
      <4>2. QED
        BY <1>0, <4>1 DEF Idle
    <3>3. CASE Accept(r)
      BY <1>0, <3>1, <3>3 DEF Accept, Request
    <3>4. QED
      BY <1>5, <3>2, <3>3
  <2>3. QED
    BY <1>2, <2>1, <2>2 DEF DependedInv, Live
<1>6. ASSUME NEW r \in Requests, SaveStage(r) \/ SaveFinal(r) PROVE DependedInv'
  <2>1. ~req[r].snap.deleted /\ req[r].name \in Names /\ req[r].snap \in Row
    BY <1>0, <1>6 DEF SaveStage, SaveFinal, Shape, RequestShape, Request
  <2>2. \A n \in Names : Live(n) => Live(n)'
    <3>1. CASE SaveStage(r)
      <4> DEFINE s == [req[r].snap EXCEPT !.status = Head(req[r].todo)]
      <4>1. rows' = [rows EXCEPT ![req[r].name] = s] /\ created' = created
        BY <3>1 DEF SaveStage
      <4>2. ~s.deleted
        BY <2>1 DEF Row
      <4> HIDE DEF s
      <4>3. QED
        BY <1>0, <4>1, <4>2 DEF Live
    <3>2. CASE SaveFinal(r)
      <4> DEFINE s == [req[r].snap EXCEPT !.status = Head(req[r].todo),
                                          !.lastOp = req[r].op]
      <4>1. rows' = [rows EXCEPT ![req[r].name] = s] /\ created' = created
        BY <3>2 DEF SaveFinal
      <4>2. ~s.deleted
        BY <2>1 DEF Row
      <4> HIDE DEF s
      <4>3. QED
        BY <1>0, <4>1, <4>2 DEF Live
    <3>3. QED
      BY <1>6, <3>1, <3>2
  <2>3. req'[r].pc \in {"saving", "audit"} /\ \A x \in Requests \ {r} : req'[x] = req[x]
    <3>1. req[r] \in Request
      BY <1>0
    <3>2. CASE SaveStage(r)
      BY <1>0, <3>1, <3>2 DEF SaveStage, Request
    <3>3. CASE SaveFinal(r)
      BY <1>0, <3>1, <3>3 DEF SaveFinal, Request
    <3>4. QED
      BY <1>6, <3>2, <3>3
  <2>4. deps' = deps /\ boot' = boot
    BY <1>6 DEF SaveStage, SaveFinal
  <2>5. QED
    BY <1>0, <1>2, <2>2, <2>3, <2>4 DEF DependedInv, Live
<1>7. ASSUME NEW r \in Requests, CheckDependencies(r) PROVE DependedInv'
  <2>1. \A x \in Requests \ {r} : req'[x] = req[x]
    BY <1>0, <1>7 DEF CheckDependencies
  <2>2. CASE \A d \in deps : d[2] # req[r].name
    <3>1. req'[r].pc \in {"remove", "unlink"} => req'[r].name = req[r].name
      BY <1>0, <1>7 DEF CheckDependencies, Idle, Request
    <3>2. QED
      BY <1>2, <1>7, <2>1, <2>2, <3>1 DEF CheckDependencies, DependedInv, Live
  <2>3. CASE ~\A d \in deps : d[2] # req[r].name
    <3>1. req'[r].pc = "idle"
      BY <1>0, <1>7, <2>3 DEF CheckDependencies, Idle
    <3>2. QED
      BY <1>2, <1>7, <2>1, <3>1 DEF CheckDependencies, DependedInv, Live
  <2>4. QED
    BY <2>2, <2>3
<1>8. ASSUME NEW r \in Requests, MarkDeleted(r) PROVE DependedInv'
  <2>1. \A d \in deps : d[2] # req[r].name
    BY <1>2, <1>8 DEF MarkDeleted
  <2>2. \A n \in Names : n # req[r].name => rows'[n] = rows[n]
    BY <1>0, <1>8 DEF MarkDeleted
  <2>3. \A x \in Requests : req'[x].pc \in {"remove", "unlink"} =>
                              /\ req[x].pc \in {"remove", "unlink"}
                              /\ req'[x].name = req[x].name
    BY <1>0, <1>8 DEF MarkDeleted, Request
  <2>4. QED
    BY <1>0, <1>2, <1>8, <2>1, <2>2, <2>3 DEF MarkDeleted, DependedInv, Live
<1>9. ASSUME NEW r \in Requests, DeleteDependencies(r) PROVE DependedInv'
  BY <1>0, <1>2, <1>9 DEF DeleteDependencies, Idle, DependedInv, Live
<1>10. CASE Boot
  BY <1>2, <1>10 DEF Boot, InitDefaultDependencies, InsertDependency
<1>11. CASE UNCHANGED vars
  BY <1>2, <1>11 DEF vars, Live
<1>12. QED
  BY <1>1, <1>3, <1>4, <1>5, <1>6, <1>7, <1>8, <1>9, <1>10, <1>11
     DEF Next, Continue, DependedInv

\* From an established catalogue on, and as long as the server is not
\* restarted, no interleaving of operations and deletions deletes a service
\* that another one depends on.
THEOREM DependedOnIsKept == SpecEstablished => []DependedOnKept
<1>1. InitEstablished => DependedInv
  <2> SUFFICES ASSUME InitEstablished PROVE DependedInv
    OBVIOUS
  <2>1. \A n \in Names : Live(n)
    BY DEF InitEstablished, Live, NewRow
  <2>2. \A r \in Requests : req[r].pc = "idle"
    BY DEF InitEstablished, Idle
  <2>3. QED
    BY <2>1, <2>2, DepsAssumption DEF InitEstablished, DependedInv
<1>2. DependedInv => DependedOnKept
  BY DEF DependedInv, DependedOnKept
<1>3. QED
  BY <1>1, <1>2, TypeInit, TypeNext, DependedNext, PTL DEF SpecEstablished

-----------------------------------------------------------------------------
(* The status of a service nothing works on *)

\* The statement a step of request r executes changes neither the tables of
\* services nor a request that is saving.
Aside(r) ==
  /\ UNCHANGED <<created, rows>>
  /\ req[r].pc # "saving"
  /\ \A x \in Requests \ {r} : req'[x] = req[x]

LEMMA AsideSteps ==
  ASSUME TypeInv, NEW r \in Requests,
         \/ Arrive(r) \/ Refuse(r) \/ Accept(r) \/ SaveAudit(r)
         \/ CheckDependencies(r) \/ DeleteDependencies(r)
  PROVE  Aside(r)
<1>0. req \in [Requests -> Request]
  BY DEF TypeInv, TypeOK
<1>1. UNCHANGED <<created, rows>> /\ req[r].pc # "saving"
  BY DEF Arrive, RunScript, DeleteLookup, Refuse, Accept, SaveAudit,
         CheckDependencies, DeleteDependencies
<1>2. \E q : req' = [req EXCEPT ![r] = q]
  <2>1. CASE Arrive(r)
    BY <2>1 DEF Arrive, RunScript, DeleteLookup
  <2>2. CASE Refuse(r) \/ Accept(r) \/ SaveAudit(r)
    BY <2>2 DEF Refuse, Accept, SaveAudit
  <2>3. CASE CheckDependencies(r) \/ DeleteDependencies(r)
    BY <2>3 DEF CheckDependencies, DeleteDependencies
  <2>4. QED
    BY <2>1, <2>2, <2>3
<1>3. \A x \in Requests \ {r} : req'[x] = req[x]
  BY <1>0, <1>2
<1>4. QED
  BY <1>1, <1>3 DEF Aside

Saving(n) == \E r \in Requests : req[r].pc = "saving" /\ req[r].name = n

\* Only an operation between two of its saves may leave a row unsettled.
SettledInv ==
  crashes = 0 => \A n \in Names : Live(n) /\ ~Saving(n) => Settled(rows[n])

LEMMA SettledNext == TypeInv /\ SettledInv /\ [Next]_vars => SettledInv'
<1> SUFFICES ASSUME TypeInv, SettledInv, [Next]_vars, crashes' = 0,
                    NEW n \in Names, Live(n)', ~Saving(n)'
             PROVE  Settled(rows'[n])
  BY DEF SettledInv, Settled
<1>0. /\ req \in [Requests -> Request] /\ rows \in [Names -> Row] /\ Shape
      /\ created \subseteq Names /\ crashes \in Nat
  BY CrashAssumption DEF TypeInv, TypeOK
<1>1. ~Crash /\ crashes = 0
  BY NoCrash
<1>2. Live(n) /\ ~Saving(n) => Settled(rows[n])
  BY <1>1 DEF SettledInv
<1>3. ASSUME NEW m \in Names, CreateService(m) PROVE Settled(rows'[n])
  <2>1. CASE m = n
    BY <1>0, <1>3, <2>1 DEF CreateService, NewRow, Settled
  <2>2. CASE m # n
    <3>1. Live(n) /\ rows'[n] = rows[n]
      BY <1>0, <1>3, <2>2 DEF CreateService, Live
    <3>2. ~Saving(n)
      BY <1>3 DEF CreateService, Saving
    <3>3. QED
      BY <1>2, <3>1, <3>2
  <2>3. QED
    BY <2>1, <2>2
<1>4. ASSUME NEW r \in Requests, Aside(r) PROVE Settled(rows'[n])
  <2>1. Live(n) /\ rows'[n] = rows[n]
    BY <1>4 DEF Aside, Live
  <2>2. ~Saving(n)
    BY <1>4 DEF Aside, Saving
  <2>3. QED
    BY <1>2, <2>1, <2>2
<1>5. ASSUME NEW r \in Requests, SaveStage(r) PROVE Settled(rows'[n])
  <2>1. req[r] \in Request /\ req[r].pc = "saving"
    BY <1>0, <1>5 DEF SaveStage
  <2>2. /\ req'[r].pc = "saving" /\ req'[r].name = req[r].name
        /\ \A x \in Requests \ {r} : req'[x] = req[x]
    BY <1>0, <1>5, <2>1 DEF SaveStage, Request
  <2>3. req[r].name # n
    BY <2>2 DEF Saving
  <2>4. Live(n) /\ rows'[n] = rows[n]
    BY <1>0, <1>5, <2>3 DEF SaveStage, Live
  <2>5. ~Saving(n)
    BY <2>1, <2>2 DEF Saving
  <2>6. QED
    BY <1>2, <2>4, <2>5
<1>6. ASSUME NEW r \in Requests, SaveFinal(r) PROVE Settled(rows'[n])
  <2> DEFINE s == [req[r].snap EXCEPT !.status = Head(req[r].todo),
                                      !.lastOp = req[r].op]
  <2>1. /\ req[r] \in Request /\ req[r].snap \in Row
        /\ Len(req[r].todo) = 1 /\ req[r].todo \in Seq(Status)
        /\ req[r].todo[Len(req[r].todo)] = Target(req[r].op)
        /\ req[r].op \in Ops /\ req[r].name \in Names
    BY <1>0, <1>6 DEF SaveFinal, Shape, RequestShape, Request
  <2>2. s.status = Target(req[r].op) /\ s.lastOp = req[r].op
    <3>1. Head(req[r].todo) = Target(req[r].op)
      BY <2>1
    <3>2. QED
      BY <2>1, <3>1 DEF Row
  <2>3. Settled(s)
    BY <2>1, <2>2 DEF Settled, Target, Ops
  <2>4. rows' = [rows EXCEPT ![req[r].name] = s] /\ created' = created
    BY <1>6 DEF SaveFinal
  <2>5. \A x \in Requests \ {r} : req'[x] = req[x]
    BY <1>0, <1>6 DEF SaveFinal
  <2> HIDE DEF s
  <2>6. CASE req[r].name = n
    BY <1>0, <2>3, <2>4, <2>6
  <2>7. CASE req[r].name # n
    <3>1. Live(n) /\ rows'[n] = rows[n]
      BY <1>0, <2>4, <2>7 DEF Live
    <3>2. ~Saving(n)
      BY <2>5, <2>7 DEF Saving
    <3>3. QED
      BY <1>2, <3>1, <3>2
  <2>8. QED
    BY <2>6, <2>7
<1>7. ASSUME NEW r \in Requests, MarkDeleted(r) PROVE Settled(rows'[n])
  <2> DEFINE s == [req[r].snap EXCEPT !.deleted = TRUE]
  <2>1. /\ req[r].snap \in Row /\ req[r].pc = "remove"
        /\ rows' = [rows EXCEPT ![req[r].name] = s] /\ created' = created
    BY <1>0, <1>7 DEF MarkDeleted, Request
  <2>2. s.deleted
    BY <2>1 DEF Row
  <2> HIDE DEF s
  <2>3. rows'[n] = rows[n] /\ Live(n)
    BY <1>0, <2>1, <2>2 DEF Live
  <2>4. \A x \in Requests \ {r} : req'[x] = req[x]
    BY <1>0, <1>7 DEF MarkDeleted
  <2>5. ~Saving(n)
    BY <2>1, <2>4 DEF Saving
  <2>6. QED
    BY <1>2, <2>3, <2>5
<1>8. CASE Boot \/ UNCHANGED vars
  <2>1. UNCHANGED <<created, rows, req>>
    BY <1>8 DEF Boot, InitDefaultDependencies, InsertDependency, vars
  <2>2. QED
    BY <1>2, <2>1 DEF Live, Saving
<1>9. QED
  BY <1>1, <1>3, <1>4, <1>5, <1>6, <1>7, <1>8, AsideSteps DEF Next, Continue

\* However concurrent operations and deletions overwrite each other's rows, a
\* live service nothing works on has the status its last operation ends in.
THEOREM IdleIsSettled ==
  (Spec => []SettledWhenIdle) /\ (SpecEstablished => []SettledWhenIdle)
<1>1. Init \/ InitEstablished => SettledInv
  <2>1. Settled(NewRow)
    BY DEF Settled, NewRow
  <2>2. QED
    BY <2>1 DEF Init, InitEstablished, SettledInv
<1>2. SettledInv => SettledWhenIdle
  BY DEF SettledInv, SettledWhenIdle, Saving, Busy
<1>3. QED
  BY <1>1, <1>2, TypeInit, TypeNext, SettledNext, PTL DEF Spec, SpecEstablished

-----------------------------------------------------------------------------
(* The dependencies of deleted services *)

\* A deletion that has marked the row still owes the removal of its
\* dependencies; nothing else marks a row.
UnlinkedInv ==
  crashes = 0 =>
    /\ boot.pc = "done"
    /\ \A d \in deps : rows[d[1]].deleted =>
         \E r \in Requests : req[r].pc = "unlink" /\ req[r].name = d[1]

LEMMA UnlinkedNext == TypeInv /\ UnlinkedInv /\ [Next]_vars => UnlinkedInv'
<1> SUFFICES ASSUME TypeInv, UnlinkedInv, [Next]_vars, crashes' = 0
             PROVE  /\ boot'.pc = "done"
                    /\ \A d \in deps' : rows'[d[1]].deleted =>
                         \E r \in Requests : req'[r].pc = "unlink" /\ req'[r].name = d[1]
  BY DEF UnlinkedInv
<1>0. /\ req \in [Requests -> Request] /\ rows \in [Names -> Row] /\ Shape
      /\ created \subseteq Names /\ deps \subseteq Names \X Names
  BY DepsAssumption DEF TypeInv, TypeOK
<1>1. ~Crash /\ crashes = 0
  BY NoCrash
<1>2. /\ boot.pc = "done"
      /\ \A d \in deps : rows[d[1]].deleted =>
           \E r \in Requests : req[r].pc = "unlink" /\ req[r].name = d[1]
  BY <1>1 DEF UnlinkedInv
<1> DEFINE Good == /\ boot'.pc = "done"
                   /\ \A d \in deps' : rows'[d[1]].deleted =>
                        \E r \in Requests : req'[r].pc = "unlink" /\ req'[r].name = d[1]
<1>3. ASSUME UNCHANGED <<deps, boot>>, NEW r \in Requests, req[r].pc # "unlink",
             \A x \in Requests \ {r} : req'[x] = req[x],
             \A n \in Names : rows'[n].deleted => rows[n].deleted
      PROVE  Good
  BY <1>0, <1>2, <1>3
<1>4. ASSUME NEW m \in Names, CreateService(m) PROVE Good
  <2>1. UNCHANGED <<deps, boot, req>>
    BY <1>4 DEF CreateService
  <2>2. \A n \in Names : rows'[n].deleted => rows[n].deleted
    BY <1>0, <1>4 DEF CreateService, NewRow
  <2>3. QED
    BY <1>0, <1>2, <2>1, <2>2
<1>5. ASSUME NEW r \in Requests, Aside(r), UNCHANGED <<deps, boot>>, req[r].pc # "unlink"
      PROVE  Good
  BY <1>3, <1>5 DEF Aside
<1>6. ASSUME NEW r \in Requests,
             Arrive(r) \/ Refuse(r) \/ Accept(r) \/ SaveAudit(r) \/ CheckDependencies(r)
      PROVE  UNCHANGED <<deps, boot>> /\ req[r].pc # "unlink"
  BY <1>6 DEF Arrive, RunScript, DeleteLookup, Refuse, Accept, SaveAudit,
              CheckDependencies
<1>7. ASSUME NEW r \in Requests, SaveStage(r) \/ SaveFinal(r) PROVE Good
  <2>1. /\ req[r].snap \in Row /\ ~req[r].snap.deleted
        /\ req[r].pc = "saving" /\ UNCHANGED <<deps, boot>>
    BY <1>0, <1>7 DEF SaveStage, SaveFinal, Shape, RequestShape, Request
  <2>2. PICK s : ~s.deleted /\ rows' = [rows EXCEPT ![req[r].name] = s]
    <3>1. CASE SaveStage(r)
      <4> DEFINE t == [req[r].snap EXCEPT !.status = Head(req[r].todo)]
      <4>1. rows' = [rows EXCEPT ![req[r].name] = t]
        BY <3>1 DEF SaveStage
      <4>2. ~t.deleted
        BY <2>1 DEF Row
      <4>3. QED
        BY <4>1, <4>2
    <3>2. CASE SaveFinal(r)
      <4> DEFINE t == [req[r].snap EXCEPT !.status = Head(req[r].todo),
                                          !.lastOp = req[r].op]
      <4>1. rows' = [rows EXCEPT ![req[r].name] = t]
        BY <3>2 DEF SaveFinal
      <4>2. ~t.deleted
        BY <2>1 DEF Row
      <4>3. QED
        BY <4>1, <4>2
    <3>3. QED
      BY <1>7, <3>1, <3>2
  <2>3. \A n \in Names : rows'[n].deleted => rows[n].deleted
    BY <1>0, <2>2
  <2>4. \A x \in Requests \ {r} : req'[x] = req[x]
    BY <1>0, <1>7 DEF SaveStage, SaveFinal
  <2>5. QED
    BY <1>3, <2>1, <2>3, <2>4
<1>8. ASSUME NEW r \in Requests, MarkDeleted(r) PROVE Good
  <2>1. /\ req'[r].pc = "unlink" /\ req'[r].name = req[r].name
        /\ \A x \in Requests \ {r} : req'[x] = req[x]
        /\ req[r].pc = "remove" /\ UNCHANGED <<deps, boot>>
    BY <1>0, <1>8 DEF MarkDeleted, Request
  <2>2. \A n \in Names : n # req[r].name => rows'[n] = rows[n]
    BY <1>0, <1>8 DEF MarkDeleted
  <2>3. QED
    BY <1>0, <1>2, <2>1, <2>2
<1>9. ASSUME NEW r \in Requests, DeleteDependencies(r) PROVE Good
  <2>1. /\ deps' = {d \in deps : d[1] # req[r].name}
        /\ UNCHANGED <<rows, boot>>
    BY <1>9 DEF DeleteDependencies
  <2>2. \A x \in Requests \ {r} : req'[x] = req[x]
    BY <1>0, <1>9 DEF DeleteDependencies
  <2>3. QED
    BY <1>2, <2>1, <2>2
<1>10. ASSUME Boot PROVE Good
  BY <1>2, <1>10 DEF Boot, InitDefaultDependencies, InsertDependency
<1>11. ASSUME UNCHANGED vars PROVE Good
  BY <1>2, <1>11 DEF vars
<1> HIDE DEF Good
<1>12. ASSUME NEW r \in Requests, Arrive(r) \/ Continue(r) PROVE Good
  <2>1. CASE Arrive(r) \/ Refuse(r) \/ Accept(r) \/ SaveAudit(r) \/ CheckDependencies(r)
    <3>1. UNCHANGED <<deps, boot>> /\ req[r].pc # "unlink"
      BY <1>6, <2>1
    <3>2. Aside(r)
      BY <2>1, AsideSteps
    <3>3. QED
      BY <1>5, <3>1, <3>2
  <2>2. QED
    BY <1>7, <1>8, <1>9, <1>12, <2>1 DEF Continue
<1>13. Good
  <2>1. CASE \E r \in Requests : Arrive(r) \/ Continue(r)
    BY <1>12, <2>1
  <2>2. CASE \E n \in Names : CreateService(n)
    BY <1>4, <2>2
  <2>3. QED
    BY <1>1, <1>10, <1>11, <2>1, <2>2 DEF Next
<1>14. QED
  BY <1>13 DEF Good

\* The dependencies of a deleted service outlive its deletion only while the
\* deletion is still at work.
THEOREM DeletedIsUnlinked == SpecEstablished => []DeletedUnlinked
<1>1. InitEstablished => UnlinkedInv
  <2>1. ~NewRow.deleted
    BY DEF NewRow
  <2>2. QED
    BY <2>1, DepsAssumption DEF InitEstablished, UnlinkedInv
<1>2. UnlinkedInv => DeletedUnlinked
  BY DEF UnlinkedInv, DeletedUnlinked, Busy
<1>3. QED
  BY <1>1, <1>2, TypeInit, TypeNext, UnlinkedNext, PTL DEF SpecEstablished

-----------------------------------------------------------------------------
(* The audit trail *)

\* The operation is in the trail, or the request that performed it is about to
\* put it there.
Recorded(trail, rq, n, op) ==
  \/ <<n, op>> \in trail
  \/ \E r \in Requests : rq[r].pc = "audit" /\ rq[r].name = n /\ rq[r].op = op

\* A request writes back the lastOp of its snapshot, however old that is.
AuditInv ==
  crashes = 0 =>
    /\ \A n \in Names : rows[n].lastOp # "" => Recorded(audit, req, n, rows[n].lastOp)
    /\ \A r \in Requests :
         req[r].snap.lastOp # "" => Recorded(audit, req, req[r].name, req[r].snap.lastOp)

LEMMA AuditNext == TypeInv /\ AuditInv /\ [Next]_vars => AuditInv'
<1> SUFFICES ASSUME TypeInv, AuditInv, [Next]_vars, crashes' = 0 PROVE AuditInv'
  BY DEF AuditInv
<1>0. /\ req \in [Requests -> Request] /\ rows \in [Names -> Row] /\ Shape
  BY DEF TypeInv, TypeOK
<1>1. ~Crash /\ crashes = 0
  BY NoCrash
<1>2. /\ \A n \in Names : rows[n].lastOp # "" => Recorded(audit, req, n, rows[n].lastOp)
      /\ \A r \in Requests :
           req[r].snap.lastOp # "" => Recorded(audit, req, req[r].name, req[r].snap.lastOp)
  BY <1>1 DEF AuditInv
<1>3. Idle.snap.lastOp = "" /\ NewRow.lastOp = ""
  BY DEF Idle, NewRow
\* What is recorded stays recorded, when the step leaves the audit state of a
\* request only by writing the trail ...
<1>4. ASSUME NEW r \in Requests, audit \subseteq audit',
             \A x \in Requests \ {r} : req'[x] = req[x],
             req[r].pc = "audit" => <<req[r].name, req[r].op>> \in audit'
      PROVE  \A n, op : Recorded(audit, req, n, op) => Recorded(audit', req', n, op)
  <2> SUFFICES ASSUME NEW n, NEW op, Recorded(audit, req, n, op), <<n, op>> \notin audit'
               PROVE  Recorded(audit', req', n, op)
    BY DEF Recorded
  <2>1. PICK x \in Requests : req[x].pc = "audit" /\ req[x].name = n /\ req[x].op = op
    BY <1>4 DEF Recorded
  <2>2. x # r
    BY <1>4, <2>1
  <2>3. QED
    BY <1>4, <2>1, <2>2 DEF Recorded
\* ... so that the rows and the snapshots the step does not write stay good.
<1>5. ASSUME NEW r \in Requests, NEW m \in Names,
             \A n, op : Recorded(audit, req, n, op) => Recorded(audit', req', n, op),
             \A x \in Requests \ {r} : req'[x] = req[x],
             \A n \in Names \ {m} : rows'[n] = rows[n],
             rows'[m].lastOp # "" => Recorded(audit', req', m, rows'[m].lastOp),
             req'[r].snap.lastOp # "" => Recorded(audit', req', req'[r].name, req'[r].snap.lastOp)
      PROVE  AuditInv'
  <2>1. ASSUME NEW n \in Names, rows'[n].lastOp # ""
        PROVE  Recorded(audit', req', n, rows'[n].lastOp)
    BY <1>2, <1>5, <2>1
  <2>2. ASSUME NEW x \in Requests, req'[x].snap.lastOp # ""
        PROVE  Recorded(audit', req', req'[x].name, req'[x].snap.lastOp)
    BY <1>2, <1>5, <2>2
  <2>3. QED
    BY <2>1, <2>2 DEF AuditInv
<1>6. ASSUME UNCHANGED <<audit, req>>,
             \A n \in Names : rows'[n].lastOp = "" \/ rows'[n] = rows[n]
      PROVE  AuditInv'
  <2>1. ASSUME NEW n \in Names, rows'[n].lastOp # ""
        PROVE  Recorded(audit', req', n, rows'[n].lastOp)
    BY <1>2, <1>6, <2>1
  <2>2. ASSUME NEW x \in Requests, req'[x].snap.lastOp # ""
        PROVE  Recorded(audit', req', req'[x].name, req'[x].snap.lastOp)
    BY <1>2, <1>6, <2>2
  <2>3. QED
    BY <2>1, <2>2 DEF AuditInv
<1>7. ASSUME NEW n \in Names, CreateService(n) PROVE AuditInv'
  <2>1. UNCHANGED <<audit, req>> /\ rows' = [rows EXCEPT ![n] = NewRow]
    BY <1>7 DEF CreateService
  <2>2. \A m \in Names : rows'[m].lastOp = "" \/ rows'[m] = rows[m]
    BY <1>0, <1>3, <2>1
  <2>3. QED
    BY <1>6, <2>1, <2>2
<1>8. CASE Boot \/ UNCHANGED vars
  <2>1. UNCHANGED <<audit, req, rows>>
    BY <1>8 DEF Boot, InitDefaultDependencies, InsertDependency, vars
  <2>2. QED
    BY <1>6, <2>1
\* The steps that write no row.
<1>9. ASSUME NEW r \in Requests,
             Arrive(r) \/ Refuse(r) \/ Accept(r) \/ SaveAudit(r)
               \/ CheckDependencies(r) \/ DeleteDependencies(r)
      PROVE  AuditInv'
  <2>1. Aside(r)
    BY <1>9, AsideSteps
  <2>2. audit \subseteq audit' /\ (req[r].pc = "audit" => <<req[r].name, req[r].op>> \in audit')
    BY <1>9 DEF Arrive, RunScript, DeleteLookup, Refuse, Accept, SaveAudit,
                CheckDependencies, DeleteDependencies
  <2>3. \A n, op : Recorded(audit, req, n, op) => Recorded(audit', req', n, op)
    BY <1>4, <2>1, <2>2 DEF Aside
  <2>4. req[r] \in Request /\ req[r].name \in Names \cup {""}
    BY <1>0 DEF Request
  <2>5. \/ req'[r].snap.lastOp = ""
        \/ req'[r].snap = req[r].snap /\ req'[r].name = req[r].name
        \/ req'[r].name \in Names /\ req'[r].snap = rows[req'[r].name]
    <3>1. ASSUME NEW n \in Names, DeleteLookup(r, n)
          PROVE  req'[r].name = n /\ req'[r].snap = rows[n]
      BY <1>0, <3>1 DEF DeleteLookup, Idle
    <3>2. ASSUME NEW n \in Names, NEW op \in Ops, RunScript(r, op, n)
          PROVE  req'[r].snap.lastOp = ""
      <4>1. req'[r] = [Idle EXCEPT !.pc = "lookup", !.op = op, !.name = n]
        BY <1>0, <3>2 DEF RunScript
      <4>2. req'[r].snap = Idle.snap
        BY <4>1 DEF Idle
      <4>3. QED
        BY <1>3, <4>2
    <3>3. ASSUME req' = [req EXCEPT ![r] = Idle] PROVE req'[r].snap.lastOp = ""
      <4>1. req'[r] = Idle
        BY <1>0, <3>3
      <4>2. QED
        BY <1>3, <4>1
    <3>4. CASE Refuse(r) \/ SaveAudit(r) \/ DeleteDependencies(r)
      BY <3>3, <3>4 DEF Refuse, SaveAudit, DeleteDependencies
    <3>5. CASE Accept(r)
      <4>1. req[r].name \in Names
        BY <1>0, <3>5 DEF Accept, Shape, RequestShape
      <4>2. QED
        BY <1>0, <2>4, <3>5, <4>1 DEF Accept, Request
    <3>6. CASE CheckDependencies(r)
      <4>1. \/ req' = [req EXCEPT ![r] = Idle]
            \/ req' = [req EXCEPT ![r] = [req[r] EXCEPT !.pc = "remove"]]
        BY <3>6 DEF CheckDependencies
      <4>2. QED
        BY <1>0, <2>4, <3>3, <4>1 DEF Request
    <3>7. QED
      BY <1>9, <3>1, <3>2, <3>4, <3>5, <3>6 DEF Arrive
  <2>6. \A n \in Names : rows'[n].lastOp # "" => Recorded(audit', req', n, rows'[n].lastOp)
    BY <1>2, <2>1, <2>3 DEF Aside
  <2>7. ASSUME NEW x \in Requests, req'[x].snap.lastOp # ""
        PROVE  Recorded(audit', req', req'[x].name, req'[x].snap.lastOp)
    BY <1>2, <2>1, <2>3, <2>5, <2>7 DEF Aside
  <2>8. QED
    BY <2>6, <2>7 DEF AuditInv
\* The steps that write the row of their request's service.
<1>10. ASSUME NEW r \in Requests, NEW s,
              req[r].pc # "audit", req[r].name \in Names, audit' = audit,
              \A x \in Requests \ {r} : req'[x] = req[x],
              rows' = [rows EXCEPT ![req[r].name] = s],
              req'[r].name = req[r].name, req'[r].snap.lastOp = s.lastOp,
              \/ s.lastOp = req[r].snap.lastOp
              \/ req'[r].pc = "audit" /\ s.lastOp = req'[r].op
       PROVE  AuditInv'
  <2>1. \A n, op : Recorded(audit, req, n, op) => Recorded(audit', req', n, op)
    BY <1>4, <1>10
  <2>2. s.lastOp # "" => Recorded(audit', req', req[r].name, s.lastOp)
    <3>1. CASE s.lastOp = req[r].snap.lastOp
      BY <1>2, <2>1, <3>1
    <3>2. CASE req'[r].pc = "audit" /\ s.lastOp = req'[r].op
      BY <1>10, <3>2 DEF Recorded
    <3>3. QED
      BY <1>10, <3>1, <3>2
  <2>3. rows'[req[r].name] = s /\ \A n \in Names \ {req[r].name} : rows'[n] = rows[n]
    BY <1>0, <1>10
  <2>4. rows'[req[r].name].lastOp # "" => Recorded(audit', req', req[r].name, rows'[req[r].name].lastOp)
    BY <2>2, <2>3
  <2>5. req'[r].snap.lastOp # "" => Recorded(audit', req', req'[r].name, req'[r].snap.lastOp)
    BY <1>10, <2>2
  <2>6. QED
    BY <1>5, <1>10, <2>1, <2>3, <2>4, <2>5
<1>11. ASSUME NEW r \in Requests, SaveStage(r) PROVE AuditInv'
  <2> DEFINE s == [req[r].snap EXCEPT !.status = Head(req[r].todo)]
  <2>1. /\ req[r] \in Request /\ req[r].snap \in Row /\ req[r].pc = "saving"
        /\ req[r].name \in Names
    BY <1>0, <1>11 DEF SaveStage, Shape, RequestShape, Request
  <2>2. s.lastOp = req[r].snap.lastOp
    BY <2>1 DEF Row
  <2>3. /\ rows' = [rows EXCEPT ![req[r].name] = s]
        /\ req' = [req EXCEPT ![r] = [req[r] EXCEPT !.snap = s, !.todo = Tail(req[r].todo)]]
        /\ audit' = audit
    BY <1>11 DEF SaveStage
  <2> HIDE DEF s
  <2>4. req'[r].name = req[r].name /\ req'[r].snap = s
    BY <1>0, <2>1, <2>3 DEF Request
  <2>5. \A x \in Requests \ {r} : req'[x] = req[x]
    BY <1>0, <2>3
  <2>6. QED
    BY <1>10, <2>1, <2>2, <2>3, <2>4, <2>5
<1>12. ASSUME NEW r \in Requests, SaveFinal(r) PROVE AuditInv'
  <2> DEFINE s == [req[r].snap EXCEPT !.status = Head(req[r].todo),
                                      !.lastOp = req[r].op]
  <2>1. /\ req[r] \in Request /\ req[r].snap \in Row /\ req[r].pc = "saving"
        /\ req[r].name \in Names
    BY <1>0, <1>12 DEF SaveFinal, Shape, RequestShape, Request
  <2>2. s.lastOp = req[r].op
    BY <2>1 DEF Row
  <2>3. /\ rows' = [rows EXCEPT ![req[r].name] = s]
        /\ req' = [req EXCEPT ![r] = [req[r] EXCEPT !.pc = "audit", !.snap = s, !.todo = <<>>]]
        /\ audit' = audit
    BY <1>12 DEF SaveFinal
  <2> HIDE DEF s
  <2>4. /\ req'[r].name = req[r].name /\ req'[r].snap = s
        /\ req'[r].pc = "audit" /\ req'[r].op = req[r].op
    BY <1>0, <2>1, <2>3 DEF Request
  <2>5. \A x \in Requests \ {r} : req'[x] = req[x]
    BY <1>0, <2>3
  <2>6. QED
    BY <1>10, <2>1, <2>2, <2>3, <2>4, <2>5
<1>13. ASSUME NEW r \in Requests, MarkDeleted(r) PROVE AuditInv'
  <2> DEFINE s == [req[r].snap EXCEPT !.deleted = TRUE]
  <2>1. /\ req[r] \in Request /\ req[r].snap \in Row /\ req[r].pc = "remove"
        /\ req[r].name \in Names
    BY <1>0, <1>13 DEF MarkDeleted, Shape, RequestShape, Request
  <2>2. s.lastOp = req[r].snap.lastOp
    BY <2>1 DEF Row
  <2>3. /\ rows' = [rows EXCEPT ![req[r].name] = s]
        /\ req' = [req EXCEPT ![r] = [req[r] EXCEPT !.pc = "unlink"]]
        /\ audit' = audit
    BY <1>13 DEF MarkDeleted
  <2> HIDE DEF s
  <2>4. req'[r].name = req[r].name /\ req'[r].snap = req[r].snap
    BY <1>0, <2>1, <2>3 DEF Request
  <2>5. \A x \in Requests \ {r} : req'[x] = req[x]
    BY <1>0, <2>3
  <2>6. QED
    BY <1>10, <2>1, <2>2, <2>3, <2>4, <2>5
<1>14. ASSUME NEW r \in Requests, Arrive(r) \/ Continue(r) PROVE AuditInv'
  BY <1>9, <1>11, <1>12, <1>13, <1>14 DEF Continue
<1>15. QED
  BY <1>1, <1>7, <1>8, <1>14 DEF Next

\* Whatever interleaving overwrote it, the last operation a service shows is in
\* the audit trail once nothing works on the service.
THEOREM LastOpIsAudited ==
  (Spec => []LastOpAudited) /\ (SpecEstablished => []LastOpAudited)
<1>1. Init \/ InitEstablished => AuditInv
  <2>1. NewRow.lastOp = "" /\ Idle.snap.lastOp = ""
    BY DEF NewRow, Idle
  <2>2. QED
    BY <2>1 DEF Init, InitEstablished, AuditInv
<1>2. AuditInv => LastOpAudited
  BY DEF AuditInv, LastOpAudited, Recorded, Busy
<1>3. QED
  BY <1>1, <1>2, TypeInit, TypeNext, AuditNext, PTL DEF Spec, SpecEstablished
=============================================================================
