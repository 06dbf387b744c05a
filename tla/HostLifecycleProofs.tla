------------------------ MODULE HostLifecycleProofs ------------------------
(***************************************************************************)
(* Proofs about HostLifecycle, for any sets of names and of requests, any  *)
(* names that contain others and any number of rows and of restarts.       *)
(***************************************************************************)
EXTENDS HostLifecycle, TLAPS

-----------------------------------------------------------------------------
(* Type correctness *)

\* What the fields of a request are worth at each of its statements.
RequestShape(q) ==
  /\ q.pc # "idle" => q.host \in Names
  /\ q.pc \in {"saving", "log"} => q.op \in Ops
  /\ q.pc = "saving" => /\ Len(q.todo) > 0
                        /\ q.snap.id \in Ids
                        /\ q.snap.agent \in AgentStatus

\* A heartbeat that is under way has read a row.
HasRow(b) == b # NoBeat => b.host \in Names /\ b.id \in Ids

Shape == /\ \A r \in Requests : RequestShape(req[r])
         /\ \A h \in Names : HasRow(hb[h])

TypeInv == TypeOK /\ Shape

LEMMA IdleType == Idle \in Request /\ RequestShape(Idle) /\ Idle.pc = "idle"
<1>1. <<>> \in Seq(Write)
  OBVIOUS
<1>2. NoSnapshot \in Snapshot
  BY BoundAssumption DEF NoSnapshot, Snapshot
<1>3. QED
  BY <1>1, <1>2 DEF Idle, Request, RequestShape

LEMMA WriteType ==
  ASSUME NEW s \in Status, NEW a \in AgentStatus \cup {""}
  PROVE  W(s, a) \in Write
BY DEF W, Write

\* The saves of an operation: at least one, each of statuses that exist.
LEMMA PlanShape ==
  ASSUME NEW op \in Ops
  PROVE  Plan[op] \in Seq(Write) /\ Len(Plan[op]) > 0
<1> DEFINE OneOf(s) == s \in Seq(Write) /\ Len(s) > 0
<1>1. ASSUME NEW v \in Write PROVE OneOf(<<v>>)
  OBVIOUS
<1>2. ASSUME NEW u \in Write, NEW v \in Write PROVE OneOf(<<u, v>>)
  OBVIOUS
<1>3. ASSUME NEW u \in Write, NEW v \in Write, NEW x \in Write, NEW y \in Write
      PROVE OneOf(<<u, v, x, y>>)
  OBVIOUS
<1>4. \A s \in {"RUNNING", "STOPPING", "DISCONNECT", "STOPPED", "STARTING", "HEALTHY",
                "MAINTENANCE", "OFFLINE"},
         a \in {"ONLINE", "OFFLINE", ""} : W(s, a) \in Write
  BY WriteType DEF Status, Transient, Down, AgentStatus
<1> HIDE DEF OneOf
<1>5. op \in {"START", "STOP", "RESTART", "ENTER_MAINTENANCE", "EXIT_MAINTENANCE", "OFFLINE",
              "BATCH_START", "BATCH_STOP"}
  BY DEF Ops, Plan
<1>6. ASSUME op = "START" PROVE OneOf(Plan[op])
  <2>1. Plan[op] = <<W("RUNNING", ""), W("RUNNING", "ONLINE")>>
    BY <1>6 DEF Plan
  <2>2. QED
    BY <1>2, <1>4, <2>1
<1>7. ASSUME op = "STOP" PROVE OneOf(Plan[op])
  <2>1. Plan[op] = <<W("STOPPING", ""), W("DISCONNECT", "OFFLINE")>>
    BY <1>7 DEF Plan
  <2>2. QED
    BY <1>2, <1>4, <2>1
<1>8. ASSUME op = "RESTART" PROVE OneOf(Plan[op])
  <2>1. Plan[op] = <<W("STOPPING", ""), W("STOPPED", ""), W("STARTING", ""), W("HEALTHY", "ONLINE")>>
    BY <1>8 DEF Plan
  <2>2. /\ W("STOPPING", "") \in Write /\ W("STOPPED", "") \in Write
        /\ W("STARTING", "") \in Write /\ W("HEALTHY", "ONLINE") \in Write
    BY <1>4
  <2>3. OneOf(<<W("STOPPING", ""), W("STOPPED", ""), W("STARTING", ""), W("HEALTHY", "ONLINE")>>)
    BY <1>3, <2>2
  <2>4. QED
    BY <2>1, <2>3
<1>9. ASSUME op = "ENTER_MAINTENANCE" PROVE OneOf(Plan[op])
  <2>1. Plan[op] = <<W("MAINTENANCE", "")>>
    BY <1>9 DEF Plan
  <2>2. QED
    BY <1>1, <1>4, <2>1
<1>10. ASSUME op = "EXIT_MAINTENANCE" PROVE OneOf(Plan[op])
  <2>1. Plan[op] = <<W("HEALTHY", "")>>
    BY <1>10 DEF Plan
  <2>2. QED
    BY <1>1, <1>4, <2>1
<1>11. ASSUME op = "OFFLINE" PROVE OneOf(Plan[op])
  <2>1. Plan[op] = <<W("OFFLINE", "OFFLINE")>>
    BY <1>11 DEF Plan
  <2>2. QED
    BY <1>1, <1>4, <2>1
<1>13. ASSUME op = "BATCH_START" PROVE OneOf(Plan[op])
  <2>1. Plan[op] = <<W("STARTING", "")>>
    BY <1>13 DEF Plan
  <2>2. QED
    BY <1>1, <1>4, <2>1
<1>14. ASSUME op = "BATCH_STOP" PROVE OneOf(Plan[op])
  <2>1. Plan[op] = <<W("STOPPING", "")>>
    BY <1>14 DEF Plan
  <2>2. QED
    BY <1>1, <1>4, <2>1
<1>15. OneOf(Plan[op])
  BY <1>5, <1>6, <1>7, <1>8, <1>9, <1>10, <1>11, <1>13, <1>14
<1>16. QED
  BY <1>15 DEF OneOf

\* A request that moves to q while the others stay where they are.
LEMMA MoveRequest ==
  ASSUME req \in [Requests -> Request], Shape,
         NEW r \in Requests, NEW q \in Request, RequestShape(q),
         req' = [req EXCEPT ![r] = q], hb' = hb
  PROVE  req' \in [Requests -> Request] /\ Shape'
<1>1. req' \in [Requests -> Request]
  OBVIOUS
<1>2. req'[r] = q /\ \A x \in Requests \ {r} : req'[x] = req[x]
  OBVIOUS
<1>3. ASSUME NEW x \in Requests PROVE RequestShape(req'[x])
  BY <1>2 DEF Shape
<1>4. QED
  BY <1>1, <1>3 DEF Shape

\* What db.Save leaves: rows, with the id that was there or that of the snapshot.
LEMMA SavedRows ==
  ASSUME rows \in [Names -> Row \cup {NoRow}],
         NEW h \in Names, NEW id \in Ids, NEW b \in BOOLEAN, NEW s \in Status,
         NEW a \in AgentStatus
  PROVE  /\ Saved(h, id, b, s, a) \in [Names -> Row \cup {NoRow}]
         /\ Saved(h, id, b, s, a)[h].id \in {rows[h].id, id}
         /\ \A g \in Names \ {h} : Saved(h, id, b, s, a)[g] = rows[g]
<1> DEFINE row == [id |-> IF Present(h) THEN rows[h].id ELSE id, status |-> s, agent |-> a,
                   bare |-> b]
<1>1. Saved(h, id, b, s, a) = [rows EXCEPT ![h] = row]
  BY DEF Saved
<1>2. row \in Row
  BY DEF Row, Present
<1>3. row.id \in {rows[h].id, id}
  OBVIOUS
<1> HIDE DEF row
<1>4. QED
  BY <1>1, <1>2, <1>3

LEMMA TypeInit == Init => TypeInv
<1>1. ASSUME Init PROVE TypeOK
  <2>1. crashes \in 0..MaxCrashes
    <3>1. crashes = 0
      BY <1>1 DEF Init
    <3>2. QED
      BY <3>1, BoundAssumption
  <2>2. QED
    BY <1>1, <2>1, IdleType DEF Init, TypeOK, Beat, NoBeat, Agents
<1>2. ASSUME Init PROVE Shape
  BY <1>2, IdleType DEF Init, Shape, HasRow
<1>3. QED
  BY <1>1, <1>2 DEF TypeInv

\* The steps that touch the requests.
LEMMA TypeRequests ==
  ASSUME TypeInv, NEW r \in Requests, Arrive(r) \/ Continue(r)
  PROVE  TypeInv'
<1> USE BoundAssumption
<1>0. TypeOK /\ Shape /\ req \in [Requests -> Request] /\ req[r] \in Request
      /\ RequestShape(req[r])
  BY DEF TypeInv, TypeOK, Shape
<1>1. ASSUME NEW h \in Names, NEW op \in Ops, Lookup(r, op, h) PROVE TypeInv'
  <2> DEFINE q == [pc |-> "saving", op |-> op, host |-> h, snap |-> SnapshotOf(h),
                   todo |-> Plan[op]]
  <2>1. rows[h] \in Row
    BY <1>0, <1>1 DEF Lookup, Present, TypeOK
  <2>2. SnapshotOf(h) \in Snapshot /\ SnapshotOf(h).id \in Ids
        /\ SnapshotOf(h).agent \in AgentStatus
    BY <2>1 DEF SnapshotOf, Snapshot, Row
  <2>3. q \in Request /\ RequestShape(q)
    BY <2>2, PlanShape DEF Request, RequestShape
  <2>4. req' = [req EXCEPT ![r] = q] /\ hb' = hb
    BY <1>1 DEF Lookup
  <2> HIDE DEF q
  <2>5. req' \in [Requests -> Request] /\ Shape'
    BY <1>0, <2>3, <2>4, MoveRequest
  <2>6. QED
    BY <1>0, <1>1, <2>5 DEF Lookup, TypeInv, TypeOK
<1>2. ASSUME NEW h \in Names, BatchRestart(r, h) PROVE TypeInv'
  <2> DEFINE q == [Idle EXCEPT !.pc = "update", !.op = "BATCH_RESTART", !.host = h]
  <2>1. q \in Request /\ RequestShape(q)
    BY IdleType DEF Request, RequestShape, Batch
  <2>2. req' = [req EXCEPT ![r] = q] /\ hb' = hb
    BY <1>2 DEF BatchRestart
  <2> HIDE DEF q
  <2>3. req' \in [Requests -> Request] /\ Shape'
    BY <1>0, <2>1, <2>2, MoveRequest
  <2>4. QED
    BY <1>0, <1>2, <2>3 DEF BatchRestart, TypeInv, TypeOK
<1>3. ASSUME NEW h \in Names, DeleteLookup(r, h) PROVE TypeInv'
  <2>1. PICK g \in Names :
          /\ Present(g)
          /\ req' = [req EXCEPT ![r] = [Idle EXCEPT !.pc = "delete", !.op = "DELETE",
                                                    !.host = h, !.snap = SnapshotOf(g)]]
    BY <1>3 DEF DeleteLookup
  <2> DEFINE q == [Idle EXCEPT !.pc = "delete", !.op = "DELETE",
                               !.host = h, !.snap = SnapshotOf(g)]
  <2>2. SnapshotOf(g) \in Snapshot
    BY <1>0, <2>1 DEF SnapshotOf, Snapshot, Row, Present, TypeOK
  <2>3. q \in Request /\ RequestShape(q)
    BY <2>2, IdleType DEF Request, RequestShape
  <2>4. req' = [req EXCEPT ![r] = q] /\ hb' = hb
    BY <1>3, <2>1 DEF DeleteLookup
  <2> HIDE DEF q
  <2>5. req' \in [Requests -> Request] /\ Shape'
    BY <1>0, <2>3, <2>4, MoveRequest
  <2>6. QED
    BY <1>0, <1>3, <2>5 DEF DeleteLookup, TypeInv, TypeOK
<1>4. ASSUME req' = [req EXCEPT ![r] = Idle], hb' = hb
      PROVE  req' \in [Requests -> Request] /\ Shape'
  BY <1>0, <1>4, IdleType, MoveRequest
<1>5. ASSUME Save(r) PROVE TypeInv'
  <2> DEFINE w == Head(req[r].todo)
             a == Agent(req[r].snap.agent, w)
             next == IF Len(req[r].todo) > 1 THEN "saving"
                     ELSE IF req[r].op \in Batch THEN "update" ELSE "log"
             q == [req[r] EXCEPT !.pc = next, !.snap.agent = a, !.todo = Tail(req[r].todo)]
  <2>1. /\ req[r].pc = "saving" /\ req[r].host \in Names /\ req[r].op \in Ops
        /\ req[r].todo \in Seq(Write) /\ Len(req[r].todo) > 0
        /\ req[r].snap \in Snapshot /\ req[r].snap.id \in Ids
        /\ req[r].snap.agent \in AgentStatus
    BY <1>0, <1>5 DEF Save, Request, RequestShape
  <2>2. w \in Write /\ Tail(req[r].todo) \in Seq(Write)
        /\ (Len(req[r].todo) > 1 => Len(Tail(req[r].todo)) > 0)
    BY <2>1
  <2>3. w.status \in Status /\ a \in AgentStatus
    BY <2>1, <2>2 DEF Write, Agent
  <2>4. rows' \in [Names -> Row \cup {NoRow}]
    <3>1. rows' = Saved(req[r].host, req[r].snap.id, req[r].snap.bare, w.status, a)
      BY <1>5 DEF Save
    <3>2. req[r].snap.bare \in BOOLEAN
      BY <2>1 DEF Snapshot
    <3>3. QED
      BY <1>0, <2>1, <2>3, <3>1, <3>2, SavedRows DEF TypeOK
  <2>5. next \in {"saving", "log", "update"}
    OBVIOUS
  <2>6. req' = [req EXCEPT ![r] = q] /\ hb' = hb
    BY <1>5 DEF Save
  <2>7. next = "saving" => Len(req[r].todo) > 1
    OBVIOUS
  <2> HIDE DEF next, a, w
  <2>8. q \in Request /\ q.pc = next /\ q.op = req[r].op /\ q.host = req[r].host
        /\ q.todo = Tail(req[r].todo) /\ q.snap.id = req[r].snap.id /\ q.snap.agent = a
    BY <1>0, <2>1, <2>2, <2>3, <2>5 DEF Request, Snapshot
  <2>9. RequestShape(q)
    BY <2>1, <2>2, <2>3, <2>7, <2>8 DEF RequestShape
  <2> HIDE DEF q
  <2>10. req' \in [Requests -> Request] /\ Shape'
    BY <1>0, <2>6, <2>8, <2>9, MoveRequest
  <2>11. QED
    BY <1>0, <1>5, <2>4, <2>10 DEF Save, TypeInv, TypeOK
<1>6. ASSUME SaveLog(r) PROVE TypeInv'
  <2>1. req[r].host \in Names /\ req[r].op \in Ops
    BY <1>0, <1>6 DEF SaveLog, RequestShape
  <2>2. log' \in [Names -> Ops \cup {""}]
    BY <1>0, <1>6, <2>1 DEF SaveLog, TypeOK
  <2>3. QED
    BY <1>0, <1>4, <1>6, <2>2 DEF SaveLog, TypeInv, TypeOK
<1>7. ASSUME Update(r) PROVE TypeInv'
  <2>1. /\ "HEALTHY" \in Status /\ "STOPPED" \in Status
        /\ "ONLINE" \in AgentStatus /\ "OFFLINE" \in AgentStatus
    BY DEF Status, Down, AgentStatus
  <2>2. \A op \in DOMAIN Afterwards : Afterwards[op].status \in Status
                                    /\ Afterwards[op].agent \in AgentStatus
    BY <2>1 DEF Afterwards, W
  <2>3. req[r].host \in Names
    BY <1>0, <1>7 DEF Update, RequestShape
  <2>4. rows' \in [Names -> Row \cup {NoRow}]
    <3>1. CASE req[r].op \in DOMAIN Afterwards /\ Present(req[r].host)
      <4> DEFINE row == [rows[req[r].host] EXCEPT !.status = Afterwards[req[r].op].status,
                                                  !.agent = Afterwards[req[r].op].agent]
      <4>1. rows[req[r].host] \in Row
        BY <1>0, <2>3, <3>1 DEF TypeOK, Present
      <4>2. row \in Row
        BY <2>2, <3>1, <4>1 DEF Row
      <4>3. rows' = [rows EXCEPT ![req[r].host] = row]
        BY <1>0, <1>7, <2>3, <3>1, <4>1 DEF Update, Row, TypeOK
      <4> HIDE DEF row
      <4>4. QED
        BY <1>0, <4>2, <4>3 DEF TypeOK
    <3>2. CASE ~(req[r].op \in DOMAIN Afterwards /\ Present(req[r].host))
      BY <1>0, <1>7, <3>2 DEF Update, TypeOK
    <3>3. QED
      BY <3>1, <3>2
  <2>5. QED
    BY <1>0, <1>4, <1>7, <2>4 DEF Update, TypeInv, TypeOK
<1>8. ASSUME Delete(r) PROVE TypeInv'
  <2>1. rows' \in [Names -> Row \cup {NoRow}]
    BY <1>0, <1>8 DEF Delete, TypeOK
  <2>2. QED
    BY <1>0, <1>4, <1>8, <2>1 DEF Delete, TypeInv, TypeOK
<1>9. QED
  BY <1>1, <1>2, <1>3, <1>5, <1>6, <1>7, <1>8 DEF Arrive, Continue

LEMMA TypeNext == TypeInv /\ [Next]_vars => TypeInv'
<1> SUFFICES ASSUME TypeInv, [Next]_vars PROVE TypeInv'
  OBVIOUS
<1> USE BoundAssumption
<1>0. TypeOK /\ Shape
  BY DEF TypeInv
<1>1. ASSUME NEW h \in Names, NEW s \in Status, NEW a \in AgentStatus, NEW b \in BOOLEAN,
             Insert(h, s, a, b)
      PROVE  lastId' \in Ids /\ rows' \in [Names -> Row \cup {NoRow}]
  <2>1. lastId' \in Ids
    <3>1. lastId \in Ids \cup {0} /\ lastId < MaxId /\ lastId' = lastId + 1
      BY <1>0, <1>1 DEF Insert, TypeOK
    <3>2. QED
      BY <3>1 DEF Ids
  <2>2. [id |-> lastId', status |-> s, agent |-> a, bare |-> b] \in Row
    BY <2>1 DEF Row
  <2>3. rows' \in [Names -> Row \cup {NoRow}]
    BY <1>0, <1>1, <2>2 DEF Insert, TypeOK
  <2>4. QED
    BY <2>1, <2>3
<1>2. ASSUME NEW h \in Names, AddHost(h) \/ RegisterAgent(h) PROVE TypeInv'
  <2>1. lastId' \in Ids /\ rows' \in [Names -> Row \cup {NoRow}]
    <3>1. {"UNKNOWN", "RUNNING"} \subseteq Status /\ "OFFLINE" \in AgentStatus
      BY DEF Status, AgentStatus
    <3>2. QED
      BY <1>1, <1>2, <3>1 DEF AddHost, RegisterAgent
  <2>2. agents' \in [Names -> Agents]
    BY <1>0, <1>2 DEF AddHost, RegisterAgent, TypeOK, Agents
  <2>3. UNCHANGED <<log, req, hb, crashes>>
    BY <1>2 DEF AddHost, RegisterAgent
  <2>4. QED
    BY <1>0, <2>1, <2>2, <2>3 DEF TypeInv, TypeOK, Shape
<1>3. ASSUME NEW S \in SUBSET Names, BatchDelete(S) PROVE TypeInv'
  BY <1>0, <1>3 DEF BatchDelete, TypeInv, TypeOK, Shape
<1>4. ASSUME NEW h \in Names, AgentStarts(h) \/ AgentDies(h) \/ RegistrationFails(h)
      PROVE  TypeInv'
  <2>1. agents' \in [Names -> Agents]
    BY <1>0, <1>4 DEF AgentStarts, AgentDies, RegistrationFails, TypeOK, Agents
  <2>2. UNCHANGED <<rows, lastId, log, req, hb, crashes>>
    BY <1>4 DEF AgentStarts, AgentDies, RegistrationFails
  <2>3. QED
    BY <1>0, <2>1, <2>2 DEF TypeInv, TypeOK, Shape
<1>5. ASSUME NEW h \in Names, HeartbeatLookup(h) PROVE TypeInv'
  <2>1. PICK g \in Names : /\ Present(g)
                           /\ hb' = [hb EXCEPT ![h] = [host |-> g, id |-> rows[g].id]]
    BY <1>5 DEF HeartbeatLookup
  <2>2. rows[g] \in Row
    BY <1>0, <2>1 DEF Present, TypeOK
  <2>3. [host |-> g, id |-> rows[g].id] \in Beat
    BY <2>2 DEF Row, Beat
  <2>4. hb' \in [Names -> Beat] /\ UNCHANGED <<rows, lastId, log, req, agents, crashes>>
    BY <1>0, <1>5, <2>1, <2>3 DEF HeartbeatLookup, TypeOK
  <2>5. HasRow(hb'[h]) /\ \A g2 \in Names \ {h} : hb'[g2] = hb[g2]
    BY <1>0, <2>1, <2>2 DEF HasRow, Row, TypeOK
  <2>6. QED
    BY <1>0, <2>4, <2>5 DEF TypeInv, TypeOK, Shape
<1>6. ASSUME NEW h \in Names, HeartbeatSave(h) PROVE TypeInv'
  <2>1. hb[h].host \in Names /\ hb[h].id \in Ids /\ "RUNNING" \in Status
        /\ "ONLINE" \in AgentStatus
    BY <1>0, <1>6 DEF HeartbeatSave, HasRow, Shape, Status, AgentStatus
  <2>2. rows' \in [Names -> Row \cup {NoRow}]
    BY <1>0, <1>6, <2>1, SavedRows DEF HeartbeatSave, TypeOK
  <2>3. hb' \in [Names -> Beat] /\ HasRow(hb'[h]) /\ \A g \in Names \ {h} : hb'[g] = hb[g]
    BY <1>0, <1>6 DEF HeartbeatSave, TypeOK, HasRow, Beat, NoBeat
  <2>4. QED
    BY <1>0, <1>6, <2>2, <2>3 DEF HeartbeatSave, TypeInv, TypeOK, Shape
<1>7. CASE Crash
  <2>1. crashes' \in 0..MaxCrashes
    <3>1. crashes < MaxCrashes /\ crashes' = crashes + 1
      BY <1>7 DEF Crash
    <3>2. crashes \in 0..MaxCrashes
      BY <1>0 DEF TypeOK
    <3>3. QED
      BY <3>1, <3>2
  <2>2. QED
    BY <1>0, <1>7, <2>1, IdleType DEF Crash, TypeInv, TypeOK, Shape, HasRow, Beat, NoBeat
<1>8. CASE UNCHANGED vars
  BY <1>0, <1>8 DEF vars, TypeInv, TypeOK, Shape
<1>9. QED
  BY <1>2, <1>3, <1>4, <1>5, <1>6, <1>7, <1>8, TypeRequests DEF Next, Heartbeat

LEMMA TypeInvariance == Spec => []TypeInv
BY TypeInit, TypeNext, PTL DEF Spec

\* Every variable keeps its type: in particular no operation, heartbeat or
\* restart stores a status or an agent_status that the inventory does not know.
THEOREM TypeCorrect == Spec => []TypeOK
<1>1. TypeInv => TypeOK
  BY DEF TypeInv
<1>2. QED
  BY <1>1, TypeInvariance, PTL

-----------------------------------------------------------------------------
(* Host ids *)

\* A row that is deleted comes back with its id from the snapshots of requests
\* and of heartbeats.  So distinct rows are not enough: a host lays claim to the
\* id of its row and to those of the snapshots of it that may yet be saved.
Claims(rw, rq, b, h, n) ==
  \/ rw[h].id = n
  \/ \E a \in Names : b[a].host = h /\ b[a].id = n
  \/ \E r \in Requests : rq[r].pc = "saving" /\ rq[r].host = h /\ rq[r].snap.id = n

\* No id has two claimants, and none is claimed before it is given out.
ClaimedOnce(rw, rq, b, last) ==
  /\ \A h \in Names, n \in Ids : Claims(rw, rq, b, h, n) => n <= last
  /\ \A g, h \in Names, n \in Ids :
       Claims(rw, rq, b, g, n) /\ Claims(rw, rq, b, h, n) => g = h

IdInv == ClaimedOnce(rows, req, hb, lastId)

\* Every claim of the next state is one of this state.
Inherited(rw, rq, b) ==
  \A h \in Names, n \in Ids : Claims(rw, rq, b, h, n) => Claims(rows, req, hb, h, n)

LEMMA InheritedClaims ==
  ASSUME IdInv, Inherited(rows', req', hb'), lastId' = lastId
  PROVE  ClaimedOnce(rows', req', hb', lastId')
BY DEF IdInv, ClaimedOnce, Inherited

\* A new row gets an id that nobody claims.
LEMMA NewClaim ==
  ASSUME TypeOK, IdInv, NEW h \in Names, NEW s, NEW a, NEW b, Insert(h, s, a, b),
         req' = req, hb' = hb
  PROVE  ClaimedOnce(rows', req', hb', lastId')
<1>1. lastId \in Nat /\ lastId' = lastId + 1 /\ req' = req /\ hb' = hb
  <2>1. lastId \in Ids \cup {0}
    BY DEF TypeOK
  <2>2. lastId \in Nat
    BY <2>1 DEF Ids
  <2>3. QED
    BY <2>2 DEF Insert
<1>2. rows'[h].id = lastId' /\ \A g \in Names \ {h} : rows'[g] = rows[g]
  BY DEF Insert, TypeOK
<1>3. ASSUME NEW g \in Names, NEW n \in Ids, Claims(rows', req', hb', g, n)
      PROVE  Claims(rows, req, hb, g, n) \/ (g = h /\ n = lastId')
  BY <1>1, <1>2, <1>3 DEF Claims
<1>4. \A g \in Names, n \in Ids : Claims(rows, req, hb, g, n) => n <= lastId
  BY DEF IdInv, ClaimedOnce
<1>5. \A f, g \in Names, n \in Ids :
        Claims(rows, req, hb, f, n) /\ Claims(rows, req, hb, g, n) => f = g
  BY DEF IdInv, ClaimedOnce
<1>6. \A n \in Ids : n \in Nat
  BY DEF Ids
<1>7. ASSUME NEW g \in Names, NEW n \in Ids, Claims(rows', req', hb', g, n)
      PROVE  n <= lastId'
  BY <1>1, <1>3, <1>4, <1>6, <1>7
<1>8. ASSUME NEW f \in Names, NEW g \in Names, NEW n \in Ids,
             Claims(rows', req', hb', f, n), Claims(rows', req', hb', g, n)
      PROVE  f = g
  <2>1. CASE n = lastId'
    <3>1. ~Claims(rows, req, hb, f, n) /\ ~Claims(rows, req, hb, g, n)
      BY <1>1, <1>4, <1>6, <2>1
    <3>2. QED
      BY <1>3, <1>8, <3>1
  <2>2. CASE n # lastId'
    BY <1>3, <1>5, <1>8, <2>2
  <2>3. QED
    BY <2>1, <2>2
<1>9. QED
  BY <1>7, <1>8 DEF ClaimedOnce

\* A request that moves to q claims at most the ids q has in a snapshot to save.
LEMMA MovedClaims ==
  ASSUME TypeOK, NEW r \in Requests, NEW q, req' = [req EXCEPT ![r] = q],
         rows' = rows, hb' = hb,
         q.pc = "saving" => Claims(rows, req, hb, q.host, q.snap.id)
  PROVE  Inherited(rows', req', hb')
<1>1. req'[r] = q /\ \A x \in Requests \ {r} : req'[x] = req[x]
  BY DEF TypeOK
<1>2. QED
  BY <1>1 DEF Inherited, Claims

LEMMA InheritNext ==
  ASSUME TypeInv, [Next]_vars,
         ~\E h \in Names : AddHost(h) \/ RegisterAgent(h)
  PROVE  Inherited(rows', req', hb') /\ lastId' = lastId
<1> DEFINE Good == Inherited(rows', req', hb') /\ lastId' = lastId
<1>0. /\ TypeOK
      /\ req \in [Requests -> Request] /\ rows \in [Names -> Row \cup {NoRow}]
      /\ \A r \in Requests : req[r] \in Request /\ RequestShape(req[r])
  BY DEF TypeInv, TypeOK, Shape
<1>1. ASSUME NEW r \in Requests, NEW h \in Names, NEW op \in Ops, Lookup(r, op, h) PROVE Good
  <2> DEFINE q == [pc |-> "saving", op |-> op, host |-> h, snap |-> SnapshotOf(h),
                   todo |-> Plan[op]]
  <2>1. req' = [req EXCEPT ![r] = q] /\ rows' = rows /\ hb' = hb /\ lastId' = lastId
    BY <1>1 DEF Lookup
  <2>2. q.host = h /\ q.snap.id = rows[h].id
    BY DEF SnapshotOf
  <2> HIDE DEF q
  <2>3. Claims(rows, req, hb, q.host, q.snap.id)
    BY <2>2 DEF Claims
  <2>4. QED
    BY <1>0, <2>1, <2>3, MovedClaims
<1>2. ASSUME NEW r \in Requests, NEW q, q.pc # "saving", req' = [req EXCEPT ![r] = q],
             rows' = rows, hb' = hb, lastId' = lastId
      PROVE  Good
  BY <1>0, <1>2, MovedClaims
<1>3. ASSUME NEW r \in Requests, NEW h \in Names, BatchRestart(r, h) \/ DeleteLookup(r, h)
      PROVE  Good
  <2>1. PICK q : /\ q.pc # "saving"
                 /\ req' = [req EXCEPT ![r] = q]
    <3>1. CASE BatchRestart(r, h)
      <4>1. [Idle EXCEPT !.pc = "update", !.op = "BATCH_RESTART", !.host = h].pc = "update"
        BY DEF Idle
      <4>2. QED
        BY <3>1, <4>1 DEF BatchRestart
    <3>2. CASE DeleteLookup(r, h)
      <4>1. PICK g \in Names :
              req' = [req EXCEPT ![r] = [Idle EXCEPT !.pc = "delete", !.op = "DELETE",
                                                     !.host = h, !.snap = SnapshotOf(g)]]
        BY <3>2 DEF DeleteLookup
      <4>2. [Idle EXCEPT !.pc = "delete", !.op = "DELETE", !.host = h,
                         !.snap = SnapshotOf(g)].pc = "delete"
        BY DEF Idle
      <4>3. QED
        BY <4>1, <4>2
    <3>3. QED
      BY <1>3, <3>1, <3>2
  <2>2. rows' = rows /\ hb' = hb /\ lastId' = lastId
    BY <1>3 DEF BatchRestart, DeleteLookup
  <2>3. QED
    BY <1>2, <2>1, <2>2
<1>4. ASSUME NEW r \in Requests, Save(r) PROVE Good
  <2> DEFINE h == req[r].host
             id == req[r].snap.id
  <2>1. /\ req[r].pc = "saving" /\ h \in Names /\ id \in Ids
        /\ Len(req[r].todo) > 0 /\ req[r].todo \in Seq(Write)
        /\ req[r].snap \in Snapshot /\ req[r].snap.agent \in AgentStatus
    BY <1>0, <1>4 DEF Save, RequestShape, Request
  <2>2. PICK b \in BOOLEAN, st \in Status, a \in AgentStatus :
          rows' = Saved(h, id, b, st, a)
    <3>1. Head(req[r].todo) \in Write
      BY <2>1
    <3>2. /\ Head(req[r].todo).status \in Status
          /\ Agent(req[r].snap.agent, Head(req[r].todo)) \in AgentStatus
          /\ req[r].snap.bare \in BOOLEAN
      BY <2>1, <3>1 DEF Write, Agent, Snapshot
    <3>3. QED
      BY <1>4, <3>2 DEF Save
  <2>3. rows'[h].id \in {rows[h].id, id} /\ \A g \in Names \ {h} : rows'[g] = rows[g]
    BY <1>0, <2>1, <2>2, SavedRows
  <2>4. PICK q : /\ req' = [req EXCEPT ![r] = q]
                 /\ q.pc = "saving" => q.host = h /\ q.snap.id = id
    <3> DEFINE pc == IF Len(req[r].todo) > 1 THEN "saving"
                     ELSE IF req[r].op \in Batch THEN "update" ELSE "log"
               ag == Agent(req[r].snap.agent, Head(req[r].todo))
    <3>1. req' = [req EXCEPT ![r] = [req[r] EXCEPT !.pc = pc, !.snap.agent = ag,
                                                   !.todo = Tail(req[r].todo)]]
      BY <1>4 DEF Save
    <3> HIDE DEF pc, ag
    <3> DEFINE s == [req[r] EXCEPT !.pc = pc, !.snap.agent = ag, !.todo = Tail(req[r].todo)]
    <3>2. s.host = h /\ s.snap.id = id
      BY <1>0, <2>1 DEF Request, Snapshot
    <3> HIDE DEF s
    <3>3. QED
      BY <3>1, <3>2 DEF s
  <2>5. req'[r] = q /\ (\A x \in Requests \ {r} : req'[x] = req[x])
        /\ hb' = hb /\ lastId' = lastId
    BY <1>0, <1>4, <2>4 DEF Save
  <2>6. Claims(rows, req, hb, h, rows[h].id) /\ Claims(rows, req, hb, h, id)
    BY <2>1 DEF Claims
  <2> HIDE DEF h, id
  <2>7. Inherited(rows', req', hb')
    <3> SUFFICES ASSUME NEW g \in Names, NEW n \in Ids, Claims(rows', req', hb', g, n)
                 PROVE  Claims(rows, req, hb, g, n)
      BY DEF Inherited
    <3>1. CASE rows'[g].id = n
      BY <2>3, <2>6, <3>1 DEF Claims
    <3>2. CASE \E x \in Names : hb'[x].host = g /\ hb'[x].id = n
      BY <2>5, <3>2 DEF Claims
    <3>3. ASSUME NEW x \in Requests, req'[x].pc = "saving", req'[x].host = g,
                 req'[x].snap.id = n
          PROVE  Claims(rows, req, hb, g, n)
      BY <2>4, <2>5, <2>6, <3>3 DEF Claims
    <3>4. QED
      BY <3>1, <3>2, <3>3 DEF Claims
  <2>8. QED
    BY <2>5, <2>7
<1>5. ASSUME NEW r \in Requests, SaveLog(r) \/ Update(r) \/ Delete(r) PROVE Good
  <2>1. req' = [req EXCEPT ![r] = Idle] /\ hb' = hb /\ lastId' = lastId
    BY <1>5 DEF SaveLog, Update, Delete
  <2>2. req'[r].pc = "idle" /\ \A x \in Requests \ {r} : req'[x] = req[x]
    BY <1>0, <2>1, IdleType
  <2>3. ASSUME NEW g \in Names PROVE rows'[g].id \in {rows[g].id, 0}
    <3>1. CASE SaveLog(r)
      BY <3>1 DEF SaveLog
    <3>2. CASE Update(r)
      <4>1. rows[g] \in Row \cup {NoRow}
        BY <1>0
      <4>2. QED
        BY <1>0, <3>2, <4>1 DEF Update
    <3>3. CASE Delete(r)
      BY <3>3 DEF Delete, NoRow
    <3>4. QED
      BY <1>5, <3>1, <3>2, <3>3
  <2>4. 0 \notin Ids
    BY DEF Ids
  <2>5. QED
    BY <2>1, <2>2, <2>3, <2>4 DEF Inherited, Claims
<1>6. ASSUME NEW S \in SUBSET Names, BatchDelete(S) PROVE Good
  <2>1. \A g \in Names : rows'[g].id \in {rows[g].id, 0}
    BY <1>6 DEF BatchDelete, NoRow
  <2>2. 0 \notin Ids
    BY DEF Ids
  <2>3. req' = req /\ hb' = hb /\ lastId' = lastId
    BY <1>6 DEF BatchDelete
  <2>4. QED
    BY <2>1, <2>2, <2>3 DEF Inherited, Claims
<1>7. ASSUME NEW h \in Names, AgentStarts(h) \/ AgentDies(h) \/ RegistrationFails(h)
      PROVE  Good
  BY <1>7 DEF AgentStarts, AgentDies, RegistrationFails, Inherited
<1>8. ASSUME NEW h \in Names, HeartbeatLookup(h) PROVE Good
  <2>1. PICK g \in Names : hb' = [hb EXCEPT ![h] = [host |-> g, id |-> rows[g].id]]
    BY <1>8 DEF HeartbeatLookup
  <2>2. /\ hb'[h].host = g /\ hb'[h].id = rows[g].id
        /\ \A x \in Names \ {h} : hb'[x] = hb[x]
    BY <1>0, <2>1 DEF TypeOK
  <2>3. rows' = rows /\ req' = req /\ lastId' = lastId
    BY <1>8 DEF HeartbeatLookup
  <2>4. QED
    BY <2>2, <2>3 DEF Inherited, Claims
<1>9. ASSUME NEW h \in Names, HeartbeatSave(h) PROVE Good
  <2>1. PICK host \in Names, id \in Ids : host = hb[h].host /\ id = hb[h].id
    BY <1>9 DEF HeartbeatSave, HasRow, TypeInv, Shape
  <2>2. rows' = Saved(host, id, TRUE, "RUNNING", "ONLINE")
    BY <1>9, <2>1 DEF HeartbeatSave
  <2>3. Claims(rows, req, hb, host, rows[host].id) /\ Claims(rows, req, hb, host, id)
    BY <2>1 DEF Claims
  <2>4. rows'[host].id \in {rows[host].id, id} /\ \A g \in Names \ {host} : rows'[g] = rows[g]
    <3>1. PICK bare \in BOOLEAN, st \in Status, a \in AgentStatus :
            rows' = Saved(host, id, bare, st, a)
      BY <2>2 DEF Status, AgentStatus
    <3>2. rows \in [Names -> Row \cup {NoRow}]
      BY <1>0
    <3>3. QED
      BY <3>1, <3>2, SavedRows
  <2>5. /\ hb'[h] = NoBeat /\ (\A g \in Names \ {h} : hb'[g] = hb[g])
        /\ req' = req /\ lastId' = lastId
    BY <1>0, <1>9 DEF HeartbeatSave, TypeOK
  <2>6. NoBeat.id \notin Ids
    BY DEF Ids, NoBeat
  <2>7. ASSUME NEW g \in Names, NEW n \in Ids, Claims(rows', req', hb', g, n)
        PROVE  Claims(rows, req, hb, g, n)
    <3>1. CASE rows'[g].id = n
      BY <2>3, <2>4, <3>1 DEF Claims
    <3>2. CASE \E x \in Names : hb'[x].host = g /\ hb'[x].id = n
      BY <2>5, <2>6, <3>2 DEF Claims
    <3>3. CASE \E x \in Requests : req'[x].pc = "saving" /\ req'[x].host = g
                                  /\ req'[x].snap.id = n
      BY <2>5, <3>3 DEF Claims
    <3>4. QED
      BY <2>7, <3>1, <3>2, <3>3 DEF Claims
  <2>8. QED
    BY <2>5, <2>7 DEF Inherited
<1>10. ASSUME Crash PROVE Good
  <2>1. /\ \A r \in Requests : req'[r].pc = "idle"
        /\ \A h \in Names : hb'[h] = NoBeat
        /\ rows' = rows /\ lastId' = lastId
    BY <1>10, IdleType DEF Crash
  <2>2. NoBeat.id \notin Ids
    BY DEF Ids, NoBeat
  <2>3. QED
    BY <2>1, <2>2 DEF Inherited, Claims
<1>11. ASSUME UNCHANGED vars PROVE Good
  BY <1>11 DEF vars, Inherited
<1>12. Good
  <2> HIDE DEF Good
  <2>1. QED
    BY <1>1, <1>3, <1>4, <1>5, <1>6, <1>7, <1>8, <1>9, <1>10, <1>11
       DEF Next, Arrive, Continue, Heartbeat
<1>13. QED
  BY <1>12

LEMMA IdInit == Init => IdInv
<1> SUFFICES ASSUME Init PROVE IdInv
  OBVIOUS
<1>1. 0 \notin Ids
  BY DEF Ids
<1>2. /\ \A h \in Names : rows[h].id = 0 /\ hb[h].id = 0
      /\ \A r \in Requests : req[r].pc = "idle"
  BY IdleType DEF Init, NoRow, NoBeat
<1>3. \A h \in Names, n \in Ids : ~Claims(rows, req, hb, h, n)
  BY <1>1, <1>2 DEF Claims
<1>4. QED
  BY <1>3 DEF IdInv, ClaimedOnce

LEMMA IdNext == TypeInv /\ IdInv /\ [Next]_vars => IdInv'
<1> SUFFICES ASSUME TypeInv, IdInv, [Next]_vars PROVE ClaimedOnce(rows', req', hb', lastId')
  BY DEF IdInv
<1>1. ASSUME NEW h \in Names, AddHost(h) \/ RegisterAgent(h)
      PROVE  ClaimedOnce(rows', req', hb', lastId')
  BY <1>1, NewClaim DEF AddHost, RegisterAgent, TypeInv
<1>2. QED
  BY <1>1, InheritNext, InheritedClaims

\* Two hosts never share a host_id, whatever stale snapshots put deleted rows
\* back: DeleteHostById and BatchDeleteHosts cannot hit another host than the
\* one whose id the user saw.
THEOREM IdsAreDistinct == Spec => []IdsDistinct
<1>1. TypeInv /\ IdInv => IdsDistinct
  <2> SUFFICES ASSUME TypeInv, IdInv, NEW g \in Names, NEW h \in Names,
                      Present(g), g # h, rows[g].id = rows[h].id
               PROVE  FALSE
    BY DEF IdsDistinct
  <2>1. rows[g].id \in Ids
    BY DEF TypeInv, TypeOK, Present, Row
  <2>2. Claims(rows, req, hb, g, rows[g].id) /\ Claims(rows, req, hb, h, rows[g].id)
    BY DEF Claims
  <2>3. QED
    BY <2>1, <2>2 DEF IdInv, ClaimedOnce
<1>2. QED
  BY <1>1, TypeInvariance, IdInit, IdNext, PTL DEF Spec

-----------------------------------------------------------------------------
(* Settled hosts *)

\* A request that is yet to write a row: BatchRestart's statements all fail.
Writing(q) == q.pc \in {"saving", "update"} /\ q.op # "BATCH_RESTART"

Working(rq, h) == \E r \in Requests : Writing(rq[r]) /\ rq[r].host = h

\* A save that leaves a settled row, whatever agent_status the snapshot has.
Final(w) == w.status \notin Transient /\ (w.status \in Down => w.agent = "OFFLINE")

\* Whatever a request has still to write, it ends with a final write.
Ending(q) ==
  /\ q.pc = "saving" /\ q.op \notin Batch => Final(q.todo[Len(q.todo)])
  /\ q.pc = "update" => q.op \in Batch

\* A row that no request is about to write is settled.
SettledInv ==
  /\ \A r \in Requests : Ending(req[r])
  /\ crashes = 0 => \A h \in Names : Present(h) => Working(req, h) \/ Settled(rows[h])

LEMMA LastWrite ==
  ASSUME NEW op \in Ops \ Batch
  PROVE  Final(Plan[op][Len(Plan[op])])
<1>1. op \in {"START", "STOP", "RESTART", "ENTER_MAINTENANCE", "EXIT_MAINTENANCE", "OFFLINE"}
  BY DEF Ops, Plan, Batch, Afterwards
<1>2. \A a \in {"ONLINE", ""} :
        \A s \in {"RUNNING", "HEALTHY", "MAINTENANCE"} : Final(W(s, a))
  BY DEF Final, W, Transient, Down
<1>3. Final(W("DISCONNECT", "OFFLINE")) /\ Final(W("OFFLINE", "OFFLINE"))
  BY DEF Final, W, Transient, Down
<1> DEFINE Ends(s) == Final(s[Len(s)])
<1>4. ASSUME NEW u, Final(u) PROVE Ends(<<u>>)
  BY <1>4
<1>5. ASSUME NEW u, NEW v, Final(v) PROVE Ends(<<u, v>>)
  BY <1>5
<1>6. ASSUME NEW u, NEW v, NEW x, NEW y, Final(y) PROVE Ends(<<u, v, x, y>>)
  BY <1>6
<1> HIDE DEF Ends
<1>7. CASE op = "START"
  <2>1. Plan[op] = <<W("RUNNING", ""), W("RUNNING", "ONLINE")>>
    BY <1>7 DEF Plan
  <2>2. QED
    BY <1>2, <1>5, <2>1 DEF Ends
<1>8. CASE op = "STOP"
  <2>1. Plan[op] = <<W("STOPPING", ""), W("DISCONNECT", "OFFLINE")>>
    BY <1>8 DEF Plan
  <2>2. QED
    BY <1>3, <1>5, <2>1 DEF Ends
<1>9. CASE op = "RESTART"
  <2>1. Plan[op] = <<W("STOPPING", ""), W("STOPPED", ""), W("STARTING", ""), W("HEALTHY", "ONLINE")>>
    BY <1>9 DEF Plan
  <2>2. QED
    BY <1>2, <1>6, <2>1 DEF Ends
<1>10. CASE op \in {"ENTER_MAINTENANCE", "EXIT_MAINTENANCE", "OFFLINE"}
  <2> DEFINE Good(w) == w \in {W("MAINTENANCE", ""), W("HEALTHY", ""), W("OFFLINE", "OFFLINE")}
  <2>a. /\ Plan["ENTER_MAINTENANCE"] = <<W("MAINTENANCE", "")>>
        /\ Plan["EXIT_MAINTENANCE"] = <<W("HEALTHY", "")>>
        /\ Plan["OFFLINE"] = <<W("OFFLINE", "OFFLINE")>>
    BY DEF Plan
  <2>1. PICK w : Good(w) /\ Plan[op] = <<w>>
    BY <1>10, <2>a
  <2>2. Final(w)
    BY <1>2, <1>3, <2>1
  <2>3. QED
    BY <1>4, <2>1, <2>2 DEF Ends
<1>11. QED
  BY <1>1, <1>7, <1>8, <1>9, <1>10

\* What is to be shown of a step: it does not take the writer from an unsettled row.
LEMMA SettledStep ==
  ASSUME TypeInv, SettledInv, crashes' = crashes,
         \A r \in Requests : Ending(req'[r]),
         \A h \in Names :
           \/ rows'[h] = NoRow
           \/ Settled(rows'[h])
           \/ Working(req', h)
           \/ rows'[h] = rows[h] /\ (Working(req, h) => Working(req', h))
  PROVE  SettledInv'
BY DEF SettledInv, Present

\* A request that moves to q: the others write what they wrote.
LEMMA MovedWriting ==
  ASSUME req \in [Requests -> Request], NEW r \in Requests, NEW q,
         req' = [req EXCEPT ![r] = q], NEW h \in Names,
         Writing(req[r]) /\ req[r].host = h => Writing(q) /\ q.host = h
  PROVE  Working(req, h) => Working(req', h)
<1>1. req'[r] = q /\ \A x \in Requests \ {r} : req'[x] = req[x]
  OBVIOUS
<1>2. QED
  BY <1>1 DEF Working

LEMMA SettledInit == Init => SettledInv
<1> SUFFICES ASSUME Init PROVE SettledInv
  OBVIOUS
<1>1. \A r \in Requests : req[r].pc = "idle"
  BY IdleType DEF Init
<1>2. \A h \in Names : ~Present(h)
  BY DEF Init, Present
<1>3. QED
  BY <1>1, <1>2 DEF SettledInv, Ending

LEMMA SettledNext == TypeInv /\ SettledInv /\ [Next]_vars => SettledInv'
<1> SUFFICES ASSUME TypeInv, SettledInv, [Next]_vars PROVE SettledInv'
  OBVIOUS
<1>0. /\ req \in [Requests -> Request] /\ rows \in [Names -> Row \cup {NoRow}]
      /\ \A r \in Requests : req[r] \in Request /\ RequestShape(req[r]) /\ Ending(req[r])
  BY DEF TypeInv, TypeOK, Shape, SettledInv
<1>1. ASSUME NEW r \in Requests, NEW q, req' = [req EXCEPT ![r] = q], Ending(q)
      PROVE  /\ req'[r] = q
             /\ \A x \in Requests : Ending(req'[x])
  BY <1>0, <1>1
<1>2. ASSUME NEW r \in Requests, NEW q, req' = [req EXCEPT ![r] = q], Ending(q),
             ~Writing(req[r]), rows' = rows, crashes' = crashes
      PROVE  SettledInv'
  BY <1>0, <1>1, <1>2, MovedWriting, SettledStep
<1>3. ASSUME NEW h \in Names, AddHost(h) \/ RegisterAgent(h) PROVE SettledInv'
  <2>1. PICK st \in {"UNKNOWN", "RUNNING"}, a \in AgentStatus, b \in BOOLEAN : Insert(h, st, a, b)
    BY <1>3 DEF AddHost, RegisterAgent, AgentStatus
  <2>2. Settled(rows'[h]) /\ (\A g \in Names \ {h} : rows'[g] = rows[g])
    BY <1>0, <2>1 DEF Insert, Settled, Transient, Down
  <2>3. req' = req /\ crashes' = crashes
    BY <1>3 DEF AddHost, RegisterAgent
  <2>4. QED
    BY <1>0, <2>2, <2>3, SettledStep
<1>4. ASSUME NEW r \in Requests, NEW h \in Names, NEW op \in Ops, Lookup(r, op, h)
      PROVE  SettledInv'
  <2> DEFINE q == [pc |-> "saving", op |-> op, host |-> h, snap |-> SnapshotOf(h),
                   todo |-> Plan[op]]
  <2>1. req' = [req EXCEPT ![r] = q] /\ rows' = rows /\ crashes' = crashes
    BY <1>4 DEF Lookup
  <2>2. Ending(q)
    BY LastWrite DEF Ending
  <2>3. ~Writing(req[r])
    BY <1>4 DEF Lookup, Writing
  <2> HIDE DEF q
  <2>4. QED
    BY <1>2, <2>1, <2>2, <2>3
<1>5. ASSUME NEW r \in Requests, NEW h \in Names, BatchRestart(r, h) \/ DeleteLookup(r, h)
      PROVE  SettledInv'
  <2>1. PICK q : Ending(q) /\ req' = [req EXCEPT ![r] = q]
    <3>1. CASE BatchRestart(r, h)
      <4> DEFINE q == [Idle EXCEPT !.pc = "update", !.op = "BATCH_RESTART", !.host = h]
      <4>1. req' = [req EXCEPT ![r] = q]
        BY <3>1 DEF BatchRestart
      <4>2. Ending(q)
        BY DEF Ending, Idle, Batch
      <4>3. QED
        BY <4>1, <4>2
    <3>2. CASE DeleteLookup(r, h)
      <4>1. PICK g \in Names :
              req' = [req EXCEPT ![r] = [Idle EXCEPT !.pc = "delete", !.op = "DELETE",
                                                     !.host = h, !.snap = SnapshotOf(g)]]
        BY <3>2 DEF DeleteLookup
      <4> DEFINE q == [Idle EXCEPT !.pc = "delete", !.op = "DELETE", !.host = h,
                                   !.snap = SnapshotOf(g)]
      <4>2. Ending(q)
        BY DEF Idle, Ending
      <4>3. QED
        BY <4>1, <4>2
    <3>3. QED
      BY <1>5, <3>1, <3>2
  <2>2. rows' = rows /\ crashes' = crashes /\ ~Writing(req[r])
    BY <1>5 DEF BatchRestart, DeleteLookup, Writing
  <2>3. QED
    BY <1>2, <2>1, <2>2
<1>6. ASSUME NEW r \in Requests, Save(r) PROVE SettledInv'
  <2> DEFINE h == req[r].host
             w == Head(req[r].todo)
             next == IF Len(req[r].todo) > 1 THEN "saving"
                     ELSE IF req[r].op \in Batch THEN "update" ELSE "log"
             agent == Agent(req[r].snap.agent, w)
             q == [req[r] EXCEPT !.pc = next, !.snap.agent = agent, !.todo = Tail(req[r].todo)]
  <2>1. /\ req[r].pc = "saving" /\ h \in Names /\ req[r].op \in Ops
        /\ Len(req[r].todo) > 0 /\ req[r].todo \in Seq(Write)
        /\ req[r].snap \in Snapshot
        /\ req[r].snap.id \in Ids /\ req[r].snap.agent \in AgentStatus
        /\ req[r].op \notin Batch => Final(req[r].todo[Len(req[r].todo)])
    BY <1>0, <1>6 DEF Save, RequestShape, Request, Ending
  <2>2. /\ req' = [req EXCEPT ![r] = q] /\ crashes' = crashes
        /\ rows' = Saved(h, req[r].snap.id, req[r].snap.bare, w.status, agent)
    BY <1>6 DEF Save
  <2>3. w \in Write /\ w = req[r].todo[1]
    BY <2>1
  <2>4. w.status \in Status /\ agent \in AgentStatus
    BY <2>1, <2>3 DEF Write, Agent
  <2>5. \A g \in Names \ {h} : rows'[g] = rows[g]
    <3>1. req[r].snap.bare \in BOOLEAN
      BY <2>1 DEF Snapshot
    <3>2. QED
      BY <1>0, <2>1, <2>2, <2>4, <3>1, SavedRows
  <2>6. rows'[h].status = w.status /\ rows'[h].agent = agent
    BY <1>0, <2>1, <2>2 DEF Saved
  <2>7. req[r].op # "BATCH_RESTART"
    BY <2>1 DEF Ops, Plan
  <2>8. Idle.pc = "idle" /\ Ending(Idle)
    BY IdleType DEF Ending
  <2> DEFINE moved == [req[r] EXCEPT !.pc = next, !.snap.agent = agent,
                                     !.todo = Tail(req[r].todo)]
  <2>9. /\ moved.pc = next /\ moved.op = req[r].op /\ moved.host = h
        /\ moved.todo = Tail(req[r].todo)
    BY <1>0 DEF Request
  <2> DEFINE n == Len(req[r].todo)
  <2>a. n \in Nat /\ n > 0
    <3>1. req[r].todo \in Seq(Write) /\ n > 0
      BY <2>1
    <3>2. QED
      BY <3>1
  <2>b. n > 1 => next = "saving"
    OBVIOUS
  <2>c. n = 1 => ~(n > 1)
    OBVIOUS
  <2>d. n = 1 /\ req[r].op \in Batch => next = "update"
    BY <2>c
  <2>e. n = 1 /\ req[r].op \notin Batch => next = "log"
    BY <2>c
  <2> HIDE DEF n, next
  <2>f. n > 1 \/ n = 1
    BY <2>a
  <2>10. /\ Len(req[r].todo) > 1 => next = "saving"
         /\ Len(req[r].todo) = 1 /\ req[r].op \in Batch => next = "update"
         /\ Len(req[r].todo) = 1 /\ req[r].op \notin Batch => next = "log"
         /\ Len(req[r].todo) > 1 \/ Len(req[r].todo) = 1
    BY <2>b, <2>d, <2>e, <2>f DEF n
  <2> HIDE DEF h, w, next, agent, moved
  <2>11. Ending(q)
    <3>1. CASE Len(req[r].todo) > 1
      <4>1. Tail(req[r].todo)[Len(Tail(req[r].todo))] = req[r].todo[Len(req[r].todo)]
        BY <2>1, <3>1
      <4>2. q = moved
        BY <2>10, <3>1 DEF moved
      <4>3. QED
        BY <2>1, <2>9, <2>10, <3>1, <4>1, <4>2 DEF Ending
    <3>2. CASE Len(req[r].todo) = 1
      <4>1. q = moved
        BY DEF moved
      <4>2. next # "saving" /\ (next = "update" => req[r].op \in Batch)
        BY <2>10, <3>2
      <4>3. QED
        BY <2>8, <2>9, <4>1, <4>2 DEF Ending
    <3>3. QED
      BY <2>10, <3>1, <3>2
  <2>12. Settled(rows'[h]) \/ (Writing(q) /\ q.host = h)
    <3>1. CASE next \in {"saving", "update"}
      BY <2>7, <2>9, <3>1 DEF Writing, moved
    <3>2. CASE next \notin {"saving", "update"}
      <4>1. Len(req[r].todo) = 1 /\ req[r].op \notin Batch
        BY <2>10, <3>2
      <4>2. Final(w)
        BY <2>1, <2>3, <4>1
      <4>3. Settled(rows'[h])
        BY <2>6, <4>2 DEF Final, Settled, Agent, agent
      <4>4. QED
        BY <4>3
    <3>3. QED
      BY <3>1, <3>2
  <2> HIDE DEF q
  <2>13. req'[r] = q /\ \A x \in Requests : Ending(req'[x])
    BY <1>1, <2>2, <2>11
  <2>14. Settled(rows'[h]) \/ Working(req', h)
    BY <2>12, <2>13 DEF Working
  <2>15. ASSUME NEW g \in Names \ {h} PROVE Working(req, g) => Working(req', g)
    BY <1>0, <2>2, MovedWriting DEF h
  <2>16. QED
    BY <2>2, <2>5, <2>13, <2>14, <2>15, SettledStep
<1>7. ASSUME NEW r \in Requests, SaveLog(r) PROVE SettledInv'
  <2>1. /\ req' = [req EXCEPT ![r] = Idle] /\ rows' = rows /\ crashes' = crashes
        /\ ~Writing(req[r])
    BY <1>7 DEF SaveLog, Writing
  <2>2. Ending(Idle)
    BY IdleType DEF Ending
  <2>3. QED
    BY <1>2, <2>1, <2>2
<1>8. ASSUME NEW r \in Requests, Update(r) \/ Delete(r) PROVE SettledInv'
  <2>1. req' = [req EXCEPT ![r] = Idle] /\ crashes' = crashes
    BY <1>8 DEF Update, Delete
  <2>2. Ending(Idle)
    BY IdleType DEF Ending
  <2>3. ASSUME NEW h \in Names
        PROVE  \/ rows'[h] = NoRow \/ Settled(rows'[h])
               \/ rows'[h] = rows[h] /\ ~(Writing(req[r]) /\ req[r].host = h)
    <3>1. CASE Delete(r)
      <4>1. ~Writing(req[r])
        BY <3>1 DEF Delete, Writing
      <4>2. rows'[h] \in {NoRow, rows[h]}
        BY <3>1 DEF Delete
      <4>3. QED
        BY <4>1, <4>2
    <3>2. CASE Update(r)
      <4>1. req[r].op \in Batch
        BY <1>0, <3>2 DEF Update, Ending
      <4>2. CASE req[r].op \in DOMAIN Afterwards /\ req[r].host = h /\ Present(h)
        <5>1. /\ rows'[h].status = Afterwards[req[r].op].status
              /\ rows'[h].agent = Afterwards[req[r].op].agent
          BY <1>0, <3>2, <4>2 DEF Update
        <5>2. \A op \in DOMAIN Afterwards : Final(Afterwards[op])
          BY DEF Afterwards, Final, W, Transient, Down
        <5>3. QED
          BY <4>2, <5>1, <5>2 DEF Final, Settled
      <4>3. CASE req[r].op \notin DOMAIN Afterwards
        <5>1. req[r].op = "BATCH_RESTART"
          BY <4>1, <4>3 DEF Batch
        <5>2. rows' = rows
          BY <3>2, <4>3 DEF Update
        <5>3. QED
          BY <5>1, <5>2 DEF Writing
      <4>4. CASE req[r].host # h
        <5>1. rows'[h] = rows[h]
          BY <1>0, <3>2, <4>4 DEF Update
        <5>2. QED
          BY <4>4, <5>1
      <4>5. CASE req[r].host = h /\ ~Present(h)
        <5>1. rows'[h] = NoRow
          BY <1>0, <3>2, <4>5 DEF Update, Present
        <5>2. QED
          BY <5>1
      <4>6. QED
        BY <4>2, <4>3, <4>4, <4>5
    <3>3. QED
      BY <1>8, <3>1, <3>2
  <2>4. \A x \in Requests : Ending(req'[x])
    BY <1>1, <2>1, <2>2
  <2>5. ASSUME NEW h \in Names, ~(Writing(req[r]) /\ req[r].host = h)
        PROVE  Working(req, h) => Working(req', h)
    BY <1>0, <2>1, <2>5, MovedWriting
  <2>6. QED
    BY <2>1, <2>3, <2>4, <2>5, SettledStep
<1>9. ASSUME NEW S \in SUBSET Names, BatchDelete(S) PROVE SettledInv'
  <2>1. \A h \in Names : rows'[h] \in {NoRow, rows[h]}
    BY <1>9 DEF BatchDelete
  <2>2. req' = req /\ crashes' = crashes
    BY <1>9 DEF BatchDelete
  <2>3. QED
    BY <1>0, <2>1, <2>2, SettledStep
<1>10. ASSUME NEW h \in Names, \/ AgentStarts(h) \/ AgentDies(h)
                               \/ RegistrationFails(h) \/ HeartbeatLookup(h)
       PROVE  SettledInv'
  <2>1. rows' = rows /\ req' = req /\ crashes' = crashes
    BY <1>10 DEF AgentStarts, AgentDies, RegistrationFails, HeartbeatLookup
  <2>2. QED
    BY <1>0, <2>1, SettledStep
<1>11. ASSUME NEW h \in Names, HeartbeatSave(h) PROVE SettledInv'
  <2>1. PICK g \in Names : /\ rows'[g].status = "RUNNING"
                           /\ \A x \in Names \ {g} : rows'[x] = rows[x]
    BY <1>0, <1>11 DEF HeartbeatSave, Saved, HasRow, TypeInv, Shape
  <2>2. Settled(rows'[g]) /\ req' = req /\ crashes' = crashes
    BY <1>11, <2>1 DEF HeartbeatSave, Settled, Transient, Down
  <2>3. QED
    BY <1>0, <2>1, <2>2, SettledStep
<1>12. ASSUME Crash PROVE SettledInv'
  <2>1. \A r \in Requests : req'[r].pc = "idle"
    BY <1>12, IdleType DEF Crash
  <2>2. crashes' # 0
    <3>1. crashes \in 0..MaxCrashes /\ crashes' = crashes + 1
      BY <1>12 DEF Crash, TypeInv, TypeOK
    <3>2. QED
      BY <3>1, BoundAssumption
  <2>3. QED
    BY <2>1, <2>2 DEF SettledInv, Ending
<1>13. ASSUME UNCHANGED vars PROVE SettledInv'
  BY <1>0, <1>13, SettledStep DEF vars
<1>14. QED
  BY <1>3, <1>4, <1>5, <1>6, <1>7, <1>8, <1>9, <1>10, <1>11, <1>12, <1>13
     DEF Next, Arrive, Continue, Heartbeat

\* A host no operation is about to write has a settled status, whatever snapshots
\* operations, batch operations and heartbeats wrote over each other, and however
\* often it was deleted and came back.
THEOREM IdleIsSettled == Spec => []SettledWhenIdle
<1>1. SettledInv => SettledWhenIdle
  BY DEF SettledInv, SettledWhenIdle, Working, Writing, Busy
<1>2. QED
  BY <1>1, TypeInvariance, SettledInit, SettledNext, PTL DEF Spec

=============================================================================
