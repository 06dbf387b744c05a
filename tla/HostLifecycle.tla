---------------------------- MODULE HostLifecycle ----------------------------
(***************************************************************************)
(* The host inventory of cloud-server-go: service/host_service.go, driven  *)
(* by handler/host_handler.go and handler/agent_handler.go, and the agents *)
(* whose heartbeats it stores.                                             *)
(*                                                                         *)
(* As in the service catalogue, a request reads the row of a host and      *)
(* later writes the whole snapshot back (db.Save).  Here rows are deleted  *)
(* physically, and gorm's Save of a row that has gone inserts it again: an *)
(* UPDATE that touches no row is followed by INSERT ... ON DUPLICATE KEY   *)
(* UPDATE, so that the columns of a snapshot end up in whatever row has    *)
(* its host_name.                                                          *)
(*                                                                         *)
(* A heartbeat is looked up as a host name or an address.  What the agent  *)
(* sends is the id its registration gave it, and that is the version of    *)
(* the agent, which no host is called; an agent whose registration failed  *)
(* sends an empty id, which is the address of a host that has none.        *)
(***************************************************************************)
EXTENDS Naturals, Sequences, FiniteSets

CONSTANTS Names,       \* host names
          Similar,     \* pairs <<h, g>>: the name g contains the name h
          Unaddressed, \* the host that users may add without an ipv4
          Requests,    \* goroutines of users' operations in flight at once
          MaxId,       \* bound on the rows ever inserted (AUTO_INCREMENT)
          MaxCrashes   \* bound on the server restarts explored

ASSUME SimilarAssumption == Similar \subseteq Names \X Names
\* The column ipv4 is unique, so that only one row can leave it empty.
ASSUME AddressAssumption == /\ Unaddressed \subseteq Names
                            /\ \A g, h \in Unaddressed : g = h
ASSUME BoundAssumption   == MaxId \in Nat /\ MaxCrashes \in Nat

VARIABLES rows,      \* the row of each host in table hosts, or NoRow
          lastId,    \* the last host_id given out
          log,       \* the latest row of each host in host_operation_log
          req,       \* the goroutines of users' operations
          hb,        \* the row the heartbeat of each host's agent has read
          agents,    \* the agent of each host
          crashes    \* restarts so far

vars == <<rows, lastId, log, req, hb, agents, crashes>>

-----------------------------------------------------------------------------
(* Types *)

Transient == {"STARTING", "STOPPING"}
Down      == {"STOPPED", "DISCONNECT", "OFFLINE"}
Status    == Transient \cup Down \cup {"UNKNOWN", "RUNNING", "HEALTHY", "MAINTENANCE"}
AgentStatus == {"ONLINE", "OFFLINE"}

Ids   == 1..MaxId
Row   == [id : Ids, status : Status, agent : AgentStatus, bare : BOOLEAN]
NoRow == [id |-> 0, status |-> "", agent |-> "", bare |-> FALSE]

\* The process of an agent; "registered" is the one that got an id.
Agents == {"down", "starting", "registered", "unregistered"}

Present(h) == rows[h] # NoRow

\* The columns one save sets besides those of the snapshot; "" keeps agent_status.
Write == [status : Status, agent : AgentStatus \cup {""}]
W(status, agent) == [status |-> status, agent |-> agent]

\* Mutants of Plan: a stop forgets the agent's status; a restart ends with
\* the status of another table.
Plan_NoOffline == [
  START             |-> <<W("RUNNING", ""), W("RUNNING", "ONLINE")>>,
  STOP              |-> <<W("STOPPING", ""), W("DISCONNECT", "")>>,
  RESTART           |-> <<W("STOPPING", ""), W("STOPPED", ""),
                          W("STARTING", ""), W("HEALTHY", "ONLINE")>>,
  ENTER_MAINTENANCE |-> <<W("MAINTENANCE", "")>>,
  EXIT_MAINTENANCE  |-> <<W("HEALTHY", "")>>,
  OFFLINE           |-> <<W("OFFLINE", "OFFLINE")>>,
  BATCH_START       |-> <<W("STARTING", "")>>,
  BATCH_STOP        |-> <<W("STOPPING", "")>>]

Plan_Started == [Plan_NoOffline EXCEPT !.RESTART = <<W("STOPPING", ""), W("STARTED", "ONLINE")>>]

\* The whole-row saves of each operation, in order.
Plan == [
  START             |-> <<W("RUNNING", ""), W("RUNNING", "ONLINE")>>,
  STOP              |-> <<W("STOPPING", ""), W("DISCONNECT", "OFFLINE")>>,
  RESTART           |-> <<W("STOPPING", ""), W("STOPPED", ""),
                          W("STARTING", ""), W("HEALTHY", "ONLINE")>>,
  ENTER_MAINTENANCE |-> <<W("MAINTENANCE", "")>>,
  EXIT_MAINTENANCE  |-> <<W("HEALTHY", "")>>,
  OFFLINE           |-> <<W("OFFLINE", "OFFLINE")>>,
  BATCH_START       |-> <<W("STARTING", "")>>,
  BATCH_STOP        |-> <<W("STOPPING", "")>>]

Ops == DOMAIN Plan

\* What the goroutine of a batch operation sets afterwards, by host_name.
Afterwards == [BATCH_START |-> W("HEALTHY", "ONLINE"),
               BATCH_STOP  |-> W("STOPPED", "OFFLINE")]

Batch == DOMAIN Afterwards \cup {"BATCH_RESTART"}

\* What the saves of an operation do not overwrite of its snapshot.
Snapshot == [id : Ids \cup {0}, agent : AgentStatus \cup {""}, bare : BOOLEAN]
SnapshotOf(h) == [id |-> rows[h].id, agent |-> rows[h].agent, bare |-> rows[h].bare]
NoSnapshot == [id |-> 0, agent |-> "", bare |-> FALSE]

\* The row a heartbeat works on, which has no address.
Beat   == [host : Names \cup {""}, id : Ids \cup {0}]
NoBeat == [host |-> "", id |-> 0]

Idle == [pc |-> "idle", op |-> "", host |-> "", snap |-> NoSnapshot, todo |-> <<>>]

Request == [pc   : {"idle", "saving", "log", "update", "delete"},
            op   : Ops \cup Batch \cup {"", "DELETE"},
            host : Names \cup {""},
            snap : Snapshot,
            todo : Seq(Write)]

\* The agent_status a save or an update w leaves where there was a.
Agent(a, w) == IF w.agent = "" THEN a ELSE w.agent

\* db.Save of host h: a row that is there keeps its id, one that has gone is
\* inserted again with the id of the snapshot.
Saved(h, id, bare, status, agent) ==
  [rows EXCEPT ![h] = [id |-> IF Present(h) THEN @.id ELSE id,
                       status |-> status, agent |-> agent, bare |-> bare]]

-----------------------------------------------------------------------------
Init ==
  /\ rows = [h \in Names |-> NoRow]
  /\ lastId = 0
  /\ log = [h \in Names |-> ""]
  /\ req = [r \in Requests |-> Idle]
  /\ hb = [h \in Names |-> NoBeat]
  /\ agents = [h \in Names |-> "down"]
  /\ crashes = 0

-----------------------------------------------------------------------------
(* Adding hosts *)

\* HostService.AddHost: a name that exists is refused.
Insert(h, status, agent, bare) ==
  /\ ~Present(h)
  /\ lastId < MaxId
  /\ lastId' = lastId + 1
  /\ rows' = [rows EXCEPT ![h] = [id |-> lastId', status |-> status, agent |-> agent,
                                  bare |-> bare]]

\* AddHost and BatchImportHosts of a user, who need not give an address.
AddHost(h) ==
  /\ \E bare \in BOOLEAN : /\ bare => h \in Unaddressed
                          /\ Insert(h, "UNKNOWN", "OFFLINE", bare)
  /\ UNCHANGED <<log, req, hb, agents, crashes>>

\* RegisterAgent: the agent's own registration, with its address.  The ONLINE it
\* asks for is lost: AddHost has its own AgentStatus.  The answer may be lost.
RegisterAgent(h) ==
  /\ agents[h] = "starting"
  /\ Insert(h, "RUNNING", "OFFLINE", FALSE)
  /\ \E a \in {"registered", "unregistered"} : agents' = [agents EXCEPT ![h] = a]
  /\ UNCHANGED <<log, req, hb, crashes>>

\* The host is there already, or the server cannot be reached: the agent goes on
\* without an id.
RegistrationFails(h) ==
  /\ agents[h] = "starting"
  /\ agents' = [agents EXCEPT ![h] = "unregistered"]
  /\ UNCHANGED <<rows, lastId, log, req, hb, crashes>>

-----------------------------------------------------------------------------
(* Operations on a host *)

\* StartHost, StopHost, ..., BatchStop: none of them looks at the status.
Lookup(r, op, h) ==
  /\ req[r].pc = "idle"
  /\ Present(h)
  /\ req' = [req EXCEPT ![r] = [pc |-> "saving", op |-> op, host |-> h,
                                snap |-> SnapshotOf(h), todo |-> Plan[op]]]
  /\ UNCHANGED <<rows, lastId, log, hb, agents, crashes>>

Save(r) ==
  LET q == req[r]
      w == Head(q.todo)
      agent == Agent(q.snap.agent, w)
      next == IF Len(q.todo) > 1 THEN "saving"
              ELSE IF q.op \in Batch THEN "update" ELSE "log"
  IN
  /\ q.pc = "saving"
  /\ rows' = Saved(q.host, q.snap.id, q.snap.bare, w.status, agent)
  /\ req' = [req EXCEPT ![r] = [q EXCEPT !.pc = next, !.snap.agent = agent,
                                         !.todo = Tail(q.todo)]]
  /\ UNCHANGED <<lastId, log, hb, agents, crashes>>

\* operationLogRepo.Save
SaveLog(r) ==
  /\ req[r].pc = "log"
  /\ log' = [log EXCEPT ![req[r].host] = req[r].op]
  /\ req' = [req EXCEPT ![r] = Idle]
  /\ UNCHANGED <<rows, lastId, hb, agents, crashes>>

\* BatchRestart looks nothing up: it starts its updates straight away.
BatchRestart(r, h) ==
  /\ req[r].pc = "idle"
  /\ req' = [req EXCEPT ![r] = [Idle EXCEPT !.pc = "update", !.op = "BATCH_RESTART",
                                            !.host = h]]
  /\ UNCHANGED <<rows, lastId, log, hb, agents, crashes>>

\* The goroutine of a batch operation: an UPDATE by host_name, which inserts
\* nothing.  BatchRestart names a column "status", which table hosts does not
\* have: its four statements fail and no one looks at their errors.
Update(r) ==
  LET q == req[r] IN
  /\ q.pc = "update"
  /\ rows' = IF q.op \in DOMAIN Afterwards /\ Present(q.host)
             THEN [rows EXCEPT ![q.host].status = Afterwards[q.op].status,
                               ![q.host].agent = Afterwards[q.op].agent]
             ELSE rows
  /\ req' = [req EXCEPT ![r] = Idle]
  /\ UNCHANGED <<lastId, log, hb, agents, crashes>>

-----------------------------------------------------------------------------
(* Deletion *)

\* DeleteHost: by host_name or else by a name that contains the one given.
\* DeleteHostById is the case in which the row is there.
DeleteLookup(r, h) ==
  /\ req[r].pc = "idle"
  /\ \E g \in Names :
       /\ Present(g)
       /\ g = h \/ (~Present(h) /\ <<h, g>> \in Similar)
       /\ req' = [req EXCEPT ![r] = [Idle EXCEPT !.pc = "delete", !.op = "DELETE",
                                                 !.host = h, !.snap = SnapshotOf(g)]]
  /\ UNCHANGED <<rows, lastId, log, hb, agents, crashes>>

\* The statement deletes by host_id.
Delete(r) ==
  /\ req[r].pc = "delete"
  /\ rows' = [g \in Names |-> IF rows[g].id = req[r].snap.id THEN NoRow ELSE rows[g]]
  /\ req' = [req EXCEPT ![r] = Idle]
  /\ UNCHANGED <<lastId, log, hb, agents, crashes>>

\* BatchDeleteHosts: one statement.
BatchDelete(S) ==
  /\ S # {} /\ \A h \in S : Present(h)
  /\ rows' = [h \in Names |-> IF h \in S THEN NoRow ELSE rows[h]]
  /\ UNCHANGED <<lastId, log, req, hb, agents, crashes>>

-----------------------------------------------------------------------------
(* Agents and their heartbeats *)

AgentStarts(h) ==
  /\ agents[h] = "down"
  /\ agents' = [agents EXCEPT ![h] = "starting"]
  /\ UNCHANGED <<rows, lastId, log, req, hb, crashes>>

AgentDies(h) ==
  /\ agents[h] # "down"
  /\ agents' = [agents EXCEPT ![h] = "down"]
  /\ UNCHANGED <<rows, lastId, log, req, hb, crashes>>

\* ProcessAgentHeartbeat of the agent on h reads the row.  The id of a registered
\* agent is not found, which is an error; the empty one is that of host g.
HeartbeatLookup(h) ==
  /\ agents[h] = "unregistered"
  /\ hb[h] = NoBeat
  /\ \E g \in Names :
       /\ Present(g) /\ rows[g].bare
       /\ hb' = [hb EXCEPT ![h] = [host |-> g, id |-> rows[g].id]]
  /\ UNCHANGED <<rows, lastId, log, req, agents, crashes>>

\* Mutant: a heartbeat that only stamps its time.
HeartbeatSave_TimeOnly(h) ==
  /\ hb[h] # NoBeat
  /\ hb' = [hb EXCEPT ![h] = NoBeat]
  /\ UNCHANGED <<rows, lastId, log, req, agents, crashes>>

\* It stores the status the agent sent, which is always RUNNING.
HeartbeatSave(h) ==
  /\ hb[h] # NoBeat
  /\ rows' = Saved(hb[h].host, hb[h].id, TRUE, "RUNNING", "ONLINE")
  /\ hb' = [hb EXCEPT ![h] = NoBeat]
  /\ UNCHANGED <<lastId, log, req, agents, crashes>>

-----------------------------------------------------------------------------
\* The server process dies and starts again.
Crash ==
  /\ crashes < MaxCrashes
  /\ crashes' = crashes + 1
  /\ req' = [r \in Requests |-> Idle]
  /\ hb' = [h \in Names |-> NoBeat]
  /\ UNCHANGED <<rows, lastId, log, agents>>

-----------------------------------------------------------------------------
(* Specification *)

Arrive(r) ==
  \E h \in Names :
    \/ \E op \in Ops : Lookup(r, op, h)
    \/ BatchRestart(r, h)
    \/ DeleteLookup(r, h)

Continue(r) == Save(r) \/ SaveLog(r) \/ Update(r) \/ Delete(r)

Heartbeat(h) == HeartbeatLookup(h) \/ HeartbeatSave(h)

Next ==
  \/ \E h \in Names : AddHost(h)
  \/ \E r \in Requests : Arrive(r) \/ Continue(r)
  \/ \E S \in SUBSET Names : BatchDelete(S)
  \/ \E h \in Names : \/ AgentStarts(h) \/ AgentDies(h)
                      \/ RegisterAgent(h) \/ RegistrationFails(h)
                      \/ Heartbeat(h)
  \/ Crash

Spec == Init /\ [][Next]_vars

\* Goroutines run to completion, and an agent that runs sends heartbeats.
Fairness == /\ \A r \in Requests : WF_vars(Continue(r))
            /\ \A h \in Names : WF_vars(Heartbeat(h))

FairSpec == Spec /\ Fairness

-----------------------------------------------------------------------------
(* Properties *)

TypeOK ==
  /\ rows \in [Names -> Row \cup {NoRow}]
  /\ lastId \in Ids \cup {0}
  /\ log \in [Names -> Ops \cup {""}]
  /\ req \in [Requests -> Request]
  /\ hb \in [Names -> Beat]
  /\ agents \in [Names -> Agents]
  /\ crashes \in 0..MaxCrashes

Busy(h) == \E r \in Requests : req[r].pc \in {"saving", "update"} /\ req[r].host = h

\* A host no operation is about to write has the status an operation, a
\* heartbeat or its registration ends in, and is not shown down with an agent
\* that is up: whatever snapshots StartHost, StopHost, RestartHost, the batch
\* operations and heartbeats wrote over each other.
Settled(row) ==
  /\ row.status \notin Transient
  /\ row.status \in Down => row.agent = "OFFLINE"

SettledWhenIdle ==
  crashes = 0 => \A h \in Names : Present(h) /\ ~Busy(h) => Settled(rows[h])

\* Two hosts never share a host_id, so that DeleteHostById and BatchDeleteHosts,
\* which go by it, cannot hit another host than the one the user saw: rows come
\* back with their old id, and ids are not given out twice.
IdsDistinct ==
  \A g, h \in Names : (Present(g) /\ g # h) => rows[g].id # rows[h].id

\* The heartbeats of an agent that could not register heal the row of the host
\* without an address, whoever's agent it is: a status a restart of the server
\* left half-way or a stale snapshot wrote back is left, and the host is shown
\* ONLINE.  It is the one row that heartbeats reach (host_service.go:675).
HeartbeatHeals ==
  \A g, h \in Names :
    (Present(h) /\ rows[h].bare /\ agents[g] = "unregistered")
      ~> \/ ~Present(h) \/ ~rows[h].bare
         \/ agents[g] # "unregistered"
         \/ rows[h].status \notin Transient /\ rows[h].agent = "ONLINE"

\* A deleted host comes back only by being added again.
DeletedStaysDeleted ==
  [][\A h \in Names : (~Present(h) /\ rows'[h] # NoRow) => lastId' = lastId + 1]_vars

=============================================================================
