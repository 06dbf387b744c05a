-------------------------- MODULE ServiceLifecycle --------------------------
(***************************************************************************)
(* The service catalogue of cloud-server-go: service/service_service.go    *)
(* and the handlers of handler/service_handler.go that drive it.           *)
(*                                                                         *)
(* Every HTTP request runs in a goroutine of its own and works on a        *)
(* snapshot of the service's row: it reads the row once, then writes ALL   *)
(* its columns back, several times, with sleeps in between.  There is no   *)
(* transaction and no lock, so the database statements of concurrent       *)
(* requests interleave freely: one action below is one statement.          *)
(*                                                                         *)
(* service_name carries a unique index and rows are only soft-deleted, so  *)
(* a name has at most one row and stands for its primary key.              *)
(***************************************************************************)
EXTENDS Naturals, Sequences

CONSTANTS Names,        \* service names
          Requests,     \* handler goroutines that can be in flight at once
          DefaultDeps,  \* defaultDeps: pairs <<service, dependsOn>>
          MaxCrashes    \* bound on the server restarts explored

ASSUME DepsAssumption  == DefaultDeps \subseteq Names \X Names
ASSUME CrashAssumption == MaxCrashes \in Nat

VARIABLES created,   \* names that have a row in table services
          rows,      \* the row of each created name
          deps,      \* table service_dependencies, as <<service, dependsOn>>
          audit,     \* kinds of rows in service_operation_audit: <<name, op>>
          req,       \* the handler goroutines
          boot,      \* the goroutine that runs InitDefaultDependencies
          crashes    \* restarts so far

vars == <<created, rows, deps, audit, req, boot, crashes>>

-----------------------------------------------------------------------------
(* Types *)

Ops      == {"START", "STOP", "RESTART"}
Status   == {"STOPPED", "STARTING", "HEALTHY", "STOPPING"}
Transient == {"STARTING", "STOPPING"}
Row      == [status : Status, deleted : BOOLEAN, lastOp : Ops \cup {""}]
NewRow   == [status |-> "STOPPED", deleted |-> FALSE, lastOp |-> ""]

\* Mutants of Plan: a restart that ends in the host table's word for a started
\* machine; operations whose last status is never written.
Plan_Running(op, status) ==
  IF op = "STOP" THEN <<"STOPPING", "STOPPED">> ELSE <<"STARTING", "RUNNING">>
Plan_NoLast(op, status) ==
  IF op = "STOP" THEN <<"STOPPING">> ELSE <<"STOPPED", "STARTING">>

\* The statuses an operation writes, in order, from the status it read.
Plan(op, status) ==
  CASE op = "START"   -> <<"STARTING", "HEALTHY">>
    [] op = "STOP"    -> <<"STOPPING", "STOPPED">>
    [] op = "RESTART" -> IF status = "STOPPED"
                         THEN <<"STOPPED", "STARTING", "HEALTHY">>
                         ELSE <<"STOPPING", "STOPPED", "STARTING", "HEALTHY">>

\* Mutant: a start is refused while the status is still STARTING.
AcceptedFrom_NoRetry(op) ==
  CASE op = "START"   -> {"STOPPED"}
    [] op = "STOP"    -> {"HEALTHY", "WARNING", "STOPPING"}
    [] op = "RESTART" -> {"HEALTHY", "WARNING", "STOPPED"}

\* The statuses in which an operation is accepted.
AcceptedFrom(op) ==
  CASE op = "START"   -> {"STOPPED", "STARTING"}
    [] op = "STOP"    -> {"HEALTHY", "WARNING", "STOPPING"}
    [] op = "RESTART" -> {"HEALTHY", "WARNING", "STOPPED"}

Pc == {"idle", "lookup", "saving", "audit", "check", "remove", "unlink"}

Idle == [pc |-> "idle", op |-> "", name |-> "", snap |-> NewRow, todo |-> <<>>]

Request == [pc : Pc, op : Ops \cup {"", "DELETE"}, name : Names \cup {""},
            snap : Row, todo : Seq(Status)]

Live(n) == n \in created /\ ~rows[n].deleted

-----------------------------------------------------------------------------
(* Initial states *)

\* An empty database and a server that has just started.
Init ==
  /\ created = {}
  /\ rows = [n \in Names |-> NewRow]
  /\ deps = {}
  /\ audit = {}
  /\ req = [r \in Requests |-> Idle]
  /\ boot = [pc |-> "waiting", todo |-> {}]
  /\ crashes = 0

\* A server whose catalogue and default dependencies are in place.
InitEstablished ==
  /\ created = Names
  /\ rows = [n \in Names |-> NewRow]
  /\ deps = DefaultDeps
  /\ audit = {}
  /\ req = [r \in Requests |-> Idle]
  /\ boot = [pc |-> "done", todo |-> {}]
  /\ crashes = 0

-----------------------------------------------------------------------------
(* Creation *)

\* CreateService.  Its own look-up adds nothing to the unique index, which
\* also refuses the name of a soft-deleted row.
CreateService(n) ==
  /\ n \notin created
  /\ created' = created \cup {n}
  /\ rows' = [rows EXCEPT ![n] = NewRow]
  /\ UNCHANGED <<deps, audit, req, boot, crashes>>

-----------------------------------------------------------------------------
(* Start, stop and restart *)

\* The handler first runs the script that acts on the real processes, which are
\* outside this model.  Called with --json the script exits with 0 whatever its
\* outcome, so that the handler goes on after a failure as after a success, for
\* any name and in any status ...
RunScript(r, op, n) ==
  /\ req[r].pc = "idle"
  /\ req' = [req EXCEPT ![r] = [Idle EXCEPT !.pc = "lookup", !.op = op,
                                            !.name = n]]
  /\ UNCHANGED <<created, rows, deps, audit, boot, crashes>>

\* ... and only then asks StartService, StopService or RestartService, which
\* looks the service up and gives up when its status does not allow the
\* operation.
Refuse(r) ==
  LET n == req[r].name IN
  /\ req[r].pc = "lookup"
  /\ ~Live(n) \/ rows[n].status \notin AcceptedFrom(req[r].op)
  /\ req' = [req EXCEPT ![r] = Idle]
  /\ UNCHANGED <<created, rows, deps, audit, boot, crashes>>

Accept(r) ==
  LET n == req[r].name IN
  /\ req[r].pc = "lookup"
  /\ Live(n)
  /\ rows[n].status \in AcceptedFrom(req[r].op)
  /\ req' = [req EXCEPT ![r] = [@ EXCEPT !.pc = "saving", !.snap = rows[n],
                                         !.todo = Plan(req[r].op, rows[n].status)]]
  /\ UNCHANGED <<created, rows, deps, audit, boot, crashes>>

\* An intermediate db.Save: the whole snapshot with the next status.
SaveStage(r) ==
  LET s == [req[r].snap EXCEPT !.status = Head(req[r].todo)] IN
  /\ req[r].pc = "saving"
  /\ Len(req[r].todo) > 1
  /\ rows' = [rows EXCEPT ![req[r].name] = s]
  /\ req' = [req EXCEPT ![r] = [@ EXCEPT !.snap = s, !.todo = Tail(req[r].todo)]]
  /\ UNCHANGED <<created, deps, audit, boot, crashes>>

\* Mutant: the operation returns without auditRepository.Save.
SaveFinal_NoAudit(r) ==
  LET s == [req[r].snap EXCEPT !.status = Head(req[r].todo),
                               !.lastOp = req[r].op] IN
  /\ req[r].pc = "saving"
  /\ Len(req[r].todo) = 1
  /\ rows' = [rows EXCEPT ![req[r].name] = s]
  /\ req' = [req EXCEPT ![r] = Idle]
  /\ UNCHANGED <<created, deps, audit, boot, crashes>>

\* The last db.Save also records the operation.
SaveFinal(r) ==
  LET s == [req[r].snap EXCEPT !.status = Head(req[r].todo),
                               !.lastOp = req[r].op] IN
  /\ req[r].pc = "saving"
  /\ Len(req[r].todo) = 1
  /\ rows' = [rows EXCEPT ![req[r].name] = s]
  /\ req' = [req EXCEPT ![r] = [@ EXCEPT !.pc = "audit", !.snap = s, !.todo = <<>>]]
  /\ UNCHANGED <<created, deps, audit, boot, crashes>>

SaveAudit(r) ==
  /\ req[r].pc = "audit"
  /\ audit' = audit \cup {<<req[r].name, req[r].op>>}
  /\ req' = [req EXCEPT ![r] = Idle]
  /\ UNCHANGED <<created, rows, deps, boot, crashes>>

-----------------------------------------------------------------------------
(* Deletion *)

\* DeleteService reads the row; a status that counts as running refuses.
DeleteLookup(r, n) ==
  /\ req[r].pc = "idle"
  /\ Live(n)
  /\ rows[n].status \notin {"STARTING", "HEALTHY", "RUNNING"}
  /\ req' = [req EXCEPT ![r] = [Idle EXCEPT !.pc = "check", !.op = "DELETE",
                                            !.name = n, !.snap = rows[n]]]
  /\ UNCHANGED <<created, rows, deps, audit, boot, crashes>>

\* Mutant: the look-up of dependents uses the wrong column.
CheckDependencies_Column(r) ==
  LET n == req[r].name
      canDelete == Live(n) /\ \A d \in deps : d[1] # n
  IN
  /\ req[r].pc = "check"
  /\ req' = [req EXCEPT ![r] = IF canDelete THEN [@ EXCEPT !.pc = "remove"]
                                            ELSE Idle]
  /\ UNCHANGED <<created, rows, deps, audit, boot, crashes>>

\* CheckDependencies looks the service up again and lists its dependents;
\* every dependency row counts, since rows of services never go away.
CheckDependencies(r) ==
  LET n == req[r].name
      canDelete == Live(n) /\ \A d \in deps : d[2] # n
  IN
  /\ req[r].pc = "check"
  /\ req' = [req EXCEPT ![r] = IF canDelete THEN [@ EXCEPT !.pc = "remove"]
                                            ELSE Idle]
  /\ UNCHANGED <<created, rows, deps, audit, boot, crashes>>

\* The row is saved as the snapshot read by DeleteLookup, marked deleted.
MarkDeleted(r) ==
  /\ req[r].pc = "remove"
  /\ rows' = [rows EXCEPT ![req[r].name] = [req[r].snap EXCEPT !.deleted = TRUE]]
  /\ req' = [req EXCEPT ![r] = [@ EXCEPT !.pc = "unlink"]]
  /\ UNCHANGED <<created, deps, audit, boot, crashes>>

\* Mutant: the rows that point at the service are removed instead of its own.
DeleteDependencies_Column(r) ==
  /\ req[r].pc = "unlink"
  /\ deps' = {d \in deps : d[2] # req[r].name}
  /\ req' = [req EXCEPT ![r] = Idle]
  /\ UNCHANGED <<created, rows, audit, boot, crashes>>

\* The dependencies of the deleted service go with it.
DeleteDependencies(r) ==
  /\ req[r].pc = "unlink"
  /\ deps' = {d \in deps : d[1] # req[r].name}
  /\ req' = [req EXCEPT ![r] = Idle]
  /\ UNCHANGED <<created, rows, audit, boot, crashes>>

-----------------------------------------------------------------------------
(* InitDefaultDependencies, two seconds after every start of the server *)

\* Nothing to do when the table has rows; otherwise the pairs whose ends are
\* both in the list of live services are inserted.
InitDefaultDependencies ==
  /\ boot.pc = "waiting"
  /\ boot' = IF deps # {}
             THEN [pc |-> "done", todo |-> {}]
             ELSE [pc |-> "inserting",
                   todo |-> {d \in DefaultDeps : Live(d[1]) /\ Live(d[2])}]
  /\ UNCHANGED <<created, rows, deps, audit, req, crashes>>

InsertDependency ==
  /\ boot.pc = "inserting"
  /\ \/ \E d \in boot.todo :
          /\ deps' = deps \cup {d}
          /\ boot' = [boot EXCEPT !.todo = @ \ {d}]
     \/ /\ boot.todo = {}
        /\ boot' = [boot EXCEPT !.pc = "done"]
        /\ UNCHANGED deps
  /\ UNCHANGED <<created, rows, audit, req, crashes>>

-----------------------------------------------------------------------------
(* The server process dies and is started again: goroutines are gone, the  *)
(* database stays as it is.                                                *)

Crash ==
  /\ crashes < MaxCrashes
  /\ crashes' = crashes + 1
  /\ req' = [r \in Requests |-> Idle]
  /\ boot' = [pc |-> "waiting", todo |-> {}]
  /\ UNCHANGED <<created, rows, deps, audit>>

-----------------------------------------------------------------------------
(* Specification *)

\* The statements a request in flight still has to execute.
Continue(r) ==
  \/ Refuse(r) \/ Accept(r)
  \/ SaveStage(r) \/ SaveFinal(r) \/ SaveAudit(r)
  \/ CheckDependencies(r) \/ MarkDeleted(r) \/ DeleteDependencies(r)

Arrive(r) ==
  \E n \in Names : DeleteLookup(r, n) \/ \E op \in Ops : RunScript(r, op, n)

Boot == InitDefaultDependencies \/ InsertDependency

Next ==
  \/ \E n \in Names : CreateService(n)
  \/ \E r \in Requests : Arrive(r) \/ Continue(r)
  \/ Boot
  \/ Crash

Spec            == Init /\ [][Next]_vars
SpecEstablished == InitEstablished /\ [][Next]_vars

\* Handlers and the boot goroutine run to completion unless the process
\* dies; users owe the server no further request.
Fairness == WF_vars(Boot) /\ \A r \in Requests : WF_vars(Continue(r))

FairSpec == Spec /\ Fairness

-----------------------------------------------------------------------------
(* Properties *)

TypeOK ==
  /\ created \subseteq Names
  /\ rows \in [Names -> Row]
  /\ deps \subseteq DefaultDeps
  /\ audit \subseteq Names \X Ops
  /\ req \in [Requests -> Request]
  /\ boot \in [pc : {"waiting", "inserting", "done"}, todo : SUBSET DefaultDeps]
  /\ crashes \in 0..MaxCrashes

Busy(n) == \E r \in Requests : req[r].pc # "idle" /\ req[r].name = n

\* What a finished operation leaves behind.
Settled(row) ==
  <<row.status, row.lastOp>> \in {<<"STOPPED", "">>, <<"STOPPED", "STOP">>,
                                  <<"HEALTHY", "START">>, <<"HEALTHY", "RESTART">>}

\* When no request works on a live service and the server never died, its
\* status is the one its last recorded operation ends in: whatever stale
\* snapshots concurrent StartService / StopService / RestartService /
\* DeleteService calls wrote over each other, the last write was a final one.
SettledWhenIdle ==
  crashes = 0 => \A n \in Names : Live(n) /\ ~Busy(n) => Settled(rows[n])

\* The operation a service shows as its last one is in the audit trail once
\* nothing works on the service any more (auditRepository.Save comes last).
LastOpAudited ==
  crashes = 0 =>
    \A n \in Names : (~Busy(n) /\ rows[n].lastOp # "") =>
                        <<n, rows[n].lastOp>> \in audit

\* A service other services depend on is never deleted, however deletions and
\* operations overlap: what DeleteService answers with "Cannot delete service
\* due to dependencies".
DependedOnKept ==
  crashes = 0 => \A d \in deps : Live(d[2])

\* The dependencies of a deleted service are gone once its deletion is over,
\* so they cannot hold up the deletion of the services it depended on.
DeletedUnlinked ==
  crashes = 0 => \A d \in deps : rows[d[1]].deleted => Busy(d[1])

\* Wherever a restart of the server interrupts an operation, the status left
\* in the row is one from which some operation is accepted.
NeverStranded ==
  \A n \in Names : Live(n) => \E op \in Ops : rows[n].status \in AcceptedFrom(op)

\* A service is never marked deleted while its stored status says it runs
\* ("Cannot delete service while it is running").
NoDeleteWhileRunning ==
  [][\A n \in Names :
       (Live(n) /\ rows'[n].deleted) => rows[n].status \notin {"STARTING", "HEALTHY"}]_vars

Shows(n, statuses) == Live(n) /\ rows[n].status \in statuses

\* A live service an operation made STARTING or STOPPING leaves that status, unless
\* the server dies meanwhile (service_service.go:116 to 127): a restart is the only
\* thing that leaves it there, and the next operation on it ends as any other.
OperationsEnd ==
  \A n \in Names, k \in 0..MaxCrashes :
    (/\ Shows(n, Transient) /\ crashes = k
     /\ \E r \in Requests : req[r].pc = "saving" /\ req[r].name = n)
      ~> (crashes > k \/ ~Shows(n, Transient))

=============================================================================
