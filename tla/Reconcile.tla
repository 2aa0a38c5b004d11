------------------------------- MODULE Reconcile -------------------------------
(***************************************************************************)
(* The applications of one ShipZen project: the rows of its deployments    *)
(* and the objects that serve them (reconcile_deployments and              *)
(* apply_manifests in src/controller/main.py).                             *)
(*                                                                         *)
(* A pass lists the objects of the cluster, then reads the rows, and acts  *)
(* on both without looking again: it repairs what is missing, moves rows   *)
(* to Running or Failed and deletes what no live row owns.                 *)
(*                                                                         *)
(* The project is neither new nor deleted and its namespace exists; what   *)
(* becomes of it otherwise is in Lifecycle.  A failed look at the          *)
(* namespace makes it Failed, and nobody reconciles it any more.           *)
(***************************************************************************)
EXTENDS Naturals, FiniteSets

CONSTANTS
  Controller,      \* replicas of the controller
  MaxDeployments,  \* bound: rows of the project
  MaxFailures,     \* failures in a row after which a project is skipped
  MaxFaults        \* bound: calls that fail, crashes, messages delivered
                   \* again, edits by hand in the cluster

ASSUME BoundsAssumption ==
  /\ Controller # {}
  /\ MaxDeployments \in Nat /\ MaxFailures \in Nat \ {0} /\ MaxFaults \in Nat

Deployment == 1 .. MaxDeployments      \* in the order they were requested

VARIABLES
  state, replicas, late,   \* PostgreSQL: columns; rows too long in their state
  newer,                   \* PostgreSQL: <<d, e>> when d was updated after e
  pending,                 \* worker: deployments whose message is not handled
  status,                  \* PostgreSQL: the project is Ready or Failed
  failures,                \* controller: _project_failures
  dep, size, ready, part,  \* Kubernetes: Deployments, their spec.replicas, those
                           \* with a ready pod, the other objects of each
  pc, at, todo,            \* controller: control point, deployment, those left
  seen, plan,              \* controller: what it listed, what follows for a row
  taken,                   \* controller: rows its transaction takes replicas from
  conflict,                \* client: a 409 reaches apply_manifests as such
  faults                   \* how much of the bound is used

rowVars     == <<state, replicas, late, newer, pending>>
clusterVars == <<dep, size, ready, part>>
projectVars == <<status, failures>>
passVars    == <<pc, at, todo, seen, plan, taken>>
vars == <<rowVars, clusterVars, projectVars, passVars, conflict, faults>>

\* Queued stands for Building, too; no code writes Verifying.
State      == {"Absent", "Queued", "Deploying", "Running", "Failed"}
InFlight   == {"Queued", "Deploying"}

\* Wrong variant: a row is out of the controller's hands once it is Running.
ReconciledUntilRunning == {"Deploying"}

\* The states whose rows a pass works on.
Reconciled == {"Deploying", "Running"}

\* Wrong variant: the cleanup spares Failed deployments, too.
LiveOrFailed == InFlight \cup Reconciled \cup {"Failed"}

\* _LIVE_STATES
Live == InFlight \cup Reconciled

\* What a Deployment needs besides.  The ExternalSecret, which is looked for
\* like these and never deleted, and the disruption budget are left out.
Part == {"svc", "route"}

\* Control points of a pass, and what a pass holds about a row.
PassPc == {"idle", "listDeps", "listSvcs", "listRoutes", "check", "setFailed", "read",
           "repair", "expose", "decide", "commit", "clean", "cleanSvc", "cleanRoute"}
Plan == [listed : BOOLEAN, apply : BOOLEAN, replicas : 0 .. 1,
         verdict : {"none", "Running", "Failed"}, orphan : BOOLEAN]
Listing == [dep : SUBSET Deployment, size : [Deployment -> 0 .. 1],
            ready : SUBSET Deployment, whole : SUBSET Deployment]

NothingSeen == [dep |-> {}, size |-> [d \in Deployment |-> 0], ready |-> {},
                whole |-> {}]
NoPlan == [listed |-> FALSE, apply |-> FALSE, replicas |-> 0,
           verdict |-> "none", orphan |-> FALSE]
Unplanned == [d \in Deployment |-> NoPlan]

Init ==
  /\ state = [d \in Deployment |-> "Absent"]
  /\ replicas = [d \in Deployment |-> 0]
  /\ late = {} /\ newer = {} /\ pending = {}
  /\ dep = {} /\ size = [d \in Deployment |-> 0] /\ ready = {}
  /\ part = [d \in Deployment |-> {}]
  /\ status = "Ready" /\ failures = [c \in Controller |-> 0]
  /\ pc = [c \in Controller |-> "idle"]
  /\ at = [c \in Controller |-> 0]
  /\ todo = [c \in Controller |-> {}]
  /\ seen = [c \in Controller |-> NothingSeen]
  /\ plan = [c \in Controller |-> Unplanned]
  /\ taken = [c \in Controller |-> {}]
  /\ conflict \in BOOLEAN
  /\ faults = 0

Fault == faults < MaxFaults /\ faults' = faults + 1
NoFault == UNCHANGED faults

-----------------------------------------------------------------------------
(* Requests and workers.                                                   *)

\* idx_deployments_one_active_per_project
IndexAllows(d) == \A e \in Deployment \ {d} : state[e] \notin InFlight

\* Rows that an open transaction has written; other UPDATEs wait for them.
Locked == UNION {{at[c]} \cup taken[c] : c \in {c \in Controller : pc[c] = "commit"}}

\* updated_at = now
Touch(d) ==
  /\ newer' = {pair \in newer : d \notin {pair[1], pair[2]}}
              \cup {<<d, e>> : e \in {e \in Deployment \ {d} : state[e] # "Absent"}}
  /\ late' = late \ {d}

\* INSERT INTO deployments, and the message that follows it to the workers.
Insert(d, n) ==
  /\ state[d] = "Absent" /\ \A e \in 1 .. (d - 1) : state[e] # "Absent"
  /\ IndexAllows(d)
  /\ state' = [state EXCEPT ![d] = "Queued"]
  /\ replicas' = [replicas EXCEPT ![d] = n]
  /\ pending' = pending \cup {d}
  /\ Touch(d)
  /\ UNCHANGED <<clusterVars, passVars, projectVars, conflict, faults>>

CreateDeployment(d) == Insert(d, 1)

\* The row that rollback_deployment copies: Running, and updated last.
IsLastGood(e) == /\ state[e] = "Running"
                 /\ \A f \in Deployment \ {e} : state[f] = "Running" => <<e, f>> \in newer

RollbackDeployment(d) ==
  \E e \in Deployment : IsLastGood(e) /\ Insert(d, replicas[e])

\* The worker writes the row whatever has become of it in the meantime: first
\* Building, then, with an image or without one, the outcome.
StartBuild(d) ==
  /\ d \in pending \ Locked /\ IndexAllows(d)
  /\ state' = [state EXCEPT ![d] = "Queued"]
  /\ Touch(d)
  /\ UNCHANGED <<replicas, pending, clusterVars, passVars, projectVars,
                 conflict, faults>>

FinishBuild(d) ==
  /\ d \in pending \ Locked
  /\ \/ state' = [state EXCEPT ![d] = "Deploying"] /\ IndexAllows(d)
     \/ state' = [state EXCEPT ![d] = "Failed"]
  /\ pending' = pending \ {d}
  /\ Touch(d)
  /\ UNCHANGED <<replicas, clusterVars, passVars, projectVars, conflict, faults>>

\* A message that was not acknowledged comes again and finds its row Failed,
\* which is no reason to drop it.
Redeliver(d) ==
  /\ state[d] = "Failed" /\ d \notin pending /\ Fault
  /\ pending' = pending \cup {d}
  /\ UNCHANGED <<state, replicas, late, newer, clusterVars, passVars,
                 projectVars, conflict>>

\* 60 minutes in Queued, 300 seconds in Deploying.
Expire(d) ==
  /\ state[d] \in InFlight /\ d \notin late
  /\ late' = late \cup {d}
  /\ UNCHANGED <<state, replicas, newer, pending, clusterVars, passVars,
                 projectVars, conflict, faults>>

-----------------------------------------------------------------------------
(* Kubernetes.                                                             *)

PodReady(d) ==
  /\ d \in dep \ ready /\ size[d] > 0
  /\ ready' = ready \cup {d}
  /\ UNCHANGED <<rowVars, dep, size, part, passVars, projectVars, conflict, faults>>

PodGone(d) ==
  /\ d \in ready
  /\ ready' = ready \ {d}
  /\ UNCHANGED <<rowVars, dep, size, part, passVars, projectVars, conflict, faults>>

EditByHand(d) ==
  /\ Fault
  /\ \/ /\ d \in dep
        /\ dep' = dep \ {d} /\ ready' = ready \ {d} /\ size' = [size EXCEPT ![d] = 0]
        /\ UNCHANGED part
     \/ /\ d \in dep
        /\ size' = [size EXCEPT ![d] = 1 - @]
        /\ UNCHANGED <<dep, ready, part>>
     \/ \E o \in part[d] : /\ part' = [part EXCEPT ![d] = @ \ {o}]
                           /\ UNCHANGED <<dep, size, ready>>
  /\ UNCHANGED <<rowVars, passVars, projectVars, conflict>>

-----------------------------------------------------------------------------
(* A pass of controller c.                                                 *)

Goto(c, p) == pc' = [pc EXCEPT ![c] = p]

\* The pass leaves the project, which has failed n times in a row.
Leave(c, n) == /\ Goto(c, "idle")
               /\ at' = [at EXCEPT ![c] = 0]
               /\ todo' = [todo EXCEPT ![c] = {}]
               /\ seen' = [seen EXCEPT ![c] = NothingSeen]
               /\ plan' = [plan EXCEPT ![c] = Unplanned]
               /\ taken' = [taken EXCEPT ![c] = {}]
               /\ failures' = [failures EXCEPT ![c] = n]

\* No exception has left _reconcile_project.
EndPass(c) == Leave(c, 0)

\* The sweeper, whose UPDATE leaves updated_at alone, and the SELECT of the
\* projects: one that is not Ready, or that is skipped, is left alone.
BeginPass(c) ==
  /\ pc[c] = "idle"
  /\ LET stuck == {d \in late : state[d] = "Queued"}
     IN  /\ stuck \cap Locked = {}
         /\ state' = [d \in Deployment |-> IF d \in stuck THEN "Failed" ELSE state[d]]
         /\ late' = late \ stuck
  /\ Goto(c, IF status = "Ready" /\ failures[c] < MaxFailures THEN "listDeps" ELSE "idle")
  /\ UNCHANGED <<replicas, newer, pending, clusterVars, at, todo, seen, plan, taken,
                 projectVars, conflict, faults>>

\* The lists of the whole cluster, one after the other.
ListDeployments(c) ==
  /\ pc[c] = "listDeps"
  /\ seen' = [seen EXCEPT ![c] = [dep |-> dep, size |-> size, ready |-> ready, whole |-> {}]]
  /\ Goto(c, "listSvcs")
  /\ UNCHANGED <<rowVars, clusterVars, at, todo, plan, taken, projectVars,
                 conflict, faults>>

ListServices(c) ==
  /\ pc[c] = "listSvcs"
  /\ seen' = [seen EXCEPT ![c].whole = {d \in Deployment : "svc" \in part[d]}]
  /\ Goto(c, "listRoutes")
  /\ UNCHANGED <<rowVars, clusterVars, at, todo, plan, taken, projectVars,
                 conflict, faults>>

\* When the routes cannot be listed all of them count as missing.
ListRoutes(c) ==
  /\ pc[c] = "listRoutes"
  /\ \E found \in BOOLEAN :
       /\ IF found THEN NoFault ELSE Fault
       /\ seen' = [seen EXCEPT ![c].whole =
                     {d \in @ : found /\ "route" \in part[d]}]
  /\ Goto(c, "check")
  /\ UNCHANGED <<rowVars, clusterVars, at, todo, plan, taken, projectVars,
                 conflict>>

\* Another failure of a list ends the pass for all projects.
FailLists(c) ==
  /\ pc[c] \in {"listDeps", "listSvcs", "listRoutes"} /\ Fault
  /\ Leave(c, failures[c])
  /\ UNCHANGED <<rowVars, clusterVars, status, conflict>>

\* _reconcile_project gets no connection: the only exception that leaves it.
NoConnection(c) ==
  /\ pc[c] = "check" /\ Fault
  /\ Leave(c, failures[c] + 1)
  /\ UNCHANGED <<rowVars, clusterVars, status, conflict>>

\* The namespace is there; but the call may fail.
CheckNamespace(c) ==
  /\ pc[c] = "check"
  /\ \/ NoFault /\ Goto(c, "read")
     \/ Fault /\ Goto(c, "setFailed")
  /\ UNCHANGED <<rowVars, clusterVars, at, todo, seen, plan, taken,
                 projectVars, conflict>>

\* What follows for the project: nothing makes it Ready again.
SetFailed(c) ==
  /\ pc[c] = "setFailed"
  /\ status' = "Failed"
  /\ EndPass(c)
  /\ UNCHANGED <<rowVars, clusterVars, conflict, faults>>

\* Wrong variant: only a missing Deployment is missed.
NeedsApplyIfGone(c, d) == d \notin seen[c].dep

\* missing_resources or drifted
NeedsApply(c, d) == \/ d \notin seen[c].dep \cap seen[c].whole
                    \/ seen[c].size[d] # replicas[d]

\* Wrong variant: no row is too long in Deploying.
VerdictWithoutLimit(c, d) ==
  CASE d \notin seen[c].dep -> "none"
    [] d \in seen[c].ready  -> IF state[d] = "Deploying" THEN "Running" ELSE "none"
    [] OTHER -> IF state[d] = "Running" THEN "Failed" ELSE "none"

\* What the pass concludes for a row from the pods it listed.
Verdict(c, d) ==
  CASE d \notin seen[c].dep -> "none"
    [] d \in seen[c].ready  -> IF state[d] = "Deploying" THEN "Running" ELSE "none"
    [] OTHER -> IF state[d] = "Running" \/ d \in late THEN "Failed" ELSE "none"

\* The SELECT of the rows, with the conclusions that only depend on it and on
\* the lists: they are drawn later, from the same values.
ReadRows(c) ==
  /\ pc[c] = "read"
  /\ todo' = [todo EXCEPT ![c] = {d \in Deployment : state[d] \in Reconciled}]
  /\ plan' = [plan EXCEPT ![c] = [d \in Deployment |->
       IF state[d] \in Reconciled
       THEN [listed |-> d \in seen[c].dep, apply |-> NeedsApply(c, d),
             replicas |-> replicas[d], verdict |-> Verdict(c, d), orphan |-> FALSE]
       ELSE [NoPlan EXCEPT !.orphan = d \in seen[c].dep /\ state[d] \notin Live]]]
  /\ seen' = [seen EXCEPT ![c] = NothingSeen]
  /\ Goto(c, "repair")
  /\ UNCHANGED <<rowVars, clusterVars, at, taken, projectVars, conflict, faults>>

\* The process ends, and forgets how often the project failed; or, once the
\* rows are to be read, a call fails whose error is only logged: so is the
\* one of the UPDATE to Failed, also of the one that follows a failed SELECT.
Abort(c) ==
  /\ <<pc[c], failures[c]>> # <<"idle", 0>>
  /\ Fault
  /\ EndPass(c)
  /\ UNCHANGED <<rowVars, clusterVars, status, conflict>>

\* The Deployment.  One that exists is patched, unless the client does not
\* report the conflict as an ApiException; errors are swallowed.
ApplyDeployment(c, d) ==
  /\ pc[c] = "repair" /\ d \in todo[c] /\ plan[c][d].apply
  /\ \/ NoFault /\ dep' = dep \cup {d}
        /\ size' = IF d \in dep /\ ~conflict THEN size
                   ELSE [size EXCEPT ![d] = plan[c][d].replicas]
     \/ Fault /\ UNCHANGED <<dep, size>>
  /\ Goto(c, "expose")
  /\ at' = [at EXCEPT ![c] = d]
  /\ UNCHANGED <<rowVars, ready, part, todo, seen, plan, taken, projectVars,
                 conflict>>

\* The Service and the HTTPRoute.  The pods of a Deployment that was not
\* listed are looked at in the next pass.
ApplyRoute(c) ==
  /\ pc[c] = "expose"
  /\ \E failed \in SUBSET {"svc", "route"} :
       /\ IF failed = {} THEN NoFault ELSE Fault
       /\ part' = [part EXCEPT ![at[c]] = @ \cup ({"svc", "route"} \ failed)]
  /\ IF plan[c][at[c]].listed
     THEN Goto(c, "decide") /\ UNCHANGED <<at, todo>>
     ELSE /\ Goto(c, "repair")
          /\ todo' = [todo EXCEPT ![c] = @ \ {at[c]}]
          /\ at' = [at EXCEPT ![c] = 0]
  /\ UNCHANGED <<rowVars, dep, size, ready, seen, plan, taken, projectVars,
                 conflict>>

\* The pass is done with d.
Decided(c, d) == /\ Goto(c, "repair")
                 /\ todo' = [todo EXCEPT ![c] = @ \ {d}]
                 /\ plan' = [plan EXCEPT ![c][d] = NoPlan]
                 /\ at' = [at EXCEPT ![c] = 0]

\* The pass comes to the verdict on d.
Deciding(c, d) == /\ d \in todo[c]
                  /\ \/ pc[c] = "repair" /\ ~plan[c][d].apply
                     \/ pc[c] = "decide" /\ d = at[c]

\* No verdict, or the UPDATE to Failed.
Decide(c, d) ==
  /\ Deciding(c, d) /\ plan[c][d].verdict # "Running"
  /\ IF plan[c][d].verdict = "none" THEN UNCHANGED <<state, late>>
     ELSE /\ d \notin Locked
          /\ state' = [state EXCEPT ![d] = "Failed"]
          /\ late' = late \ {d}
  /\ Decided(c, d)
  /\ UNCHANGED <<replicas, newer, pending, clusterVars, seen, taken,
                 projectVars, conflict, faults>>

\* The rows that serve now, as a statement of READ COMMITTED finds them.
Serving == {d \in Deployment : state[d] = "Running" /\ replicas[d] > 0}

Superseded(d) == Serving \ {d}

\* Wrong variant: the rows that are superseded keep their replicas.
PromoteAlone(c, d) ==
  /\ Deciding(c, d) /\ plan[c][d].verdict = "Running"
  /\ d \notin Locked
  /\ Goto(c, "commit") /\ at' = [at EXCEPT ![c] = d] /\ taken' = [taken EXCEPT ![c] = {}]
  /\ UNCHANGED <<rowVars, clusterVars, todo, seen, plan, projectVars, conflict,
                 faults>>

\* Two UPDATEs in one transaction: d is Running, the others lose their replicas.
Promote(c, d) ==
  /\ Deciding(c, d) /\ plan[c][d].verdict = "Running"
  /\ ({d} \cup Superseded(d)) \cap Locked = {}
  /\ Goto(c, "commit")
  /\ at' = [at EXCEPT ![c] = d]
  /\ taken' = [taken EXCEPT ![c] = Superseded(d)]
  /\ UNCHANGED <<rowVars, clusterVars, todo, seen, plan, projectVars, conflict,
                 faults>>

Commit(c) ==
  /\ pc[c] = "commit"
  /\ state' = [state EXCEPT ![at[c]] = "Running"]
  /\ late' = late \ {at[c]}
  /\ replicas' = [e \in Deployment |-> IF e \in taken[c] THEN 0 ELSE replicas[e]]
  /\ taken' = [taken EXCEPT ![c] = {}]
  /\ Decided(c, at[c])
  /\ UNCHANGED <<newer, pending, clusterVars, seen, projectVars, conflict, faults>>

\* Orphans: Deployments whose row, as read, is in no live state.
FindOrphans(c) ==
  /\ pc[c] = "repair" /\ todo[c] = {}
  /\ todo' = [todo EXCEPT ![c] = {d \in Deployment : plan[c][d].orphan}]
  /\ Goto(c, "clean")
  /\ UNCHANGED <<rowVars, clusterVars, at, seen, plan, taken, projectVars,
                 conflict, faults>>

\* Wrong variant: the pods of the Deployment are left to themselves.
DeleteAndOrphanPods(c, d) ==
  /\ pc[c] = "clean" /\ d \in todo[c] /\ d \in dep
  /\ dep' = dep \ {d} /\ size' = [size EXCEPT ![d] = 0]
  /\ Goto(c, "cleanSvc")
  /\ at' = [at EXCEPT ![c] = d]
  /\ todo' = [todo EXCEPT ![c] = @ \ {d}]
  /\ UNCHANGED <<rowVars, ready, part, seen, plan, taken, projectVars,
                 conflict, faults>>

\* A Deployment that is already gone ends the pass.
DeleteDeployment(c, d) ==
  /\ pc[c] = "clean" /\ d \in todo[c]
  /\ dep' = dep \ {d} /\ ready' = ready \ {d} /\ size' = [size EXCEPT ![d] = 0]
  /\ IF d \in dep
     THEN /\ Goto(c, "cleanSvc")
          /\ at' = [at EXCEPT ![c] = d]
          /\ todo' = [todo EXCEPT ![c] = @ \ {d}]
          /\ UNCHANGED <<seen, plan, taken, failures>>
     ELSE EndPass(c)
  /\ UNCHANGED <<rowVars, part, status, conflict, faults>>

\* Wrong variant: the routes are forgotten.
DeleteServiceOnly(c) ==
  /\ pc[c] = "cleanSvc"
  /\ \/ NoFault /\ part' = [part EXCEPT ![at[c]] = @ \ {"svc"}]
     \/ Fault /\ UNCHANGED part
  /\ Goto(c, "clean")
  /\ UNCHANGED <<rowVars, dep, size, ready, at, todo, seen, plan, taken,
                 projectVars, conflict>>

\* Without the Service, or when the call fails, the route is not deleted.
DeleteService(c) ==
  /\ pc[c] = "cleanSvc"
  /\ \/ /\ NoFault
        /\ part' = [part EXCEPT ![at[c]] = @ \ {"svc"}]
        /\ Goto(c, IF "svc" \in part[at[c]] THEN "cleanRoute" ELSE "clean")
     \/ /\ Fault
        /\ UNCHANGED part
        /\ Goto(c, "clean")
  /\ UNCHANGED <<rowVars, dep, size, ready, at, todo, seen, plan, taken,
                 projectVars, conflict>>

DeleteRoute(c) ==
  /\ pc[c] = "cleanRoute"
  /\ \/ NoFault /\ part' = [part EXCEPT ![at[c]] = @ \ {"route"}]
     \/ Fault /\ UNCHANGED part
  /\ Goto(c, "clean")
  /\ UNCHANGED <<rowVars, dep, size, ready, at, todo, seen, plan, taken,
                 projectVars, conflict>>

LeavePass(c) ==
  /\ pc[c] = "clean" /\ todo[c] = {}
  /\ EndPass(c)
  /\ UNCHANGED <<rowVars, clusterVars, status, conflict, faults>>

-----------------------------------------------------------------------------
PassStep(c) == \/ BeginPass(c) \/ ListDeployments(c) \/ ListServices(c) \/ ListRoutes(c)
               \/ CheckNamespace(c) \/ SetFailed(c) \/ ReadRows(c)
               \/ \E d \in Deployment : ApplyDeployment(c, d) \/ Decide(c, d)
                                        \/ Promote(c, d) \/ DeleteDeployment(c, d)
               \/ Commit(c) \/ ApplyRoute(c) \/ FindOrphans(c)
               \/ DeleteService(c) \/ DeleteRoute(c) \/ LeavePass(c)

\* A pass ends before its time.
Fail(c) == FailLists(c) \/ NoConnection(c) \/ Abort(c)

Next == \/ \E d \in Deployment :
             \/ CreateDeployment(d) \/ RollbackDeployment(d)
             \/ StartBuild(d) \/ FinishBuild(d) \/ Redeliver(d) \/ Expire(d)
             \/ PodReady(d) \/ PodGone(d) \/ EditByHand(d)
        \/ \E c \in Controller : PassStep(c) \/ Fail(c)

Spec == Init /\ [][Next]_vars

\* The loop of main() goes on for ever, a pass that has begun takes its next
\* step, and time passes; nothing else needs to happen.  A pass takes care of
\* the project only while it is Ready and not skipped: see GivenUp.
Fairness == /\ \A c \in Controller : WF_vars(PassStep(c))
            /\ \A d \in Deployment : WF_vars(Expire(d))

FairSpec == Spec /\ Fairness

-----------------------------------------------------------------------------
(* Properties.                                                             *)

\* Types; pods belong to Deployments that exist, and a pass works on a row
\* that it still has to do.
TypeOK ==
  /\ state \in [Deployment -> State] /\ replicas \in [Deployment -> 0 .. 1]
  /\ late \subseteq Deployment /\ pending \subseteq Deployment
  /\ newer \subseteq Deployment \X Deployment
  /\ dep \subseteq Deployment /\ ready \subseteq dep
  /\ size \in [Deployment -> 0 .. 1] /\ part \in [Deployment -> SUBSET Part]
  /\ pc \in [Controller -> PassPc] /\ at \in [Controller -> {0} \cup Deployment]
  /\ todo \in [Controller -> SUBSET Deployment]
  /\ taken \in [Controller -> SUBSET Deployment]
  /\ \A c \in Controller : /\ pc[c] \in {"expose", "decide", "commit"} => at[c] \in todo[c]
                           /\ pc[c] \in {"cleanSvc", "cleanRoute"} => at[c] \in Deployment
  /\ seen \in [Controller -> Listing]
  /\ plan \in [Controller -> [Deployment -> Plan]]
  /\ status \in {"Ready", "Failed"} /\ failures \in [Controller -> 0 .. MaxFailures]
  /\ \A c \in Controller : pc[c] # "idle" => failures[c] < MaxFailures
  /\ conflict \in BOOLEAN /\ faults \in 0 .. MaxFaults

\* One deployment of a project serves: however verdicts, rollbacks and late
\* workers follow each other, at most one Running row is to have replicas, if
\* no second replica of the controller promotes another row meanwhile.
OneReplica == \A c, k \in Controller : c = k
OneServing == OneReplica => \A d, e \in Serving : d = e

\* What serves is spared: a pass deletes what its list of rows called orphaned,
\* however long ago it read that list, and a row that failed may be built
\* again meanwhile; with one replica of the controller it cannot be Running
\* when the cleanup comes to its Deployment, its Service or its route.
ServingIsSpared ==
  [][OneReplica /\ passVars' # passVars =>
       \A d \in Deployment : state[d] = "Running" =>
         /\ {d} \cap dep \subseteq dep' /\ {d} \cap ready \subseteq ready'
         /\ part[d] \subseteq part'[d]]_vars

\* A Service or a route without a Deployment, that a Failed row has left over
\* and no cleanup is about to delete: no pass ever looks for these.
Leftover == {d \in Deployment : /\ d \notin dep /\ part[d] # {} /\ state[d] = "Failed"
                                /\ \A c \in Controller :
                                     ~(pc[c] \in {"cleanSvc", "cleanRoute"} /\ at[c] = d)}

\* The cleanup is whole: however passes, builds and verdicts follow each other,
\* each deployment that leaves a Service or a route behind is the price of a
\* failed call, a crash or an edit of its own; with one replica.
LeftoversNeedFaults == OneReplica => Cardinality(Leftover) <= faults

\* The controller has given the project up: one failed look at the namespace
\* makes it Failed for good (controller/main.py:398), and so many failed
\* connections in a row have it skipped until the controller restarts (317).
GivenUp == status = "Failed" \/ \A c \in Controller : failures[c] >= MaxFailures

\* A deployment with a Deployment whose pods do not get ready does not stay
\* Deploying, which would block its project by the index; and what a failed
\* call did not create is tried again and judged by its pods in a later pass.
DeploymentSettles ==
  \A d \in Deployment : state[d] = "Deploying" ~> (state[d] # "Deploying" \/ GivenUp)

\* Whatever the cleanup of one pass leaves over, the Deployment of a Failed
\* row is deleted in the end, unless the project is given up.
OrphanIsDeleted ==
  \A d \in Deployment :
    (state[d] = "Failed" /\ d \in dep) ~> (state[d] # "Failed" \/ d \notin dep \/ GivenUp)

\* Drift of a Running deployment is repaired, unless the project is given up:
\* what a failed call or a hand took away, and, where the client can patch, its
\* number of replicas.
Corrected(d) == /\ d \in dep /\ part[d] = Part
                /\ conflict => size[d] = replicas[d]
DriftIsCorrected ==
  \A d \in Deployment :
    state[d] = "Running" ~> (state[d] # "Running" \/ Corrected(d) \/ GivenUp)

-----------------------------------------------------------------------------
\* "Re-deploy the last known-good image" (api/main.py:673) as a deployment
\* whose "initial replica count is 1" (api/main.py:633): a row that is queued
\* asks for a replica.
QueuedAsksForReplica ==
  \A d \in Deployment : state[d] = "Queued" => replicas[d] = 1
=============================================================================
