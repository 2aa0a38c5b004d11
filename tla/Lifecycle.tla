------------------------------- MODULE Lifecycle -------------------------------
(***************************************************************************)
(* The life of a ShipZen project: its row, which the API creates and marks *)
(* for deletion, and its namespace, which the controller provisions and    *)
(* deletes (reconcile and _reconcile_project in src/controller/main.py).   *)
(*                                                                         *)
(* Every replica of the controller runs passes of its own: it reads all    *)
(* projects at once and then works on each in a thread of the pass, on the *)
(* row it read.  Nothing orders two replicas, or a pass and the API.       *)
(***************************************************************************)
EXTENDS Naturals, FiniteSets

CONSTANTS
  Controller,     \* replicas of the controller
  Project,        \* project ids, each with a namespace of its own
  MaxRequests,    \* bound: requests to delete a project under way at once
  MaxDrift,       \* bound: namespaces deleted by hand
  MaxFaults       \* bound: calls that fail, and crashes of controllers

ASSUME BoundsAssumption == MaxRequests \in Nat /\ MaxDrift \in Nat /\ MaxFaults \in Nat

VARIABLES
  status, deleted,    \* PostgreSQL: status, and whether deleted_at is set
  ns, ecr,            \* the namespace in Kubernetes, the repository in ECR
  task, failures,     \* controller: thread of a pass, _project_failures
  deleting,           \* API: requests to delete that have passed their checks
  replicas,           \* the replicas that were started, one or more
  drift, faults       \* how much of the bounds is used

rowVars     == <<status, deleted>>
clusterVars == <<ns, ecr>>
taskVars    == <<task, failures>>
budgetVars  == <<replicas, drift, faults>>
vars == <<rowVars, clusterVars, taskVars, deleting, budgetVars>>

\* None stands for a project that was not created yet.
Status == {"None", "Provisioning", "Ready", "Terminating", "Terminated", "Failed"}

\* The controller acts on these; a Failed project has no branch.
Acted == {"Provisioning", "Ready", "Terminating"}

\* A task starts with the status it was given.
Task == Acted \cup {"none", "checkNew", "setReady", "deleteNs", "dropEcr",
                    "setTerminated", "setProvisioning", "setFailed"}

Init ==
  /\ status = [p \in Project |-> "None"]
  /\ deleted = [p \in Project |-> FALSE]
  /\ ns = [p \in Project |-> "absent"]
  /\ ecr = [p \in Project |-> FALSE]
  /\ task = [c \in Controller |-> [p \in Project |-> "none"]]
  /\ failures = [c \in Controller |-> [p \in Project |-> 0]]
  /\ deleting = [p \in Project |-> 0]
  /\ replicas \in SUBSET Controller \ {{}}
  /\ drift = 0 /\ faults = 0

Fault == faults < MaxFaults /\ faults' = faults + 1 /\ UNCHANGED <<replicas, drift>>
NoFault == UNCHANGED budgetVars

-----------------------------------------------------------------------------
(* The API.                                                                *)

CreateProject(p) ==
  /\ status[p] = "None"
  /\ status' = [status EXCEPT ![p] = "Provisioning"]
  /\ UNCHANGED <<deleted, clusterVars, taskVars, deleting, budgetVars>>

\* verify_project_access: the row exists and deleted_at IS NULL.
Visible(p) == status[p] # "None" /\ ~deleted[p]

CheckDelete(p) ==
  /\ Visible(p) /\ deleting[p] < MaxRequests
  /\ deleting' = [deleting EXCEPT ![p] = @ + 1]
  /\ UNCHANGED <<rowVars, clusterVars, taskVars, budgetVars>>

\* The UPDATE of delete_project, whatever the status is by now.
DeleteProject(p) ==
  /\ deleting[p] > 0
  /\ status' = [status EXCEPT ![p] = "Terminating"]
  /\ deleted' = [deleted EXCEPT ![p] = TRUE]
  /\ deleting' = [deleting EXCEPT ![p] = @ - 1]
  /\ UNCHANGED <<clusterVars, taskVars, budgetVars>>

-----------------------------------------------------------------------------
(* A pass of controller c.                                                 *)

Goto(c, p, t) == task' = [task EXCEPT ![c][p] = t] /\ UNCHANGED failures

\* _reconcile_project has returned, also when it caught an exception.
Return(c, p) == /\ task' = [task EXCEPT ![c][p] = "none"]
                /\ failures' = [failures EXCEPT ![c][p] = 0]

\* Wrong variant: a branch that clears away what could not be provisioned.
FirstStepClearsFailed(c, p) ==
  IF failures[c][p] >= 3 THEN "none"
  ELSE IF status[p] = "Failed" THEN "Terminating"
  ELSE IF status[p] \in Acted THEN status[p] ELSE "none"

\* Wrong variant: failures are counted and nothing is skipped.
FirstStepNeverSkips(c, p) == IF status[p] \in Acted THEN status[p] ELSE "none"

\* What the pass does with p: it skips a project after three failures.
FirstStep(c, p) ==
  IF status[p] \in Acted /\ failures[c][p] < 3 THEN status[p] ELSE "none"

\* reconcile(): the rows of all projects are read at once, when the threads
\* of the previous pass have ended.
BeginPass(c) ==
  /\ c \in replicas /\ \A p \in Project : task[c][p] = "none"
  /\ task' = [task EXCEPT ![c] = [p \in Project |-> FirstStep(c, p)]]
  /\ UNCHANGED <<failures, rowVars, clusterVars, deleting, budgetVars>>

\* The thread gets no connection: the only exception the pass counts.
NoConnection(c, p) ==
  /\ task[c][p] \in Acted /\ Fault
  /\ task' = [task EXCEPT ![c][p] = "none"]
  /\ failures' = [failures EXCEPT ![c][p] = @ + 1]
  /\ UNCHANGED <<rowVars, clusterVars, deleting>>

\* apply_manifests swallows what goes wrong; a namespace that exists, or is
\* being deleted, stays as it is.
ApplyTenant(c, p) ==
  /\ task[c][p] = "Provisioning"
  /\ \/ NoFault /\ ns' = [ns EXCEPT ![p] = IF @ = "absent" THEN "active" ELSE @]
     \/ Fault /\ UNCHANGED ns
  /\ Goto(c, p, "checkNew")
  /\ UNCHANGED <<ecr, rowVars, deleting>>

\* The namespace is there and gets a repository, whose creation may fail
\* unnoticed; or it is not visible yet, and the next pass tries again.
CheckNew(c, p) ==
  /\ task[c][p] = "checkNew"
  /\ \/ /\ ns[p] # "absent" /\ Goto(c, p, "setReady")
        /\ \/ NoFault /\ ecr' = [ecr EXCEPT ![p] = TRUE]
           \/ Fault /\ UNCHANGED ecr
     \/ ns[p] = "absent" /\ Return(c, p) /\ NoFault /\ UNCHANGED ecr
  /\ UNCHANGED <<ns, rowVars, deleting>>

\* An UPDATE of the status and the end of the task; the UPDATE has no
\* condition on the status the row has by now.
Update(c, p, t, s) ==
  /\ task[c][p] = t
  /\ status' = [status EXCEPT ![p] = s]
  /\ Return(c, p) /\ NoFault
  /\ UNCHANGED <<deleted, clusterVars, deleting>>

SetReady(c, p) == Update(c, p, "setReady", "Ready")

CheckGone(c, p) ==
  /\ task[c][p] = "Terminating"
  /\ Goto(c, p, IF ns[p] = "absent" THEN "dropEcr" ELSE "deleteNs")
  /\ NoFault /\ UNCHANGED <<rowVars, clusterVars, deleting>>

DeleteNamespace(c, p) ==
  /\ task[c][p] = "deleteNs"
  /\ ns' = [ns EXCEPT ![p] = IF @ = "active" THEN "terminating" ELSE @]
  /\ Return(c, p) /\ NoFault
  /\ UNCHANGED <<ecr, rowVars, deleting>>

DropEcr(c, p) ==
  /\ task[c][p] = "dropEcr"
  /\ \/ NoFault /\ ecr' = [ecr EXCEPT ![p] = FALSE]
     \/ Fault /\ UNCHANGED ecr
  /\ Goto(c, p, "setTerminated")
  /\ UNCHANGED <<ns, rowVars, deleting>>

\* Wrong variant: the row is finished once the deletion was asked for.
TerminatedEarly(c, p) == /\ ns[p] # "active"
                         /\ Update(c, p, "deleteNs", "Terminated")

SetTerminated(c, p) == Update(c, p, "setTerminated", "Terminated")

\* A Ready project goes on to reconcile_deployments if its namespace exists.
CheckDrift(c, p) ==
  /\ task[c][p] = "Ready"
  /\ IF ns[p] = "absent" THEN Goto(c, p, "setProvisioning") ELSE Return(c, p)
  /\ NoFault /\ UNCHANGED <<rowVars, clusterVars, deleting>>

\* Wrong variant: a missing namespace is counted and not provisioned again.
OnlyCountDrift(c, p) ==
  /\ task[c][p] = "setProvisioning"
  /\ Return(c, p) /\ NoFault
  /\ UNCHANGED <<rowVars, clusterVars, deleting>>

SetProvisioning(c, p) == Update(c, p, "setProvisioning", "Provisioning")

\* A call to Kubernetes raises: the project is to be Failed.
Raise(c, p) ==
  /\ task[c][p] \in {"checkNew", "Terminating", "deleteNs", "Ready"} /\ Fault
  /\ Goto(c, p, "setFailed")
  /\ UNCHANGED <<rowVars, clusterVars, deleting>>

\* An UPDATE raises: its connection is then of no use for another one.
UpdateFails(c, p) ==
  /\ task[c][p] \in {"setReady", "setTerminated", "setProvisioning", "setFailed"} /\ Fault
  /\ Return(c, p)
  /\ UNCHANGED <<rowVars, clusterVars, deleting>>

SetFailed(c, p) == Update(c, p, "setFailed", "Failed")

\* The controller is killed and starts again, with empty counters.
Crash(c) ==
  /\ c \in replicas /\ Fault
  /\ task' = [task EXCEPT ![c] = [p \in Project |-> "none"]]
  /\ failures' = [failures EXCEPT ![c] = [p \in Project |-> 0]]
  /\ UNCHANGED <<rowVars, clusterVars, deleting>>

-----------------------------------------------------------------------------
(* Kubernetes.                                                             *)

\* The last object in the namespace is gone.
Finalize(p) ==
  /\ ns[p] = "terminating"
  /\ ns' = [ns EXCEPT ![p] = "absent"]
  /\ UNCHANGED <<ecr, rowVars, taskVars, deleting, budgetVars>>

\* kubectl delete namespace
DeleteByHand(p) ==
  /\ ns[p] = "active" /\ drift < MaxDrift
  /\ drift' = drift + 1
  /\ ns' = [ns EXCEPT ![p] = "terminating"]
  /\ UNCHANGED <<ecr, replicas, faults, rowVars, taskVars, deleting>>

-----------------------------------------------------------------------------
Api(p) == CreateProject(p) \/ CheckDelete(p) \/ DeleteProject(p)

Reconcile(c, p) ==
  \/ ApplyTenant(c, p) \/ CheckNew(c, p) \/ SetReady(c, p)
  \/ CheckGone(c, p) \/ DeleteNamespace(c, p) \/ DropEcr(c, p) \/ SetTerminated(c, p)
  \/ CheckDrift(c, p) \/ SetProvisioning(c, p) \/ SetFailed(c, p)

Next == \/ \E p \in Project : Api(p) \/ Finalize(p) \/ DeleteByHand(p)
        \/ \E c \in Controller : BeginPass(c) \/ Crash(c)
        \/ \E c \in Controller, p \in Project :
              Reconcile(c, p) \/ NoConnection(c, p) \/ Raise(c, p) \/ UpdateFails(c, p)

Spec == Init /\ [][Next]_vars

\* The loop of every controller and its threads run, requests that passed
\* their checks go on, and Kubernetes deletes what it was told to delete.
Fairness ==
  /\ \A c \in Controller : WF_vars(BeginPass(c))
  /\ \A c \in Controller, p \in Project : WF_vars(Reconcile(c, p))
  /\ \A p \in Project : WF_vars(DeleteProject(p)) /\ WF_vars(Finalize(p))

FairSpec == Spec /\ Fairness

-----------------------------------------------------------------------------
(* Properties.                                                             *)

TypeOK ==
  /\ status \in [Project -> Status] /\ deleted \in [Project -> BOOLEAN]
  /\ ns \in [Project -> {"absent", "active", "terminating"}] /\ ecr \in [Project -> BOOLEAN]
  /\ task \in [Controller -> [Project -> Task]]
  /\ failures \in [Controller -> [Project -> 0 .. 3]]
  /\ deleting \in [Project -> 0 .. MaxRequests]
  /\ replicas \subseteq Controller
  /\ drift \in 0 .. MaxDrift /\ faults \in 0 .. MaxFaults

\* However stale the row is that a controller acts on, it takes the namespace
\* and the repository only from a project that its owner has deleted.
TenantIsKept ==
  [][\A p \in Project :
       \/ deleted[p]
       \/ drift' # drift
       \/ /\ ns[p] = "active" => ns'[p] = "active"
          /\ ecr[p] => ecr'[p]]_vars

\* With a single controller, a Terminated project has left nothing behind:
\* its namespace is gone and nobody is about to create it again.
OneReplica == \A c, e \in replicas : c = e
TerminatedIsGone ==
  OneReplica => \A p \in Project : status[p] = "Terminated" => ns[p] = "absent"

\* A project whose namespace is missing gets it back, unless it was deleted,
\* a call failed and left it Failed, or every replica has stopped looking at
\* it after three failures.
NamespaceIsProvisioned ==
  \A p \in Project :
     status[p] # "None" /\ ns[p] # "active"
       ~> \/ ns[p] = "active" \/ deleted[p] \/ status[p] = "Failed"
          \/ \A c \in replicas : failures[c][p] >= 3

-----------------------------------------------------------------------------
(* What the documentation says and the code does not keep.                 *)

\* "The controller will delete the Kubernetes namespace and then hard-delete
\* the row once the namespace is gone" (delete_project, api/main.py:349): the
\* namespace of a deleted project is gone in the end.
DeletionIsCarriedOut ==
  \A p \in Project : deleted[p] ~> ns[p] = "absent"
=============================================================================
