---------------------------- MODULE LifecycleProofs ----------------------------
(* Proofs about Lifecycle, for every number of replicas and projects, every  *)
(* number of failed calls, and deletions by hand.                            *)
EXTENDS Lifecycle, TLAPS

USE DEF Goto, Return, Fault, NoFault

\* Acts(c, p): a step of the thread of controller c that works on project p.
Acts(c, p) == \/ Reconcile(c, p) \/ NoConnection(c, p)
              \/ Raise(c, p) \/ UpdateFails(c, p)

\* The inductive invariant of the types: a thread works on a project only
\* while it has failed less than three times.
CountedInv ==
  TypeOK /\ \A c \in Controller, p \in Project :
               task[c][p] # "none" => failures[c][p] < 3

\* Only a project its owner has deleted is on its way out, however old the
\* row is that a thread works on.
Leaving == {"Terminating", "deleteNs", "dropEcr", "setTerminated"}
DeletedInv ==
  \A p \in Project :
     /\ status[p] \in {"Terminating", "Terminated"} => deleted[p]
     /\ \A c \in Controller : task[c][p] \in Leaving => deleted[p]

\* Only replicas that were started have threads.
RunInv == \A c \in Controller, p \in Project : task[c][p] # "none" => c \in replicas

\* With a single replica: once the namespace was seen to be gone nobody
\* creates it again, and a Terminated project has no thread.
GoneInv ==
  \A p \in Project :
     /\ status[p] = "Terminated" =>
          ns[p] = "absent" /\ \A c \in Controller : task[c][p] = "none"
     /\ \A c \in Controller :
          task[c][p] \in {"dropEcr", "setTerminated"} => ns[p] = "absent"

-----------------------------------------------------------------------------
(* Types.                                                                  *)

LEMMA CountedInit == Init => CountedInv
  BY BoundsAssumption DEF Init, CountedInv, TypeOK, Status, Task

LEMMA CountedApi ==
  ASSUME CountedInv, NEW p \in Project,
         Api(p) \/ Finalize(p) \/ DeleteByHand(p)
  PROVE  CountedInv'
<1> USE DEF CountedInv, TypeOK, rowVars, clusterVars, taskVars, budgetVars
<1>1. CASE CreateProject(p) BY <1>1 DEF CreateProject, Status
<1>2. CASE CheckDelete(p) BY <1>2, BoundsAssumption DEF CheckDelete
<1>3. CASE DeleteProject(p)
  <2>1. deleting[p] - 1 \in 0 .. MaxRequests BY <1>3, BoundsAssumption DEF DeleteProject
  <2> QED BY <1>3, <2>1 DEF DeleteProject, Status
<1>4. CASE Finalize(p) BY <1>4 DEF Finalize
<1>5. CASE DeleteByHand(p) BY <1>5, BoundsAssumption DEF DeleteByHand
<1> QED BY <1>1, <1>2, <1>3, <1>4, <1>5 DEF Api

LEMMA CountedPass ==
  ASSUME CountedInv, NEW c \in Controller, BeginPass(c) \/ Crash(c)
  PROVE  CountedInv'
<1> USE DEF CountedInv, TypeOK, rowVars, clusterVars, taskVars, budgetVars
<1>1. CASE BeginPass(c)
  <2>1. \A p \in Project : /\ FirstStep(c, p) \in Task
                           /\ FirstStep(c, p) # "none" => failures[c][p] < 3
    BY DEF FirstStep, Task
  <2> QED BY <1>1, <2>1 DEF BeginPass
<1>2. CASE Crash(c) BY <1>2, BoundsAssumption DEF Crash, Task
<1> QED BY <1>1, <1>2

\* A step of a thread goes on to a control point or ends, and uses at most
\* one fault; it leaves the requests and the other threads alone.
LEMMA CountedActs ==
  ASSUME CountedInv, NEW c \in Controller, NEW p \in Project, Acts(c, p)
  PROVE  CountedInv'
<1> USE DEF CountedInv, TypeOK, rowVars, clusterVars, taskVars, budgetVars
<1>1. faults' \in 0 .. MaxFaults /\ drift' \in 0 .. MaxDrift
  BY BoundsAssumption
  DEF Acts, Reconcile, ApplyTenant, CheckNew, SetReady, CheckGone, DeleteNamespace, DropEcr,
      SetTerminated, CheckDrift, SetProvisioning, SetFailed, NoConnection, Raise, UpdateFails, Update
<1>2. CASE ApplyTenant(c, p) BY <1>1, <1>2 DEF ApplyTenant, Task
<1>3. CASE CheckNew(c, p)
  <2>1. CASE Goto(c, p, "setReady") BY <1>1, <1>3, <2>1 DEF CheckNew, Task
  <2>2. CASE Return(c, p) BY <1>1, <1>3, <2>2 DEF CheckNew, Task
  <2> QED BY <1>3, <2>1, <2>2 DEF CheckNew
<1>4. CASE SetReady(c, p) BY <1>1, <1>4 DEF SetReady, Update, Task, Status
<1>5. CASE CheckGone(c, p) BY <1>1, <1>5 DEF CheckGone, Task
<1>6. CASE DeleteNamespace(c, p) BY <1>1, <1>6 DEF DeleteNamespace, Task
<1>7. CASE DropEcr(c, p) BY <1>1, <1>7 DEF DropEcr, Task
<1>8. CASE SetTerminated(c, p) BY <1>1, <1>8 DEF SetTerminated, Update, Task, Status
<1>9. CASE CheckDrift(c, p)
  <2>1. CASE Goto(c, p, "setProvisioning") BY <1>1, <1>9, <2>1 DEF CheckDrift, Task
  <2>2. CASE Return(c, p) BY <1>1, <1>9, <2>2 DEF CheckDrift, Task
  <2> QED BY <1>9, <2>1, <2>2 DEF CheckDrift
<1>10. CASE SetProvisioning(c, p) BY <1>1, <1>10 DEF SetProvisioning, Update, Task, Status
<1>11. CASE SetFailed(c, p) BY <1>1, <1>11 DEF SetFailed, Update, Task, Status
<1>12. CASE NoConnection(c, p)
  <2>1. failures[c][p] + 1 \in 0 .. 3 BY <1>12 DEF NoConnection, Acted
  <2> QED BY <1>1, <1>12, <2>1 DEF NoConnection, Task
<1>13. CASE Raise(c, p) BY <1>1, <1>13 DEF Raise, Task
<1>14. CASE UpdateFails(c, p) BY <1>1, <1>14 DEF UpdateFails, Task
<1> QED BY <1>2, <1>3, <1>4, <1>5, <1>6, <1>7, <1>8, <1>9, <1>10, <1>11, <1>12, <1>13, <1>14
        DEF Acts, Reconcile

LEMMA CountedStep == CountedInv /\ [Next]_vars => CountedInv'
<1> SUFFICES ASSUME CountedInv, [Next]_vars PROVE CountedInv'
  OBVIOUS
<1>1. CASE UNCHANGED vars
  BY <1>1 DEF CountedInv, TypeOK, vars, rowVars, clusterVars, taskVars, budgetVars
<1> QED BY <1>1, CountedApi, CountedPass, CountedActs DEF Next, Acts

LEMMA CountedHolds == Spec => []CountedInv
  BY CountedInit, CountedStep, PTL DEF Spec

\* Every reachable state is well typed; in particular a controller's counter
\* of failures never passes three, for it then skips the project.
THEOREM TypeCorrect == Spec => []TypeOK
<1>1. CountedInv => TypeOK BY DEF CountedInv
<1> QED BY <1>1, CountedHolds, PTL

-----------------------------------------------------------------------------
(* What a controller takes away.                                           *)

LEMMA DeletedStep ==
  ASSUME TypeOK, DeletedInv, Next
  PROVE  DeletedInv'
<1> USE DEF DeletedInv, Leaving, rowVars, clusterVars, taskVars, budgetVars
<1>1. ASSUME NEW p \in Project, Api(p) \/ Finalize(p) \/ DeleteByHand(p)
      PROVE  DeletedInv'
  BY <1>1 DEF TypeOK, Api, Finalize, DeleteByHand, CreateProject, CheckDelete, DeleteProject
<1>2. ASSUME NEW c \in Controller, BeginPass(c) \/ Crash(c)
      PROVE  DeletedInv'
  <2>1. \A p \in Project : FirstStep(c, p) \in Leaving => deleted[p]
    BY DEF FirstStep, Acted
  <2>2. CASE BeginPass(c) BY <2>1, <2>2 DEF TypeOK, BeginPass
  <2>3. CASE Crash(c) BY <2>3 DEF TypeOK, Crash
  <2> QED BY <1>2, <2>2, <2>3
<1>3. ASSUME NEW c \in Controller, NEW p \in Project, Acts(c, p)
      PROVE  DeletedInv'
  <2>1. CASE ApplyTenant(c, p) BY <2>1 DEF TypeOK, ApplyTenant
  <2>2. CASE CheckNew(c, p) BY <2>2 DEF TypeOK, CheckNew
  <2>3. CASE SetReady(c, p) \/ SetTerminated(c, p) \/ SetProvisioning(c, p) \/ SetFailed(c, p)
    <3>1. CASE SetTerminated(c, p) BY <3>1 DEF TypeOK, SetTerminated, Update
    <3>2. CASE SetReady(c, p) BY <3>2 DEF TypeOK, SetReady, Update
    <3>3. CASE SetProvisioning(c, p) BY <3>3 DEF TypeOK, SetProvisioning, Update
    <3>4. CASE SetFailed(c, p) BY <3>4 DEF TypeOK, SetFailed, Update
    <3> QED BY <2>3, <3>1, <3>2, <3>3, <3>4
  <2>4. CASE CheckGone(c, p)
    <3>1. deleted[p] BY <2>4 DEF CheckGone
    <3> QED BY <2>4, <3>1 DEF TypeOK, CheckGone
  <2>5. CASE DeleteNamespace(c, p) BY <2>5 DEF TypeOK, DeleteNamespace
  <2>6. CASE DropEcr(c, p)
    <3>1. deleted[p] BY <2>6 DEF DropEcr
    <3> QED BY <2>6, <3>1 DEF TypeOK, DropEcr
  <2>7. CASE CheckDrift(c, p) \/ NoConnection(c, p) \/ Raise(c, p) \/ UpdateFails(c, p)
    <3>1. CASE CheckDrift(c, p)
      <4>1. CASE Goto(c, p, "setProvisioning") BY <3>1, <4>1 DEF TypeOK, CheckDrift
      <4>2. CASE Return(c, p) BY <3>1, <4>2 DEF TypeOK, CheckDrift
      <4> QED BY <3>1, <4>1, <4>2 DEF CheckDrift
    <3>2. CASE NoConnection(c, p) BY <3>2 DEF TypeOK, NoConnection
    <3>3. CASE Raise(c, p) BY <3>3 DEF TypeOK, Raise
    <3>4. CASE UpdateFails(c, p) BY <3>4 DEF TypeOK, UpdateFails
    <3> QED BY <2>7, <3>1, <3>2, <3>3, <3>4
  <2> QED BY <1>3, <2>1, <2>2, <2>3, <2>4, <2>5, <2>6, <2>7 DEF Acts, Reconcile
<1> QED BY <1>1, <1>2, <1>3 DEF Next, Acts

LEMMA DeletedHolds == Spec => []DeletedInv
<1>1. Init => DeletedInv BY DEF Init, DeletedInv, Leaving
<1>2. TypeOK /\ DeletedInv /\ [Next]_vars => DeletedInv'
  <2>1. DeletedInv /\ UNCHANGED vars => DeletedInv'
    BY DEF DeletedInv, vars, rowVars, taskVars
  <2> QED BY <2>1, DeletedStep
<1> QED BY <1>1, <1>2, TypeCorrect, PTL DEF Spec

\* However stale the row a controller acts on, with any number of replicas:
\* the namespace and the repository of a project are only taken from it once
\* its owner has deleted it.
THEOREM TenantIsKeptHolds == Spec => TenantIsKept
<1> DEFINE Kept == \A p \in Project :
                      \/ deleted[p]
                      \/ drift' # drift
                      \/ /\ ns[p] = "active" => ns'[p] = "active"
                         /\ ecr[p] => ecr'[p]
<1> USE DEF rowVars, clusterVars, taskVars, budgetVars
<1>1. ASSUME TypeOK, DeletedInv, Next PROVE Kept
  <2>1. ASSUME NEW p \in Project, Api(p) \/ Finalize(p) \/ DeleteByHand(p)
        PROVE  Kept
    <3>1. CASE DeleteByHand(p)
      <4>1. drift' # drift BY <1>1, <3>1 DEF TypeOK, DeleteByHand
      <4> QED BY <4>1
    <3> QED BY <1>1, <2>1, <3>1 DEF TypeOK, Api, Finalize, CreateProject, CheckDelete, DeleteProject
  <2>2. ASSUME NEW c \in Controller, BeginPass(c) \/ Crash(c) PROVE Kept
    BY <2>2 DEF BeginPass, Crash
  <2>3. ASSUME NEW c \in Controller, NEW p \in Project, Acts(c, p) PROVE Kept
    <3>1. CASE ApplyTenant(c, p) BY <3>1, <1>1 DEF TypeOK, ApplyTenant
    <3>2. CASE CheckNew(c, p) BY <3>2, <1>1 DEF TypeOK, CheckNew
    <3>3. CASE DeleteNamespace(c, p) \/ DropEcr(c, p)
      BY <3>3, <1>1 DEF TypeOK, DeletedInv, Leaving, DeleteNamespace, DropEcr
    <3>4. CASE UNCHANGED clusterVars BY <3>4
    <3> QED BY <2>3, <3>1, <3>2, <3>3, <3>4
            DEF Acts, Reconcile, SetReady, CheckGone, SetTerminated, CheckDrift, SetProvisioning,
                SetFailed, NoConnection, Raise, UpdateFails, Update
  <2> QED BY <1>1, <2>1, <2>2, <2>3 DEF Next, Acts
<1>2. TypeOK /\ DeletedInv /\ [Next]_vars => [Kept]_vars
  BY <1>1
<1> QED BY <1>2, TypeCorrect, DeletedHolds, PTL DEF Spec, TenantIsKept

-----------------------------------------------------------------------------
(* One replica.                                                            *)

LEMMA RunStep ==
  ASSUME TypeOK, RunInv, Next
  PROVE  RunInv' /\ replicas' = replicas
<1> USE DEF RunInv, TypeOK, rowVars, clusterVars, taskVars, budgetVars
<1>1. ASSUME NEW p \in Project, Api(p) \/ Finalize(p) \/ DeleteByHand(p)
      PROVE  RunInv' /\ replicas' = replicas
  BY <1>1 DEF Api, Finalize, DeleteByHand, CreateProject, CheckDelete, DeleteProject
<1>2. ASSUME NEW c \in Controller, BeginPass(c) \/ Crash(c)
      PROVE  RunInv' /\ replicas' = replicas
  BY <1>2 DEF BeginPass, Crash
<1>3. ASSUME NEW c \in Controller, NEW p \in Project, Acts(c, p)
      PROVE  RunInv' /\ replicas' = replicas
  <2>1. task[c][p] # "none" /\ replicas' = replicas
    BY <1>3
    DEF Acted, Acts, Reconcile, ApplyTenant, CheckNew, SetReady, CheckGone, DeleteNamespace,
        DropEcr, SetTerminated, CheckDrift, SetProvisioning, SetFailed, NoConnection, Raise,
        UpdateFails, Update
  <2>2. \E t : task' = [task EXCEPT ![c][p] = t]
    BY <1>3
    DEF Acts, Reconcile, ApplyTenant, CheckNew, SetReady, CheckGone, DeleteNamespace, DropEcr,
        SetTerminated, CheckDrift, SetProvisioning, SetFailed, NoConnection, Raise, UpdateFails,
        Update
  <2> QED BY <2>1, <2>2
<1> QED BY <1>1, <1>2, <1>3 DEF Next, Acts

LEMMA GoneStep ==
  ASSUME TypeOK, RunInv, OneReplica, GoneInv, Next
  PROVE  GoneInv'
<1> USE DEF GoneInv, rowVars, clusterVars, taskVars, budgetVars
<1>1. ASSUME NEW p \in Project, Api(p) \/ Finalize(p) \/ DeleteByHand(p)
      PROVE  GoneInv'
  BY <1>1 DEF TypeOK, Api, Finalize, DeleteByHand, CreateProject, CheckDelete, DeleteProject
<1>2. ASSUME NEW c \in Controller, BeginPass(c) \/ Crash(c)
      PROVE  GoneInv'
  <2>1. \A p \in Project : /\ FirstStep(c, p) \notin {"dropEcr", "setTerminated"}
                           /\ status[p] = "Terminated" => FirstStep(c, p) = "none"
    BY DEF FirstStep, Acted
  <2>2. CASE BeginPass(c) BY <2>1, <2>2 DEF TypeOK, BeginPass
  <2>3. CASE Crash(c) BY <2>3 DEF TypeOK, Crash
  <2> QED BY <1>2, <2>2, <2>3
<1>3. ASSUME NEW c \in Controller, NEW p \in Project, Acts(c, p)
      PROVE  GoneInv'
  <2>0. task[c][p] # "none"
    BY <1>3
    DEF Acted, Acts, Reconcile, ApplyTenant, CheckNew, SetReady, CheckGone, DeleteNamespace,
        DropEcr, SetTerminated, CheckDrift, SetProvisioning, SetFailed, NoConnection, Raise,
        UpdateFails, Update
  <2>9. \A e \in Controller, q \in Project : e # c => task[e][q] = "none"
    BY <2>0 DEF RunInv, OneReplica
  <2>1. CASE ApplyTenant(c, p) BY <2>9, <2>1 DEF TypeOK, ApplyTenant
  <2>2. CASE CheckNew(c, p)
    <3>1. CASE Goto(c, p, "setReady") BY <2>9, <2>2, <3>1 DEF TypeOK, CheckNew
    <3>2. CASE Return(c, p) BY <2>9, <2>2, <3>2 DEF TypeOK, CheckNew
    <3> QED BY <2>2, <3>1, <3>2 DEF CheckNew
  <2>3. CASE SetReady(c, p) \/ SetTerminated(c, p) \/ SetProvisioning(c, p) \/ SetFailed(c, p)
    <3>1. CASE SetReady(c, p) BY <2>9, <3>1 DEF TypeOK, SetReady, Update
    <3>2. CASE SetTerminated(c, p) BY <2>9, <3>2 DEF TypeOK, SetTerminated, Update
    <3>3. CASE SetProvisioning(c, p) BY <2>9, <3>3 DEF TypeOK, SetProvisioning, Update
    <3>4. CASE SetFailed(c, p) BY <2>9, <3>4 DEF TypeOK, SetFailed, Update
    <3> QED BY <2>3, <3>1, <3>2, <3>3, <3>4
  <2>4. CASE CheckGone(c, p) \/ DeleteNamespace(c, p) \/ DropEcr(c, p)
    <3>1. CASE CheckGone(c, p)
      <4>1. CASE ns[p] = "absent" BY <2>9, <3>1, <4>1 DEF TypeOK, CheckGone
      <4>2. CASE ns[p] # "absent" BY <2>9, <3>1, <4>2 DEF TypeOK, CheckGone
      <4> QED BY <4>1, <4>2
    <3>2. CASE DeleteNamespace(c, p) BY <2>9, <3>2 DEF TypeOK, DeleteNamespace
    <3>3. CASE DropEcr(c, p) BY <2>9, <3>3 DEF TypeOK, DropEcr
    <3> QED BY <2>4, <3>1, <3>2, <3>3
  <2>5. CASE CheckDrift(c, p) \/ NoConnection(c, p) \/ Raise(c, p) \/ UpdateFails(c, p)
    <3>1. CASE CheckDrift(c, p)
      <4>1. CASE Goto(c, p, "setProvisioning") BY <2>9, <3>1, <4>1 DEF TypeOK, CheckDrift
      <4>2. CASE Return(c, p) BY <2>9, <3>1, <4>2 DEF TypeOK, CheckDrift
      <4> QED BY <3>1, <4>1, <4>2 DEF CheckDrift
    <3>2. CASE NoConnection(c, p) BY <2>9, <3>2 DEF TypeOK, NoConnection, Acted
    <3>3. CASE Raise(c, p) BY <2>9, <3>3 DEF TypeOK, Raise
    <3>4. CASE UpdateFails(c, p) BY <2>9, <3>4 DEF TypeOK, UpdateFails
    <3> QED BY <2>5, <3>1, <3>2, <3>3, <3>4
  <2> QED BY <1>3, <2>1, <2>2, <2>3, <2>4, <2>5 DEF Acts, Reconcile
<1> QED BY <1>1, <1>2, <1>3 DEF Next, Acts

\* As long as one replica of the controller runs, a Terminated project has
\* no namespace, and none will be created for it; with two of them TLC finds
\* a state where it has one.
THEOREM TerminatedIsGoneHolds == Spec => []TerminatedIsGone
<1> DEFINE Inv == RunInv /\ (OneReplica => GoneInv)
<1>1. Init => Inv BY DEF Init, RunInv, GoneInv
<1>2. TypeOK /\ Inv /\ [Next]_vars => Inv'
  <2>1. Inv /\ UNCHANGED vars => Inv'
    BY DEF RunInv, GoneInv, OneReplica, vars, rowVars, clusterVars, taskVars, budgetVars
  <2>2. ASSUME TypeOK, Inv, Next PROVE Inv'
    <3>1. OneReplica' => OneReplica BY <2>2, RunStep DEF OneReplica
    <3> QED BY <2>2, <3>1, RunStep, GoneStep
  <2> QED BY <2>1, <2>2
<1>3. Inv => TerminatedIsGone BY DEF GoneInv, TerminatedIsGone
<1> QED BY <1>1, <1>2, <1>3, TypeCorrect, PTL DEF Spec
=============================================================================
