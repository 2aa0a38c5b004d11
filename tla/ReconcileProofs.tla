---------------------------- MODULE ReconcileProofs ----------------------------
(* Proofs about Reconcile, for every number of deployments and of replicas   *)
(* of the controller, and every number of failures.                          *)
EXTENDS Reconcile, FiniteSetTheorems, TLAPS

USE DEF Goto, Fault, NoFault

\* What happens to deployment d outside of the passes.
Outside(d) == \/ CreateDeployment(d) \/ RollbackDeployment(d)
              \/ StartBuild(d) \/ FinishBuild(d) \/ Redeliver(d) \/ Expire(d)
              \/ PodReady(d) \/ PodGone(d) \/ EditByHand(d)

-----------------------------------------------------------------------------
(* Types.                                                                  *)

LEMMA Empty == NothingSeen \in Listing /\ NoPlan \in Plan
  BY DEF NothingSeen, Listing, NoPlan, Plan

LEMMA TypeInit == Init => TypeOK
<1> SUFFICES ASSUME Init PROVE TypeOK
  OBVIOUS
<1>1. seen \in [Controller -> Listing] /\ plan \in [Controller -> [Deployment -> Plan]]
  BY Empty DEF Init, Unplanned
<1> QED BY <1>1, BoundsAssumption DEF Init, TypeOK, State, PassPc

\* The next fault, if there is one, is within the bound.
LEMMA TypeFault ==
  ASSUME TypeOK, Fault \/ NoFault PROVE faults' \in 0 .. MaxFaults
  BY BoundsAssumption DEF TypeOK

LEMMA TypeTouch ==
  ASSUME TypeOK, NEW d \in Deployment, Touch(d)
  PROVE  newer' \subseteq Deployment \X Deployment /\ late' \subseteq Deployment
  BY DEF TypeOK, Touch

LEMMA TypeInsert ==
  ASSUME TypeOK, NEW d \in Deployment, NEW n \in 0 .. 1, Insert(d, n)
  PROVE  TypeOK'
<1>1. newer' \subseteq Deployment \X Deployment /\ late' \subseteq Deployment
  BY TypeTouch DEF Insert
<1> QED BY <1>1 DEF Insert, TypeOK, State, clusterVars, projectVars, passVars

LEMMA TypeOutside ==
  ASSUME TypeOK, NEW d \in Deployment, Outside(d)
  PROVE  TypeOK'
<1> USE DEF TypeOK, rowVars, clusterVars, projectVars, passVars
<1>1. CASE CreateDeployment(d) BY <1>1, TypeInsert DEF CreateDeployment
<1>2. CASE RollbackDeployment(d) BY <1>2, TypeInsert DEF RollbackDeployment
<1>3. CASE StartBuild(d) BY <1>3, TypeTouch DEF StartBuild, State
<1>4. CASE FinishBuild(d) BY <1>4, TypeTouch DEF FinishBuild, State
<1>5. CASE Redeliver(d) BY <1>5, TypeFault DEF Redeliver
<1>6. CASE Expire(d) BY <1>6 DEF Expire
<1>7. CASE PodReady(d) BY <1>7 DEF PodReady
<1>8. CASE PodGone(d) BY <1>8 DEF PodGone
<1>9. CASE EditByHand(d)
  <2>1. 1 - size[d] \in 0 .. 1 OBVIOUS
  <2>2. faults' \in 0 .. MaxFaults BY <1>9, TypeFault DEF EditByHand
  <2>3. CASE part' = part /\ dep' = dep \ {d}
    BY <1>9, <2>2, <2>3 DEF EditByHand
  <2>4. CASE part' = part /\ dep' = dep
    BY <1>9, <2>1, <2>2, <2>4 DEF EditByHand
  <2>5. CASE \E o \in part[d] : /\ part' = [part EXCEPT ![d] = @ \ {o}]
                                /\ UNCHANGED <<dep, size, ready>>
    BY <1>9, <2>2, <2>5 DEF EditByHand
  <2> QED BY <1>9, <2>3, <2>4, <2>5 DEF EditByHand
<1> QED BY <1>1, <1>2, <1>3, <1>4, <1>5, <1>6, <1>7, <1>8, <1>9 DEF Outside

\* The variables a pass leaves behind when it ends.
LEMMA TypeEnd ==
  ASSUME TypeOK, NEW c \in Controller, NEW n, Leave(c, n)
  PROVE  /\ pc' \in [Controller -> PassPc] /\ at' \in [Controller -> {0} \cup Deployment]
         /\ todo' \in [Controller -> SUBSET Deployment]
         /\ seen' \in [Controller -> Listing]
         /\ plan' \in [Controller -> [Deployment -> Plan]]
         /\ taken' \in [Controller -> SUBSET Deployment]
         /\ \A k \in Controller :
              /\ pc'[k] \in {"expose", "decide", "commit"} => at'[k] \in todo'[k]
              /\ pc'[k] \in {"cleanSvc", "cleanRoute"} => at'[k] \in Deployment
  BY Empty DEF TypeOK, Leave, Unplanned, PassPc

\* A pass goes on only while its project has not failed too often.
LEMMA TypeProject ==
  ASSUME TypeOK, NEW c \in Controller, PassStep(c) \/ Fail(c)
  PROVE  /\ status' \in {"Ready", "Failed"} /\ failures' \in [Controller -> 0 .. MaxFailures]
         /\ \A k \in Controller : pc'[k] # "idle" => failures'[k] < MaxFailures
<1> USE BoundsAssumption DEF TypeOK, projectVars
<1>1. CASE BeginPass(c) BY <1>1 DEF BeginPass
<1>2. ASSUME NEW n \in 0 .. MaxFailures, Leave(c, n)
      PROVE  /\ failures' \in [Controller -> 0 .. MaxFailures]
             /\ \A k \in Controller : pc'[k] # "idle" => failures'[k] < MaxFailures
  BY <1>2 DEF Leave
<1>3. 0 \in 0 .. MaxFailures OBVIOUS
<1>4. CASE FailLists(c) \/ NoConnection(c)
  <2>1. pc[c] # "idle" /\ failures[c] \in 0 .. MaxFailures BY <1>4 DEF FailLists, NoConnection
  <2>2. failures[c] + 1 \in 0 .. MaxFailures BY <2>1
  <2> QED BY <1>2, <1>4, <2>1, <2>2 DEF FailLists, NoConnection
<1>5. CASE SetFailed(c) \/ LeavePass(c) \/ Abort(c)
  BY <1>2, <1>3, <1>5 DEF SetFailed, LeavePass, Abort, EndPass
<1>6. ASSUME NEW d \in Deployment, DeleteDeployment(c, d)
      PROVE  /\ failures' \in [Controller -> 0 .. MaxFailures]
             /\ \A k \in Controller : pc'[k] # "idle" => failures'[k] < MaxFailures
  <2>1. CASE d \in dep BY <1>6, <2>1 DEF DeleteDeployment
  <2>2. CASE d \notin dep BY <1>2, <1>3, <1>6, <2>2 DEF DeleteDeployment, EndPass
  <2> QED BY <2>1, <2>2
<1>7. ASSUME pc[c] # "idle", UNCHANGED failures, \A k \in Controller \ {c} : pc'[k] = pc[k]
      PROVE  \A k \in Controller : pc'[k] # "idle" => failures'[k] < MaxFailures
  BY <1>7
<1>8. CASE ListDeployments(c) \/ ListServices(c) \/ ListRoutes(c) \/ CheckNamespace(c)
           \/ ReadRows(c)
  BY <1>7, <1>8 DEF ListDeployments, ListServices, ListRoutes, CheckNamespace, ReadRows
<1>9. CASE \/ \E d \in Deployment : ApplyDeployment(c, d) \/ Decide(c, d) \/ Promote(c, d)
           \/ Commit(c) \/ ApplyRoute(c) \/ FindOrphans(c) \/ DeleteService(c) \/ DeleteRoute(c)
  <2>1. pc[c] # "idle" /\ UNCHANGED projectVars
    BY <1>9 DEF ApplyDeployment, Decide, Promote, Deciding, Commit, ApplyRoute, FindOrphans,
           DeleteService, DeleteRoute
  <2>2. \E p \in PassPc : Goto(c, p)
    BY <1>9 DEF ApplyDeployment, Decide, Promote, Decided, Commit, ApplyRoute, FindOrphans,
           DeleteService, DeleteRoute, PassPc
  <2>3. \A k \in Controller \ {c} : pc'[k] = pc[k] BY <2>2
  <2> QED BY <1>7, <2>1, <2>3
<1>10. status' \in {"Ready", "Failed"}
  BY DEF PassStep, Fail, BeginPass, ListDeployments, ListServices, ListRoutes, CheckNamespace,
     SetFailed, ReadRows, ApplyDeployment, Decide, Promote, Commit, ApplyRoute, FindOrphans,
     DeleteDeployment, DeleteService, DeleteRoute, LeavePass, FailLists, NoConnection, Abort
<1> QED BY <1>1, <1>4, <1>5, <1>6, <1>8, <1>9, <1>10 DEF PassStep, Fail

\* What ReadRows concludes is a plan for each row.
LEMMA TypePlan ==
  ASSUME TypeOK, NEW c \in Controller, ReadRows(c)
  PROVE  plan' \in [Controller -> [Deployment -> Plan]]
<1>1. ASSUME NEW d \in Deployment PROVE Verdict(c, d) \in {"none", "Running", "Failed"}
  BY DEF Verdict
<1>2. ASSUME NEW d \in Deployment PROVE NeedsApply(c, d) \in BOOLEAN
  BY DEF NeedsApply
<1>3. ASSUME NEW d \in Deployment PROVE plan'[c][d] \in Plan
  <2>1. CASE state[d] \in Reconciled
    <3>1. replicas[d] \in 0 .. 1 /\ (d \in seen[c].dep) \in BOOLEAN BY DEF TypeOK
    <3>2. plan'[c][d] = [listed |-> d \in seen[c].dep, apply |-> NeedsApply(c, d),
                         replicas |-> replicas[d], verdict |-> Verdict(c, d),
                         orphan |-> FALSE]
      BY <2>1 DEF TypeOK, ReadRows
    <3> QED BY <1>1, <1>2, <3>1, <3>2 DEF Plan
  <2>2. CASE state[d] \notin Reconciled
    <3> DEFINE orphan == d \in seen[c].dep /\ state[d] \notin Live
    <3>1. plan'[c][d] = [listed |-> FALSE, apply |-> FALSE, replicas |-> 0,
                         verdict |-> "none", orphan |-> orphan]
      BY <2>2 DEF TypeOK, ReadRows, NoPlan
    <3>2. orphan \in BOOLEAN OBVIOUS
    <3> QED BY <3>1, <3>2 DEF Plan
  <2> QED BY <2>1, <2>2
<1> QED BY <1>3 DEF TypeOK, ReadRows

LEMMA TypeWhole ==
  ASSUME TypeOK, NEW c \in Controller, NEW w \in SUBSET Deployment,
         seen' = [seen EXCEPT ![c].whole = w]
  PROVE  seen' \in [Controller -> Listing]
<1>1. seen[c] \in Listing BY DEF TypeOK
<1>2. [seen[c] EXCEPT !.whole = w] \in Listing BY <1>1 DEF Listing
<1>3. seen' = [seen EXCEPT ![c] = [seen[c] EXCEPT !.whole = w]] BY DEF TypeOK
<1> QED BY <1>2, <1>3 DEF TypeOK

LEMMA TypePass ==
  ASSUME TypeOK, NEW c \in Controller, PassStep(c) \/ Fail(c)
  PROVE  TypeOK'
<1> USE DEF TypeOK, rowVars, clusterVars, passVars
<1>0. /\ status' \in {"Ready", "Failed"} /\ failures' \in [Controller -> 0 .. MaxFailures]
      /\ \A k \in Controller : pc'[k] # "idle" => failures'[k] < MaxFailures
  BY TypeProject
<1>1. CASE BeginPass(c) BY <1>0, <1>1 DEF BeginPass, State, PassPc
<1>2. CASE ListDeployments(c)
  <2>1. seen' \in [Controller -> Listing] BY <1>2 DEF ListDeployments, Listing
  <2> QED BY <1>0, <1>2, <2>1 DEF ListDeployments, PassPc
<1>16. CASE ListServices(c)
  <2>1. seen' \in [Controller -> Listing]
    <3>1. {d \in Deployment : "svc" \in part[d]} \in SUBSET Deployment OBVIOUS
    <3>2. seen' = [seen EXCEPT ![c].whole = {d \in Deployment : "svc" \in part[d]}]
      BY <1>16 DEF ListServices
    <3> HIDE DEF TypeOK
    <3> QED BY <3>1, <3>2, TypeWhole
  <2> QED BY <1>0, <1>16, <2>1 DEF ListServices, PassPc
<1>17. CASE ListRoutes(c)
  <2>1. PICK found \in BOOLEAN :
          seen' = [seen EXCEPT ![c].whole = {d \in @ : found /\ "route" \in part[d]}]
    BY <1>17 DEF ListRoutes
  <2>2. seen' \in [Controller -> Listing]
    <3>1. {d \in seen[c].whole : found /\ "route" \in part[d]} \subseteq Deployment
      BY DEF Listing
    <3> QED BY <2>1, <3>1, TypeWhole
  <2>3. faults' \in 0 .. MaxFaults BY <1>17, TypeFault DEF ListRoutes
  <2> QED BY <1>0, <1>17, <2>2, <2>3 DEF ListRoutes, PassPc
<1>18. CASE CheckNamespace(c)
  <2>1. faults' \in 0 .. MaxFaults BY <1>18, TypeFault DEF CheckNamespace
  <2> QED BY <1>0, <1>18, <2>1 DEF CheckNamespace, PassPc
<1>19. CASE SetFailed(c) BY <1>0, <1>19, TypeEnd DEF SetFailed, EndPass
<1>3. CASE ReadRows(c)
  <2>1. seen' \in [Controller -> Listing] BY <1>3, Empty DEF ReadRows
  <2> QED BY <1>0, <1>3, <2>1, TypePlan DEF ReadRows, PassPc
<1>4. ASSUME NEW d \in Deployment, ApplyDeployment(c, d) PROVE TypeOK'
  <2>1. plan[c][d].replicas \in 0 .. 1 BY DEF Plan
  <2>2. faults' \in 0 .. MaxFaults BY <1>4, TypeFault DEF ApplyDeployment
  <2> QED BY <1>0, <1>4, <2>1, <2>2 DEF ApplyDeployment, PassPc
<1>5. ASSUME NEW d \in Deployment, Decided(c, d) \/ Promote(c, d)
      PROVE  /\ pc' \in [Controller -> PassPc] /\ at' \in [Controller -> {0} \cup Deployment]
             /\ todo' \in [Controller -> SUBSET Deployment]
             /\ plan' \in [Controller -> [Deployment -> Plan]]
             /\ \A k \in Controller :
                  /\ pc'[k] \in {"expose", "decide", "commit"} => at'[k] \in todo'[k]
                  /\ pc'[k] \in {"cleanSvc", "cleanRoute"} => at'[k] \in Deployment
  <2>1. CASE Decided(c, d)
    <3>1. plan' \in [Controller -> [Deployment -> Plan]] BY <2>1, Empty DEF Decided
    <3>2. pc' = [pc EXCEPT ![c] = "repair"] /\ pc' \in [Controller -> PassPc]
      BY <2>1 DEF Decided, PassPc
    <3>3. /\ at' = [at EXCEPT ![c] = 0] /\ at' \in [Controller -> {0} \cup Deployment]
          /\ todo' = [todo EXCEPT ![c] = @ \ {d}] /\ todo' \in [Controller -> SUBSET Deployment]
      BY <2>1 DEF Decided
    <3> QED BY <3>1, <3>2, <3>3
  <2>2. CASE Promote(c, d)
    <3>1. pc' = [pc EXCEPT ![c] = "commit"] /\ pc' \in [Controller -> PassPc]
      BY <2>2 DEF Promote, PassPc
    <3>2. /\ at' = [at EXCEPT ![c] = d] /\ at' \in [Controller -> {0} \cup Deployment]
          /\ UNCHANGED <<todo, plan>> /\ d \in todo[c]
      BY <2>2 DEF Promote, Deciding
    <3> QED BY <3>1, <3>2
  <2> QED BY <1>5, <2>1, <2>2
<1>6. ASSUME NEW d \in Deployment, Decide(c, d) PROVE TypeOK'
  <2>1. state' \in [Deployment -> State] /\ late' \subseteq Deployment
    BY <1>6 DEF Decide, State
  <2> QED BY <1>0, <1>5, <1>6, <2>1 DEF Decide
<1>7. ASSUME NEW d \in Deployment, Promote(c, d) PROVE TypeOK'
  <2>1. taken' \in [Controller -> SUBSET Deployment]
    BY <1>7 DEF Promote, Superseded, Serving
  <2> QED BY <1>0, <1>5, <1>7, <2>1 DEF Promote
<1>8. CASE Commit(c)
  <2>1. at[c] \in Deployment /\ Decided(c, at[c]) BY <1>8 DEF Commit
  <2>2. /\ state' \in [Deployment -> State] /\ late' \subseteq Deployment
        /\ replicas' \in [Deployment -> 0 .. 1] /\ taken' \in [Controller -> SUBSET Deployment]
    BY <1>8, <2>1 DEF Commit, State
  <2> QED BY <1>0, <1>5, <1>8, <2>1, <2>2 DEF Commit
<1>9. ASSUME NEW d \in Deployment, DeleteDeployment(c, d) PROVE TypeOK'
  <2>1. CASE d \in dep
    <3>1. /\ dep' \subseteq Deployment /\ ready' \subseteq dep'
          /\ size' \in [Deployment -> 0 .. 1]
      BY <1>9 DEF DeleteDeployment
    <3>2. /\ pc' = [pc EXCEPT ![c] = "cleanSvc"] /\ at' = [at EXCEPT ![c] = d]
          /\ todo' = [todo EXCEPT ![c] = @ \ {d}]
          /\ UNCHANGED <<rowVars, part, seen, plan, taken, conflict, faults>>
      BY <1>9, <2>1 DEF DeleteDeployment
    <3>3. pc' \in [Controller -> PassPc] BY <3>2 DEF PassPc
    <3>4. todo' \in [Controller -> SUBSET Deployment] BY <3>2
    <3>5. \A k \in Controller :
            /\ pc'[k] \in {"expose", "decide", "commit"} => at'[k] \in todo'[k]
            /\ pc'[k] \in {"cleanSvc", "cleanRoute"} => at'[k] \in Deployment
      BY <3>2
    <3> QED BY <1>0, <3>1, <3>2, <3>3, <3>4, <3>5
  <2>2. CASE d \notin dep BY <1>0, <1>9, <2>2, TypeEnd DEF DeleteDeployment, EndPass
  <2> QED BY <2>1, <2>2
<1>10. CASE ApplyRoute(c)
  <2>1. faults' \in 0 .. MaxFaults BY <1>10, TypeFault DEF ApplyRoute
  <2>2. at[c] \in Deployment BY <1>10 DEF ApplyRoute
  <2>3. part' \in [Deployment -> SUBSET Part] BY <1>10 DEF ApplyRoute, Part
  <2>4. CASE plan[c][at[c]].listed
    <3>1. pc' = [pc EXCEPT ![c] = "decide"] /\ at[c] \in todo[c] BY <1>10, <2>4 DEF ApplyRoute
    <3>2. pc' \in [Controller -> PassPc] BY <3>1 DEF PassPc
    <3>3. UNCHANGED <<at, todo, rowVars, dep, size, ready, seen, plan, taken, conflict>>
      BY <1>10, <2>4 DEF ApplyRoute
    <3> QED BY <1>0, <2>1, <2>3, <3>1, <3>2, <3>3
  <2>5. CASE ~plan[c][at[c]].listed
    <3>1. /\ pc' = [pc EXCEPT ![c] = "repair"] /\ at' = [at EXCEPT ![c] = 0]
          /\ todo' = [todo EXCEPT ![c] = @ \ {at[c]}]
          /\ UNCHANGED <<rowVars, dep, size, ready, seen, plan, taken, conflict>>
      BY <1>10, <2>5 DEF ApplyRoute
    <3>2. pc' \in [Controller -> PassPc] BY <3>1 DEF PassPc
    <3>3. todo' \in [Controller -> SUBSET Deployment] BY <3>1
    <3>4. \A k \in Controller :
            /\ pc'[k] \in {"expose", "decide", "commit"} => at'[k] \in todo'[k]
            /\ pc'[k] \in {"cleanSvc", "cleanRoute"} => at'[k] \in Deployment
      BY <3>1
    <3> QED BY <1>0, <2>1, <2>3, <3>1, <3>2, <3>3, <3>4
  <2> QED BY <2>4, <2>5
<1>11. CASE FindOrphans(c) BY <1>0, <1>11 DEF FindOrphans, PassPc
<1>12. CASE DeleteService(c)
  <2>1. faults' \in 0 .. MaxFaults BY <1>12, TypeFault DEF DeleteService
  <2>2. part' \in [Deployment -> SUBSET Part]
    <3>1. CASE UNCHANGED part BY <3>1
    <3>2. CASE part' = [part EXCEPT ![at[c]] = @ \ {"svc"}]
      <4>1. at[c] \in Deployment BY <1>12 DEF DeleteService
      <4> QED BY <3>2, <4>1
    <3> QED BY <1>12, <3>1, <3>2 DEF DeleteService
  <2>3. PICK p \in {"clean", "cleanRoute"} : Goto(c, p) BY <1>12 DEF DeleteService
  <2>4. pc' \in [Controller -> PassPc] BY <2>3 DEF PassPc
  <2>5. pc[c] = "cleanSvc" /\ UNCHANGED <<at, todo>> BY <1>12 DEF DeleteService
  <2>6. \A k \in Controller :
          /\ pc'[k] \in {"expose", "decide", "commit"} => at'[k] \in todo'[k]
          /\ pc'[k] \in {"cleanSvc", "cleanRoute"} => at'[k] \in Deployment
    BY <2>3, <2>5
  <2>7. UNCHANGED <<rowVars, dep, size, ready, at, todo, seen, plan, taken, conflict>>
    BY <1>12 DEF DeleteService
  <2> QED BY <1>0, <2>1, <2>2, <2>4, <2>6, <2>7
<1>13. CASE DeleteRoute(c)
  <2>1. faults' \in 0 .. MaxFaults BY <1>13, TypeFault DEF DeleteRoute
  <2>2. at[c] \in Deployment BY <1>13 DEF DeleteRoute
  <2>3. part' \in [Deployment -> SUBSET Part] BY <1>13, <2>2 DEF DeleteRoute
  <2>4. pc' = [pc EXCEPT ![c] = "clean"] /\ pc' \in [Controller -> PassPc]
    BY <1>13 DEF DeleteRoute, PassPc
  <2>5. UNCHANGED <<rowVars, dep, size, ready, at, todo, seen, plan, taken, conflict>>
    BY <1>13 DEF DeleteRoute
  <2> QED BY <1>0, <2>1, <2>3, <2>4, <2>5
<1>14. CASE LeavePass(c) BY <1>0, <1>14, TypeEnd DEF LeavePass, EndPass
<1>15. CASE Fail(c)
  <2>1. faults' \in 0 .. MaxFaults
    BY <1>15, TypeFault DEF Fail, FailLists, NoConnection, Abort
  <2>2. PICK n : Leave(c, n) BY <1>15 DEF Fail, FailLists, NoConnection, Abort, EndPass
  <2>3. UNCHANGED <<rowVars, clusterVars, conflict>>
    BY <1>15 DEF Fail, FailLists, NoConnection, Abort
  <2> QED BY <1>0, <2>1, <2>2, <2>3, TypeEnd
<1> QED BY <1>1, <1>2, <1>3, <1>4, <1>6, <1>7, <1>8, <1>9, <1>10, <1>11, <1>12, <1>13, <1>14, <1>15,
       <1>16, <1>17, <1>18, <1>19
        DEF PassStep

LEMMA TypeStep == TypeOK /\ [Next]_vars => TypeOK'
<1> SUFFICES ASSUME TypeOK, [Next]_vars PROVE TypeOK'
  OBVIOUS
<1>1. CASE UNCHANGED vars BY <1>1 DEF TypeOK, vars, rowVars, clusterVars, projectVars, passVars
<1> QED BY <1>1, TypeOutside, TypePass DEF Next, Outside

\* Every reachable state is well typed: pods belong to Deployments that exist
\* and a pass works on rows it has still to do (reconcile_deployments).
THEOREM TypeCorrect == Spec => []TypeOK
  BY TypeInit, TypeStep, PTL DEF Spec

\* A pass does nothing to what another one remembers.
Kept(k) == /\ pc'[k] = pc[k] /\ at'[k] = at[k] /\ todo'[k] = todo[k]
           /\ plan'[k] = plan[k] /\ taken'[k] = taken[k]

LEMMA PassIsOwn ==
  ASSUME TypeOK, NEW c \in Controller, PassStep(c) \/ Fail(c), NEW k \in Controller \ {c}
  PROVE  Kept(k)
<1> USE DEF TypeOK, passVars, Kept
<1>1. CASE \/ BeginPass(c) \/ ListDeployments(c) \/ ListServices(c) \/ ListRoutes(c)
           \/ CheckNamespace(c) \/ ReadRows(c)
  BY <1>1 DEF BeginPass, ListDeployments, ListServices, ListRoutes, CheckNamespace, ReadRows
<1>2. ASSUME NEW d \in Deployment, ApplyDeployment(c, d) \/ Decide(c, d) \/ Promote(c, d)
      PROVE  Kept(k)
  BY <1>2 DEF ApplyDeployment, Decide, Promote, Decided
<1>3. ASSUME NEW d \in Deployment, DeleteDeployment(c, d)
      PROVE  Kept(k)
  BY <1>3 DEF DeleteDeployment, EndPass, Leave
<1>4. CASE ApplyRoute(c) \/ FindOrphans(c) BY <1>4 DEF ApplyRoute, FindOrphans
<1>5. CASE Commit(c) BY <1>5 DEF Commit, Decided
<1>6. CASE DeleteService(c) \/ DeleteRoute(c) BY <1>6 DEF DeleteService, DeleteRoute
<1>7. CASE LeavePass(c) \/ SetFailed(c) \/ Fail(c)
  BY <1>7 DEF LeavePass, SetFailed, Fail, FailLists, NoConnection, Abort, EndPass, Leave
<1> QED BY <1>1, <1>2, <1>3, <1>4, <1>5, <1>6, <1>7 DEF PassStep

-----------------------------------------------------------------------------
(* One deployment serves.                                                  *)

\* The transaction of a promotion takes the replicas of every row that serves,
\* the promoted one aside, as long as no other promotion comes in between.
Alone == \A c, k \in Controller : pc[c] = "commit" /\ pc[k] = "commit" => c = k
TakenInv == \A c \in Controller : pc[c] = "commit" => Superseded(at[c]) \subseteq taken[c]
ServeInv == TakenInv /\ \A d, e \in Serving : d = e

\* Rows that stop serving do no harm.
LEMMA ServingFewer ==
  ASSUME ServeInv, Serving' \subseteq Serving,
         \A c \in Controller : pc'[c] = "commit" =>
            pc[c] = "commit" /\ at'[c] = at[c] /\ taken'[c] = taken[c]
  PROVE  ServeInv'
<1>1. \A d, e \in Serving' : d = e BY DEF ServeInv
<1>2. TakenInv' BY DEF ServeInv, TakenInv, Superseded
<1> QED BY <1>1, <1>2 DEF ServeInv

LEMMA ServingOutside ==
  ASSUME TypeOK, ServeInv, NEW d \in Deployment, Outside(d)
  PROVE  ServeInv'
<1> USE DEF TypeOK, rowVars, passVars
<1>1. UNCHANGED <<pc, at, taken>>
  BY DEF Outside, CreateDeployment, RollbackDeployment, Insert, StartBuild, FinishBuild,
     Redeliver, Expire, PodReady, PodGone, EditByHand
<1>2. Serving' \subseteq Serving
  <2>1. ASSUME NEW n, Insert(d, n) PROVE Serving' \subseteq Serving
    BY <2>1 DEF Insert, Serving
  <2>2. CASE CreateDeployment(d) BY <2>1, <2>2 DEF CreateDeployment
  <2>3. CASE RollbackDeployment(d) BY <2>1, <2>3 DEF RollbackDeployment
  <2>4. CASE StartBuild(d) BY <2>4 DEF StartBuild, Serving
  <2>5. CASE FinishBuild(d) BY <2>5 DEF FinishBuild, Serving
  <2>6. CASE UNCHANGED <<state, replicas>> BY <2>6 DEF Serving
  <2> QED BY <2>2, <2>3, <2>4, <2>5, <2>6
          DEF Outside, Redeliver, Expire, PodReady, PodGone, EditByHand
<1> QED BY <1>1, <1>2, ServingFewer

LEMMA ServingPass ==
  ASSUME TypeOK, ServeInv, Alone, NEW c \in Controller, PassStep(c) \/ Fail(c)
  PROVE  ServeInv'
<1> USE DEF TypeOK, rowVars
<1>1. \A k \in Controller \ {c} : pc'[k] = pc[k] /\ at'[k] = at[k] /\ taken'[k] = taken[k]
  BY PassIsOwn DEF Kept
<1>2. ASSUME NEW d \in Deployment, Promote(c, d) PROVE ServeInv'
  <2>1. at'[c] = d /\ taken'[c] = Superseded(d) /\ UNCHANGED <<state, replicas>>
    BY <1>2 DEF Promote
  <2>2. Serving' = Serving BY <2>1 DEF Serving
  <2>3. TakenInv'
    BY <1>1, <2>1, <2>2 DEF ServeInv, TakenInv, Superseded
  <2> QED BY <2>2, <2>3 DEF ServeInv
<1>3. CASE Commit(c)
  <2>1. pc[c] = "commit" /\ pc'[c] # "commit" BY <1>3 DEF Commit, Decided
  <2>2. \A k \in Controller : pc'[k] # "commit" BY <1>1, <2>1 DEF Alone
  <2>3. Serving' \subseteq {at[c]}
    <3> SUFFICES ASSUME NEW e \in Serving', e # at[c] PROVE FALSE OBVIOUS
    <3>1. e \in Deployment /\ state[e] = "Running" /\ replicas'[e] > 0
      BY <1>3 DEF Commit, Serving
    <3>2. e \notin taken[c] /\ replicas'[e] = replicas[e] BY <1>3, <3>1 DEF Commit
    <3>3. e \in Superseded(at[c]) BY <3>1, <3>2 DEF Superseded, Serving
    <3> QED BY <2>1, <3>2, <3>3 DEF ServeInv, TakenInv
  <2> QED BY <2>2, <2>3 DEF ServeInv, TakenInv
<1>4. CASE ~Commit(c) /\ ~\E d \in Deployment : Promote(c, d)
  <2>1. pc'[c] # "commit"
    BY <1>4 DEF PassStep, BeginPass, ListDeployments, ListServices, ListRoutes, CheckNamespace, SetFailed,
       ReadRows, ApplyDeployment, Decide, Decided, DeleteDeployment, ApplyRoute, FindOrphans,
       DeleteService, DeleteRoute, LeavePass, Fail, FailLists, NoConnection, Abort, EndPass, Leave
  <2>2. replicas' = replicas
    BY <1>4 DEF PassStep, BeginPass, ListDeployments, ListServices, ListRoutes, CheckNamespace, SetFailed,
       ReadRows, ApplyDeployment, Decide, DeleteDeployment, ApplyRoute, FindOrphans,
       DeleteService, DeleteRoute, LeavePass, Fail, FailLists, NoConnection, Abort
  <2>3. \A e \in Deployment : state'[e] = "Running" => state[e] = "Running"
    BY <1>4 DEF PassStep, BeginPass, ListDeployments, ListServices, ListRoutes, CheckNamespace, SetFailed,
       ReadRows, ApplyDeployment, Decide, DeleteDeployment, ApplyRoute, FindOrphans,
       DeleteService, DeleteRoute, LeavePass, Fail, FailLists, NoConnection, Abort
  <2>4. Serving' \subseteq Serving BY <2>2, <2>3 DEF Serving
  <2> QED BY <1>1, <2>1, <2>4, ServingFewer
<1> QED BY <1>2, <1>3, <1>4

LEMMA ServingStep == TypeOK /\ ServeInv /\ Alone /\ [Next]_vars => ServeInv'
<1> SUFFICES ASSUME TypeOK, ServeInv, Alone, [Next]_vars PROVE ServeInv'
  OBVIOUS
<1>1. CASE UNCHANGED vars
  BY <1>1, ServingFewer DEF vars, rowVars, passVars, Serving
<1> QED BY <1>1, ServingOutside, ServingPass DEF Next, Outside

\* For any number of replicas of the controller, of deployments and failures:
\* at most one Running row of a project has replicas, whatever verdicts,
\* rollbacks and late workers do, as long as no two promotions of its rows
\* are committed over each other (controller/main.py:510-521).
THEOREM OneServesAlone == Spec /\ []Alone => [](\A d, e \in Serving : d = e)
<1>1. Init => ServeInv BY DEF Init, ServeInv, TakenInv, Serving
<1>2. ServeInv => \A d, e \in Serving : d = e BY DEF ServeInv
<1> QED BY <1>1, <1>2, TypeCorrect, ServingStep, PTL DEF Spec

\* A controller without replicas is alone.
THEOREM OneServingHolds == Spec => []OneServing
<1>1. CASE OneReplica
  <2>1. Spec => []Alone
    <3>1. Alone BY <1>1 DEF OneReplica, Alone
    <3> QED BY <3>1, PTL
  <2>2. (\A d, e \in Serving : d = e) => OneServing BY DEF OneServing
  <2> QED BY <2>1, <2>2, OneServesAlone, PTL
<1>2. CASE ~OneReplica
  <2>1. OneServing BY <1>2 DEF OneServing
  <2> QED BY <2>1, PTL
<1> QED BY <1>1, <1>2

-----------------------------------------------------------------------------
(* What serves is spared.  Between reading the rows and cleaning up, a     *)
(* failed row can start again but not reach Running: this takes a verdict, *)
(* and the one pass there is has none for an orphan.                       *)

Cleaning == {"clean", "cleanSvc", "cleanRoute"}

\* What pass c may yet delete of d, it has planned when it read the rows.
Condemned(c, d) == \/ pc[c] \in Cleaning /\ d \in todo[c]
                   \/ pc[c] \in {"cleanSvc", "cleanRoute"} /\ d = at[c]
CleanInv ==
  \A c \in Controller, d \in Deployment :
    /\ Condemned(c, d) => plan[c][d].orphan
    /\ plan[c][d].orphan => plan[c][d].verdict = "none"

\* No orphan of a pass is Running.
SpareInv ==
  \A c \in Controller, d \in Deployment : plan[c][d].orphan => state[d] # "Running"

\* A pass that has ended plans nothing.
LEMMA CleanEnd ==
  ASSUME TypeOK, NEW c \in Controller, NEW n, Leave(c, n), NEW d \in Deployment
  PROVE  ~Condemned(c, d)' /\ ~plan'[c][d].orphan
  BY DEF TypeOK, Leave, Condemned, Cleaning, Unplanned, NoPlan

LEMMA CleanPass ==
  ASSUME TypeOK, CleanInv, NEW c \in Controller, PassStep(c) \/ Fail(c)
  PROVE  CleanInv'
<1> DEFINE Clean(k, d) == /\ Condemned(k, d) => plan[k][d].orphan
                          /\ plan[k][d].orphan => plan[k][d].verdict = "none"
<1>1. \A k \in Controller, d \in Deployment : Clean(k, d) BY DEF CleanInv
<1>2. ASSUME NEW k \in Controller \ {c}, NEW d \in Deployment PROVE Clean(k, d)'
  BY <1>1, PassIsOwn DEF Kept, Condemned
<1>3. ASSUME NEW d \in Deployment PROVE Clean(c, d)'
  <2> USE DEF TypeOK, Condemned, Cleaning
  <2>1. CASE \/ BeginPass(c) \/ ListDeployments(c) \/ ListServices(c) \/ ListRoutes(c)
             \/ CheckNamespace(c)
    BY <1>1, <2>1 DEF BeginPass, ListDeployments, ListServices, ListRoutes, CheckNamespace
  <2>2. CASE ReadRows(c)
    <3>1. pc'[c] = "repair" BY <2>2 DEF ReadRows
    <3>2. CASE state[d] \in Reconciled BY <2>2, <3>1, <3>2 DEF ReadRows
    <3>3. CASE state[d] \notin Reconciled
      <4>1. plan'[c][d].verdict = "none" BY <2>2, <3>3 DEF ReadRows, NoPlan
      <4> QED BY <3>1, <4>1
    <3> QED BY <3>2, <3>3
  <2>3. ASSUME NEW e \in Deployment, ApplyDeployment(c, e) PROVE Clean(c, d)'
    BY <1>1, <2>3 DEF ApplyDeployment
  <2>4. ASSUME NEW e \in Deployment, Decided(c, e) PROVE Clean(c, d)'
    <3>1. pc'[c] = "repair" BY <2>4 DEF Decided
    <3>2. plan'[c][d] = plan[c][d] \/ plan'[c][d] = NoPlan BY <2>4 DEF Decided
    <3> QED BY <1>1, <3>1, <3>2 DEF NoPlan
  <2>5. ASSUME NEW e \in Deployment, Promote(c, e) PROVE Clean(c, d)'
    BY <1>1, <2>5 DEF Promote
  <2>6. Commit(c) => at[c] \in Deployment /\ Decided(c, at[c]) BY DEF Commit
  <2>7. ASSUME NEW e \in Deployment, DeleteDeployment(c, e) PROVE Clean(c, d)'
    <3>1. CASE e \in dep BY <1>1, <2>7, <3>1 DEF DeleteDeployment
    <3>2. CASE e \notin dep BY <2>7, <3>2, CleanEnd DEF DeleteDeployment, EndPass
    <3> QED BY <3>1, <3>2
  <2>8. CASE ApplyRoute(c) BY <1>1, <2>8 DEF ApplyRoute
  <2>9. CASE FindOrphans(c) BY <1>1, <2>9 DEF FindOrphans
  <2>10. CASE DeleteService(c) \/ DeleteRoute(c) BY <1>1, <2>10 DEF DeleteService, DeleteRoute
  <2>11. CASE LeavePass(c) \/ SetFailed(c) \/ Fail(c)
    BY <2>11, CleanEnd DEF LeavePass, SetFailed, Fail, FailLists, NoConnection, Abort, EndPass
  <2> QED BY <2>1, <2>2, <2>3, <2>4, <2>5, <2>6, <2>7, <2>8, <2>9, <2>10, <2>11
          DEF PassStep, Decide
<1>4. \A k \in Controller, d \in Deployment : Clean(k, d)' BY <1>2, <1>3
<1> QED BY <1>4 DEF CleanInv

\* Nothing outside of the passes makes a row Running.
LEMMA OutsideNeverRuns ==
  ASSUME TypeOK, NEW d \in Deployment, Outside(d)
  PROVE  /\ UNCHANGED passVars
         /\ \A e \in Deployment : state'[e] = "Running" => state[e] = "Running"
  BY DEF TypeOK, Outside, CreateDeployment, RollbackDeployment, Insert, StartBuild, FinishBuild,
     Redeliver, Expire, PodReady, PodGone, EditByHand, rowVars

LEMMA SparePass ==
  ASSUME OneReplica, TypeOK, CleanInv, SpareInv, NEW c \in Controller, PassStep(c) \/ Fail(c)
  PROVE  SpareInv'
<1> USE DEF TypeOK
<1>1. Controller = {c} BY DEF OneReplica
<1> SUFFICES ASSUME NEW d \in Deployment, plan'[c][d].orphan PROVE state'[d] # "Running"
  BY <1>1 DEF SpareInv
<1>2. CASE ReadRows(c)
  <2>1. state[d] \notin Reconciled BY <1>2 DEF ReadRows
  <2> QED BY <1>2, <2>1 DEF ReadRows, Reconciled, rowVars
<1>3. CASE Commit(c)
  <2>1. at[c] \in Deployment /\ Decided(c, at[c]) BY <1>3 DEF Commit
  <2>2. d # at[c] BY <2>1 DEF Decided, NoPlan
  <2>3. plan[c][d].orphan BY <2>1, <2>2 DEF Decided
  <2> QED BY <1>3, <2>1, <2>2, <2>3 DEF Commit, SpareInv
<1>4. ASSUME NEW e \in Deployment, Decide(c, e) PROVE state'[d] # "Running"
  <2>1. d # e BY <1>4 DEF Decide, Decided, NoPlan
  <2>2. plan[c][d].orphan BY <1>4, <2>1 DEF Decide, Decided
  <2> QED BY <1>4, <2>1, <2>2 DEF Decide, SpareInv
<1>5. CASE ~ReadRows(c) /\ ~Commit(c) /\ ~\E e \in Deployment : Decide(c, e)
  <2>1. plan'[c] = plan[c] \/ plan'[c] = Unplanned
    BY <1>5 DEF PassStep, BeginPass, ListDeployments, ListServices, ListRoutes, CheckNamespace, SetFailed,
       ApplyDeployment, Promote, DeleteDeployment, ApplyRoute, FindOrphans, DeleteService,
       DeleteRoute, LeavePass, Fail, FailLists, NoConnection, Abort, EndPass, Leave
  <2>2. state'[d] = "Running" => state[d] = "Running"
    BY <1>5 DEF PassStep, BeginPass, ListDeployments, ListServices, ListRoutes, CheckNamespace, SetFailed,
       ApplyDeployment, Promote, DeleteDeployment, ApplyRoute, FindOrphans, DeleteService,
       DeleteRoute, LeavePass, Fail, FailLists, NoConnection, Abort, rowVars
  <2> QED BY <2>1, <2>2 DEF SpareInv, Unplanned, NoPlan
<1> QED BY <1>2, <1>3, <1>4, <1>5

\* A row that is Running was not condemned, and only what is gets deleted.
LEMMA SparesServing ==
  ASSUME TypeOK, CleanInv, SpareInv, NEW c \in Controller, PassStep(c) \/ Fail(c),
         NEW d \in Deployment, state[d] = "Running"
  PROVE  /\ {d} \cap dep \subseteq dep' /\ {d} \cap ready \subseteq ready'
         /\ part[d] \subseteq part'[d]
<1> USE DEF TypeOK
<1>1. ~Condemned(c, d) BY DEF CleanInv, SpareInv
<1>2. ASSUME NEW e \in Deployment, ApplyDeployment(c, e)
      PROVE  dep \subseteq dep' /\ UNCHANGED <<ready, part>>
  BY <1>2 DEF ApplyDeployment
<1>3. ASSUME NEW e \in Deployment, DeleteDeployment(c, e)
      PROVE  d # e /\ dep' = dep \ {e} /\ ready' = ready \ {e} /\ UNCHANGED part
  BY <1>1, <1>3 DEF DeleteDeployment, Condemned, Cleaning
<1>4. CASE ApplyRoute(c) BY <1>4 DEF ApplyRoute
<1>5. CASE DeleteService(c) \/ DeleteRoute(c)
  BY <1>1, <1>5 DEF DeleteService, DeleteRoute, Condemned
<1>6. CASE UNCHANGED <<dep, ready, part>> BY <1>6
<1> QED BY <1>2, <1>3, <1>4, <1>5, <1>6
        DEF PassStep, BeginPass, ListDeployments, ListServices, ListRoutes, CheckNamespace, SetFailed,
            ReadRows, Decide, Promote, Commit, FindOrphans, LeavePass, Fail, FailLists, NoConnection, Abort,
            clusterVars

PlanInv == CleanInv /\ (OneReplica => SpareInv)

LEMMA PlanStep == TypeOK /\ PlanInv /\ [Next]_vars => PlanInv'
<1> SUFFICES ASSUME TypeOK, PlanInv, [Next]_vars PROVE PlanInv'
  OBVIOUS
<1>1. CASE \E d \in Deployment : Outside(d)
  <2>1. /\ UNCHANGED passVars
        /\ \A e \in Deployment : state'[e] = "Running" => state[e] = "Running"
    BY <1>1, OutsideNeverRuns
  <2> QED BY <2>1 DEF PlanInv, CleanInv, Condemned, SpareInv, passVars
<1>2. CASE \E c \in Controller : PassStep(c) \/ Fail(c)
  BY <1>2, CleanPass, SparePass DEF PlanInv
<1>3. CASE UNCHANGED vars
  BY <1>3 DEF PlanInv, CleanInv, Condemned, SpareInv, vars, rowVars, passVars
<1> QED BY <1>1, <1>2, <1>3 DEF Next, Outside

LEMMA PlanInit == Init => PlanInv
  BY DEF Init, PlanInv, CleanInv, Condemned, Cleaning, SpareInv, Unplanned, NoPlan

\* With one replica of the controller no pass takes anything away from a
\* deployment that is Running, however old its list of the rows is, for any
\* number of deployments, failures and redelivered messages
\* (controller/main.py:530-551).
THEOREM ServingIsSparedHolds == Spec => ServingIsSpared
<1> DEFINE Spared == OneReplica /\ passVars' # passVars =>
                       \A d \in Deployment : state[d] = "Running" =>
                         /\ {d} \cap dep \subseteq dep' /\ {d} \cap ready \subseteq ready'
                         /\ part[d] \subseteq part'[d]
<1>1. TypeOK /\ PlanInv /\ [Next]_vars => [Spared]_vars
  <2> SUFFICES ASSUME TypeOK, PlanInv, Next, OneReplica, passVars' # passVars,
                      NEW d \in Deployment, state[d] = "Running"
               PROVE  /\ {d} \cap dep \subseteq dep' /\ {d} \cap ready \subseteq ready'
                      /\ part[d] \subseteq part'[d]
    OBVIOUS
  <2>1. PICK c \in Controller : PassStep(c) \/ Fail(c) BY OutsideNeverRuns DEF Next, Outside
  <2> QED BY <2>1, SparesServing DEF PlanInv
<1>2. []TypeOK /\ []PlanInv /\ [][Next]_vars => [][Spared]_vars BY <1>1, PTL
<1>3. Spec => []PlanInv BY PlanInit, PlanStep, TypeCorrect, PTL DEF Spec
<1> QED BY <1>2, <1>3, TypeCorrect, PTL DEF Spec, ServingIsSpared
-----------------------------------------------------------------------------
(* What is left over.  With one replica, a deployment is loose for pass c  *)
(* if it has, or is about to get, a Service or a route without a           *)
(* Deployment, or a route that a cleanup would skip for want of the        *)
(* Service.  The pass that is cleaning it up tightens it.                  *)

Loose(c) ==
  {d \in Deployment :
     /\ \/ d \notin dep /\ (part[d] # {} \/ (pc[c] = "expose" /\ at[c] = d))
        \/ part[d] = {"route"}
     /\ ~(pc[c] = "cleanRoute" /\ at[c] = d)
     /\ ~(pc[c] = "cleanSvc" /\ at[c] = d /\ "svc" \in part[d])}

LooseInv(c) == /\ Cardinality(Loose(c)) <= faults
               /\ pc[c] = "cleanRoute" => "svc" \notin part[at[c]]

LEMMA DeploymentIsFinite == IsFiniteSet(Deployment)
<1>1. 1 \in Int /\ MaxDeployments \in Int BY BoundsAssumption
<1> QED BY <1>1, FS_Interval DEF Deployment

\* A fault pays for one deployment that comes loose.
LEMMA LooseCounts ==
  ASSUME TypeOK, NEW c \in Controller, LooseInv(c),
         \/ Loose(c)' \subseteq Loose(c) /\ (Fault \/ NoFault)
         \/ Fault /\ \E d : Loose(c)' \subseteq Loose(c) \cup {d}
  PROVE  Cardinality(Loose(c)') <= faults'
<1>1. Loose(c) \in SUBSET Deployment BY DEF Loose
<1>2. IsFiniteSet(Loose(c)) BY <1>1, DeploymentIsFinite, FS_Subset
<1>3. Cardinality(Loose(c)) \in Nat /\ faults \in Nat /\ Cardinality(Loose(c)) <= faults
  BY <1>2, BoundsAssumption, FS_CardinalityType DEF TypeOK, LooseInv
<1>4. CASE Loose(c)' \subseteq Loose(c) /\ (Fault \/ NoFault)
  <2>1. Loose(c)' \in SUBSET Loose(c) BY <1>4
  <2>2. IsFiniteSet(Loose(c)') /\ Cardinality(Loose(c)') <= Cardinality(Loose(c))
    BY <1>2, <2>1, FS_Subset
  <2>3. Cardinality(Loose(c)') \in Nat BY <2>2, FS_CardinalityType
  <2>4. faults' = faults \/ faults' = faults + 1 BY <1>4
  <2> QED BY <1>3, <2>2, <2>3, <2>4
<1>5. ASSUME Fault, NEW d, Loose(c)' \subseteq Loose(c) \cup {d}
      PROVE  Cardinality(Loose(c)') <= faults'
  <2>1. /\ IsFiniteSet(Loose(c) \cup {d})
        /\ \/ Cardinality(Loose(c) \cup {d}) = Cardinality(Loose(c))
           \/ Cardinality(Loose(c) \cup {d}) = Cardinality(Loose(c)) + 1
    BY <1>2, FS_AddElement
  <2>2. Loose(c)' \in SUBSET (Loose(c) \cup {d}) BY <1>5
  <2>3. /\ IsFiniteSet(Loose(c)')
        /\ Cardinality(Loose(c)') <= Cardinality(Loose(c) \cup {d})
    BY <2>1, <2>2, FS_Subset
  <2>4. Cardinality(Loose(c)') \in Nat BY <2>3, FS_CardinalityType
  <2>5. faults' = faults + 1 BY <1>5
  <2> QED BY <1>3, <2>1, <2>3, <2>4, <2>5
<1> QED BY <1>4, <1>5

\* Steps beside the objects, while nothing is applied or cleaned up.
LEMMA LooseQuiet ==
  ASSUME TypeOK, NEW c \in Controller, LooseInv(c), UNCHANGED <<dep, part>>,
         pc[c] \notin {"expose", "cleanSvc", "cleanRoute"},
         pc'[c] \notin {"expose", "cleanSvc", "cleanRoute"}, Fault \/ NoFault
  PROVE  LooseInv(c)'
<1>1. Loose(c)' \subseteq Loose(c) BY DEF Loose
<1> QED BY <1>1, LooseCounts DEF LooseInv

LEMMA LooseOutside ==
  ASSUME TypeOK, NEW c \in Controller, LooseInv(c), NEW d \in Deployment, Outside(d)
  PROVE  LooseInv(c)'
<1>1. UNCHANGED <<pc, at>>
  BY DEF Outside, CreateDeployment, RollbackDeployment, Insert, StartBuild, FinishBuild,
     Redeliver, Expire, PodReady, PodGone, EditByHand, passVars
<1>2. CASE EditByHand(d)
  <2>1. /\ Fault
        /\ \A e \in Deployment \ {d} : (e \in dep <=> e \in dep') /\ part'[e] = part[e]
        /\ \A e \in Deployment : part'[e] \subseteq part[e]
    <3>1. Fault /\ part \in [Deployment -> SUBSET Part] BY <1>2 DEF EditByHand, TypeOK
    <3>2. CASE dep' = dep \ {d} /\ UNCHANGED part BY <3>1, <3>2
    <3>3. CASE UNCHANGED <<dep, part>> BY <3>1, <3>3
    <3>4. CASE \E o \in part[d] : part' = [part EXCEPT ![d] = @ \ {o}] /\ UNCHANGED dep
      BY <3>1, <3>4
    <3> QED BY <1>2, <3>1, <3>2, <3>3, <3>4 DEF EditByHand
  <2>2. Loose(c)' \subseteq Loose(c) \cup {d} BY <1>1, <2>1 DEF Loose
  <2>3. pc[c] = "cleanRoute" => at[c] \in Deployment BY DEF TypeOK
  <2> QED BY <1>1, <2>1, <2>2, <2>3, LooseCounts DEF LooseInv
<1>3. CASE ~EditByHand(d)
  <2>1. UNCHANGED <<dep, part>> /\ (Fault \/ NoFault)
    BY <1>3 DEF Outside, CreateDeployment, RollbackDeployment, Insert, StartBuild, FinishBuild,
       Redeliver, Expire, PodReady, PodGone, clusterVars
  <2>2. Loose(c)' \subseteq Loose(c) BY <1>1, <2>1 DEF Loose
  <2> QED BY <1>1, <2>1, <2>2, LooseCounts DEF LooseInv
<1> QED BY <1>2, <1>3

LEMMA LooseApply ==
  ASSUME TypeOK, NEW c \in Controller, LooseInv(c),
         (\E d \in Deployment : ApplyDeployment(c, d)) \/ ApplyRoute(c)
  PROVE  LooseInv(c)'
<1> USE DEF TypeOK
<1>1. ASSUME NEW d \in Deployment, ApplyDeployment(c, d) PROVE LooseInv(c)'
  <2>1. pc[c] = "repair" /\ pc'[c] = "expose" /\ at'[c] = d /\ UNCHANGED part
    BY <1>1 DEF ApplyDeployment
  <2>2. CASE NoFault /\ dep' = dep \cup {d}
    <3>1. Loose(c)' \subseteq Loose(c) BY <2>1, <2>2 DEF Loose
    <3> QED BY <2>1, <2>2, <3>1, LooseCounts DEF LooseInv
  <2>3. CASE Fault /\ UNCHANGED dep
    <3>1. Loose(c)' \subseteq Loose(c) \cup {d} BY <2>1, <2>3 DEF Loose
    <3> QED BY <2>1, <2>3, <3>1, LooseCounts DEF LooseInv
  <2> QED BY <1>1, <2>2, <2>3 DEF ApplyDeployment
<1>2. CASE ApplyRoute(c)
  <2>1. at[c] \in Deployment BY <1>2 DEF ApplyRoute
  <2>2. /\ pc[c] = "expose" /\ pc'[c] \notin {"expose", "cleanSvc", "cleanRoute"}
        /\ UNCHANGED dep
    BY <1>2 DEF ApplyRoute
  <2>3. PICK failed \in SUBSET {"svc", "route"} :
          /\ IF failed = {} THEN NoFault ELSE Fault
          /\ part' = [part EXCEPT ![at[c]] = @ \cup ({"svc", "route"} \ failed)]
    BY <1>2 DEF ApplyRoute
  <2>4. \A e \in Deployment \ {at[c]} : part'[e] = part[e] BY <2>3
  <2>5. CASE failed = {}
    <3>1. part'[at[c]] = {"svc", "route"} BY <2>1, <2>3, <2>5 DEF Part
    <3>2. Loose(c)' \subseteq Loose(c) BY <2>1, <2>2, <2>4, <3>1 DEF Loose
    <3> QED BY <2>2, <2>3, <2>5, <3>2, LooseCounts DEF LooseInv
  <2>6. CASE failed # {}
    <3>1. Loose(c)' \subseteq Loose(c) \cup {at[c]} BY <2>2, <2>4 DEF Loose
    <3> QED BY <2>2, <2>3, <2>6, <3>1, LooseCounts DEF LooseInv
  <2> QED BY <2>5, <2>6
<1> QED BY <1>1, <1>2

LEMMA LooseClean ==
  ASSUME TypeOK, NEW c \in Controller, LooseInv(c),
         \/ \E d \in Deployment : DeleteDeployment(c, d)
         \/ DeleteService(c) \/ DeleteRoute(c) \/ Abort(c)
  PROVE  LooseInv(c)'
<1> USE DEF TypeOK
<1>1. ASSUME NEW d \in Deployment, DeleteDeployment(c, d) PROVE LooseInv(c)'
  <2>1. pc[c] = "clean" /\ dep' = dep \ {d} /\ UNCHANGED part /\ NoFault
    BY <1>1 DEF DeleteDeployment
  <2>2. CASE d \in dep
    <3>1. pc'[c] = "cleanSvc" /\ at'[c] = d BY <1>1, <2>2 DEF DeleteDeployment
    <3>2. Loose(c)' \subseteq Loose(c)
      <4> SUFFICES ASSUME NEW e \in Loose(c)' PROVE e \in Loose(c) OBVIOUS
      <4>1. CASE e # d BY <2>1, <3>1, <4>1 DEF Loose
      <4>2. CASE e = d
        <5>1. part[d] # {} /\ "svc" \notin part[d] BY <2>1, <3>1, <4>2 DEF Loose
        <5>2. part[d] = {"route"} BY <5>1 DEF Part
        <5> QED BY <2>1, <4>2, <5>2 DEF Loose
      <4> QED BY <4>1, <4>2
    <3> QED BY <2>1, <3>1, <3>2, LooseCounts DEF LooseInv
  <2>3. CASE d \notin dep
    <3>1. pc'[c] = "idle" BY <1>1, <2>3 DEF DeleteDeployment, EndPass, Leave
    <3>2. UNCHANGED <<dep, part>> BY <2>1, <2>3
    <3> QED BY <2>1, <3>1, <3>2, LooseQuiet
  <2> QED BY <2>2, <2>3
<1>2. CASE DeleteService(c)
  <2>1. pc[c] = "cleanSvc" /\ at[c] \in Deployment /\ UNCHANGED <<dep, at>>
    BY <1>2 DEF DeleteService
  <2>2. CASE Fault /\ UNCHANGED part /\ Goto(c, "clean")
    <3>1. Loose(c)' \subseteq Loose(c) \cup {at[c]} BY <2>1, <2>2 DEF Loose
    <3> QED BY <2>1, <2>2, <3>1, LooseCounts DEF LooseInv
  <2>3. CASE /\ NoFault /\ part' = [part EXCEPT ![at[c]] = @ \ {"svc"}]
             /\ Goto(c, IF "svc" \in part[at[c]] THEN "cleanRoute" ELSE "clean")
    <3>1. "svc" \notin part'[at[c]] /\ \A e \in Deployment \ {at[c]} : part'[e] = part[e]
      BY <2>1, <2>3
    <3>2. CASE "svc" \in part[at[c]]
      <4>1. pc'[c] = "cleanRoute" BY <2>3, <3>2
      <4>2. Loose(c)' \subseteq Loose(c) BY <2>1, <3>1, <4>1 DEF Loose
      <4> QED BY <2>1, <2>3, <3>1, <4>1, <4>2, LooseCounts DEF LooseInv
    <3>3. CASE "svc" \notin part[at[c]]
      <4>1. pc'[c] = "clean" BY <2>3, <3>3
      <4>2. part'[at[c]] = part[at[c]] BY <2>1, <2>3, <3>3
      <4>3. Loose(c)' \subseteq Loose(c) BY <2>1, <3>1, <3>3, <4>1, <4>2 DEF Loose
      <4> QED BY <2>1, <2>3, <4>1, <4>3, LooseCounts DEF LooseInv
    <3> QED BY <3>2, <3>3
  <2> QED BY <1>2, <2>2, <2>3 DEF DeleteService
<1>3. CASE DeleteRoute(c)
  <2>1. /\ pc[c] = "cleanRoute" /\ pc'[c] = "clean" /\ at[c] \in Deployment
        /\ UNCHANGED <<dep, at>>
    BY <1>3 DEF DeleteRoute
  <2>2. CASE Fault /\ UNCHANGED part
    <3>1. Loose(c)' \subseteq Loose(c) \cup {at[c]} BY <2>1, <2>2 DEF Loose
    <3> QED BY <2>1, <2>2, <3>1, LooseCounts DEF LooseInv
  <2>3. CASE NoFault /\ part' = [part EXCEPT ![at[c]] = @ \ {"route"}]
    <3>1. part'[at[c]] = {} BY <2>1, <2>3 DEF LooseInv, Part
    <3>2. \A e \in Deployment \ {at[c]} : part'[e] = part[e] BY <2>3
    <3>3. Loose(c)' \subseteq Loose(c) BY <2>1, <3>1, <3>2 DEF Loose
    <3> QED BY <2>1, <2>3, <3>3, LooseCounts DEF LooseInv
  <2> QED BY <1>3, <2>2, <2>3 DEF DeleteRoute
<1>4. CASE Abort(c)
  <2>1. pc'[c] = "idle" /\ Fault /\ UNCHANGED <<dep, part>>
    BY <1>4 DEF Abort, EndPass, Leave, clusterVars
  <2>2. Loose(c)' \subseteq Loose(c) \cup {at[c]} BY <2>1 DEF Loose
  <2> QED BY <2>1, <2>2, LooseCounts DEF LooseInv
<1> QED BY <1>1, <1>2, <1>3, <1>4

LEMMA LooseRest ==
  ASSUME TypeOK, NEW c \in Controller, LooseInv(c), PassStep(c) \/ Fail(c),
         ~\E d \in Deployment : ApplyDeployment(c, d), ~ApplyRoute(c),
         ~\E d \in Deployment : DeleteDeployment(c, d), ~DeleteService(c), ~DeleteRoute(c),
         ~Abort(c)
  PROVE  LooseInv(c)'
<1> USE DEF TypeOK
<1>1. UNCHANGED <<dep, part>> /\ (Fault \/ NoFault)
  BY DEF PassStep, Fail, BeginPass, ListDeployments, ListServices, ListRoutes, CheckNamespace,
     SetFailed, ReadRows, Decide, Promote, Commit, FindOrphans, LeavePass, FailLists,
     NoConnection, clusterVars
<1>2. pc[c] \notin {"expose", "cleanSvc", "cleanRoute"}
  BY DEF PassStep, Fail, BeginPass, ListDeployments, ListServices, ListRoutes, CheckNamespace,
     SetFailed, ReadRows, Decide, Promote, Deciding, Commit, FindOrphans, LeavePass, FailLists,
     NoConnection
<1>3. pc'[c] \notin {"expose", "cleanSvc", "cleanRoute"}
  BY DEF PassStep, Fail, BeginPass, ListDeployments, ListServices, ListRoutes, CheckNamespace,
     SetFailed, ReadRows, Decide, Promote, Decided, Commit, FindOrphans, LeavePass, FailLists,
     NoConnection, EndPass, Leave
<1> QED BY <1>1, <1>2, <1>3, LooseQuiet

LEMMA LooseStep ==
  ASSUME TypeOK, OneReplica, NEW c \in Controller, LooseInv(c), [Next]_vars
  PROVE  LooseInv(c)'
<1>1. CASE \E d \in Deployment : Outside(d) BY <1>1, LooseOutside
<1>2. CASE PassStep(c) \/ Fail(c)
  BY <1>2, LooseApply, LooseClean, LooseRest
<1>3. CASE UNCHANGED vars
  <2>1. UNCHANGED <<pc, at, dep, part, faults>> BY <1>3 DEF vars, passVars, clusterVars
  <2>2. Loose(c)' = Loose(c) BY <2>1 DEF Loose
  <2> QED BY <2>1, <2>2 DEF LooseInv
<1>4. \A k \in Controller : k = c BY DEF OneReplica
<1> QED BY <1>1, <1>2, <1>3, <1>4 DEF Next, Outside

\* With one replica of the controller, for any number of deployments and of
\* failures: no more deployments leave a Service or a route behind than calls
\* have failed, pods crashed or hands interfered (controller/main.py:535-551).
THEOREM LeftoversNeedFaultsHolds == Spec => []LeftoversNeedFaults
<1>1. CASE OneReplica
  <2>1. PICK c \in Controller : TRUE BY BoundsAssumption
  <2>2. Init => LooseInv(c)
    <3> SUFFICES ASSUME Init PROVE LooseInv(c) OBVIOUS
    <3>1. Loose(c) = {} BY DEF Init, Loose
    <3>2. Cardinality({}) = 0 BY FS_EmptySet
    <3> QED BY <3>1, <3>2 DEF Init, LooseInv
  <2>3. TypeOK /\ LooseInv(c) /\ [Next]_vars => LooseInv(c)' BY <1>1, LooseStep
  <2>4. TypeOK /\ LooseInv(c) => LeftoversNeedFaults
    <3> SUFFICES ASSUME TypeOK, LooseInv(c) PROVE Cardinality(Leftover) <= faults
      BY DEF LeftoversNeedFaults
    <3>1. Loose(c) \in SUBSET Deployment /\ Leftover \in SUBSET Loose(c)
      BY DEF Loose, Leftover
    <3>2. IsFiniteSet(Loose(c)) BY <3>1, DeploymentIsFinite, FS_Subset
    <3>3. IsFiniteSet(Leftover) /\ Cardinality(Leftover) <= Cardinality(Loose(c))
      BY <3>1, <3>2, FS_Subset
    <3>4. Cardinality(Leftover) \in Nat /\ Cardinality(Loose(c)) \in Nat /\ faults \in Nat
      BY <3>2, <3>3, BoundsAssumption, FS_CardinalityType DEF TypeOK
    <3> QED BY <3>3, <3>4 DEF LooseInv
  <2> QED BY <2>2, <2>3, <2>4, TypeCorrect, PTL DEF Spec
<1>2. CASE ~OneReplica
  <2>1. LeftoversNeedFaults BY <1>2 DEF LeftoversNeedFaults
  <2> QED BY <2>1, PTL
<1> QED BY <1>1, <1>2
===============================================================================
