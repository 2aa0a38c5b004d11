---------------------------- MODULE PipelineProofs ----------------------------
(***************************************************************************)
(* Proofs about Pipeline: the API and the workers implement what Outbox    *)
(* and Worker say of either, so that whatever was proved of them holds in  *)
(* the system, and no accepted deployment is forgotten between them.       *)
(*                                                                         *)
(* The argument is by simultaneous induction: each side relies on the      *)
(* invariants of both to show that its step is one the other side's        *)
(* environment may take.                                                   *)
(***************************************************************************)
EXTENDS Pipeline, TLAPS

\* What Outbox and Worker assume of the constants.
Sizes ==
  /\ IsFiniteSet(Deployment) /\ IsFiniteSet(Slot)
  /\ ProjectOf \in [Deployment -> Project] /\ NullBranch \subseteq Deployment
  /\ BatchSize \in Nat \ {0} /\ ReadCount \in Nat \ {0} /\ MaxEntries \in Nat
  /\ MaxApiFaults \in Nat /\ MaxApiCrashes \in Nat
  /\ MaxPodFaults \in Nat /\ MaxPodCrashes \in Nat

\* The inductive invariant of the system.
Inv == API!TypeOK /\ API!KeepInv /\ Pods!TypeOK /\ Pods!ReadInv

-----------------------------------------------------------------------------
(* The results of OutboxProofs and WorkerProofs, for these constants.      *)

LEMMA ApiSizes ==
  ASSUME Sizes
  PROVE  /\ API!IsFiniteSet(Deployment)
         /\ ProjectOf \in [Deployment -> Project] /\ NullBranch \subseteq Deployment
         /\ BatchSize \in Nat \ {0} /\ MaxEntries + 1 \in Nat \ {0}
         /\ MaxEntries \in Nat /\ MaxApiFaults \in Nat /\ MaxApiCrashes \in Nat
  <1>1. API!IsFiniteSet(Deployment) BY DEF Sizes, API!IsFiniteSet, IsFiniteSet
  <1> QED BY <1>1 DEF Sizes

LEMMA PodSizes ==
  ASSUME Sizes
  PROVE  /\ Pods!IsFiniteSet(Slot)
         /\ ProjectOf \in [Deployment -> Project]
         /\ ReadCount \in Nat \ {0}
         /\ MaxEntries \in Nat /\ MaxPodFaults \in Nat /\ MaxPodCrashes \in Nat
  <1>1. Pods!IsFiniteSet(Slot) BY DEF Sizes, Pods!IsFiniteSet, IsFiniteSet
  <1> QED BY <1>1 DEF Sizes

LEMMA InitInv == ASSUME Sizes, Init PROVE Inv
  <1>1. API!TypeOK /\ API!KeepInv BY ApiSizes, API!InitType, API!InitKeep DEF Init
  <1>2. Pods!TypeOK /\ Pods!ReadInv BY PodSizes, Pods!TypeInit, Pods!ReadInit DEF Init
  <1> QED BY <1>1, <1>2 DEF Inv

LEMMA InvStep ==
  ASSUME Sizes, Inv, [API!Next]_(API!vars), [Pods!Next]_(Pods!vars) PROVE Inv'
  <1>1. API!TypeOK' BY ApiSizes, API!TypeStep DEF Inv
  <1>2. API!KeepInv' BY <1>1, ApiSizes, API!KeepStep DEF Inv
  <1>3. Pods!TypeOK' BY PodSizes, Pods!TypeStep DEF Inv
  <1>4. Pods!ReadInv' BY PodSizes, Pods!ReadStep DEF Inv
  <1> QED BY <1>1, <1>2, <1>3, <1>4 DEF Inv

-----------------------------------------------------------------------------
(* The workers are an environment of the API.                              *)

LEMMA ApiStutters ==
  ASSUME UNCHANGED <<state, stream, last, apiVars>> PROVE UNCHANGED API!vars
  BY DEF apiVars, API!vars, API!outboxVars, API!streamVars, API!reqVars, API!relayVars, API!budgetVars

\* Who has read an entry of a deployment may write its row.
LEMMA WriteIsAdvance ==
  ASSUME Inv, NEW d \in Deployment, Pods!Read(d), UNCHANGED <<stream, last, apiVars>>,
         NEW s \in {"Building", "Deploying", "Running", "Failed"}, Pods!SetState(d, s)
  PROVE  API!Next
  <1>1. PICK i \in 1 .. last : stream[i] = d BY DEF Pods!Read
  <1>2. last \in 0 .. Len(stream) /\ Len(stream) \in Nat /\ DOMAIN stream = 1 .. Len(stream)
    BY DEF Inv, Pods!TypeOK, Pods!RedisOK
  <1>3. i \in API!Positions(d) /\ i <= last BY <1>1, <1>2 DEF API!Positions
  <1>4. API!SetState(d, s)
    BY DEF Pods!SetState, Pods!IndexAllows, Pods!InFlight, API!SetState, API!IndexAllows, API!InFlight
  <1>5. API!Advance(d)
    BY <1>3, <1>4 DEF apiVars, API!Advance, API!outboxVars, API!streamVars, API!reqVars,
       API!relayVars, API!budgetVars
  <1> QED BY <1>5 DEF API!Next

LEMMA ThreadIsApi ==
  ASSUME Sizes, Inv, NEW t \in Pods!Thread, Pods!ThreadStep(t), UNCHANGED apiVars
  PROVE  [API!Next]_(API!vars)
  <1>1. pc[t] # "idle" /\ UNCHANGED <<stream, last>>
    BY DEF Pods!ThreadStep, Pods!EarlyStep, Pods!TryStep, Pods!MonitorStep, Pods!RejectInvalid,
       Pods!ReadDeployment, Pods!AdvanceRollback, Pods!AckReturn, Pods!EarlyError, Pods!Prepare,
       Pods!AckBuilt, Pods!FailTask, Pods!DeadLetter, Pods!Release, Pods!WatchPod,
       Pods!SetBuilding, Pods!WatchJob, Pods!SetDeploying, Pods!SetFailed, Pods!MonitorError,
       Pods!MonitorFailed, Pods!CleanJob, Pods!EarlyPc, Pods!MonitorPc, Pods!redisVars
  <1>2. Pods!Dep(t) \in Deployment /\ Pods!Read(Pods!Dep(t))
    BY <1>1, PodSizes, Pods!DepType DEF Inv, Pods!TypeOK, Pods!Read, Pods!Dep
  <1>3. \/ UNCHANGED state
        \/ \E s \in {"Building", "Deploying", "Failed"} : Pods!SetState(Pods!Dep(t), s)
    <2>1. Pods!EarlyStep(t) => UNCHANGED state \/ Pods!SetState(Pods!Dep(t), "Deploying")
      BY DEF Pods!EarlyStep, Pods!RejectInvalid, Pods!ReadDeployment, Pods!AdvanceRollback,
         Pods!AckReturn, Pods!EarlyError, Pods!dbVars
    <2>2. Pods!TryStep(t) => UNCHANGED state \/ Pods!SetState(Pods!Dep(t), "Failed")
      BY DEF Pods!TryStep, Pods!Prepare, Pods!AckBuilt, Pods!FailTask, Pods!DeadLetter,
         Pods!Release, Pods!dbVars
    <2>3. Pods!MonitorStep(t) =>
            \/ UNCHANGED state
            \/ \E s \in {"Building", "Deploying", "Failed"} : Pods!SetState(Pods!Dep(t), s)
      BY DEF Pods!MonitorStep, Pods!WatchPod, Pods!SetBuilding, Pods!WatchJob, Pods!SetDeploying,
         Pods!SetFailed, Pods!MonitorError, Pods!MonitorFailed, Pods!CleanJob, Pods!dbVars
    <2> QED BY <2>1, <2>2, <2>3 DEF Pods!ThreadStep
  <1> QED BY <1>1, <1>2, <1>3, ApiStutters, WriteIsAdvance

LEMMA LoopIsApi ==
  ASSUME Sizes, Inv, UNCHANGED apiVars, NEW p \in Pod,
         \/ Pods!LoopStep(p) \/ Pods!ReplyLost(p)
         \/ Pods!Sigterm(p) \/ Pods!Crash(p) \/ Pods!Restart(p)
  PROVE  [API!Next]_(API!vars)
  <1>1. /\ UNCHANGED <<state, stream>>
        /\ last' = last \/ last' = Pods!LastRead
    BY DEF Pods!LoopStep, Pods!Recover, Pods!GetMessages, Pods!SubmitTask, Pods!Exit,
       Pods!ReplyLost, Pods!Sigterm, Pods!Crash, Pods!Restart, Pods!dbVars, Pods!redisVars
  <1>2. last \in Nat /\ Len(stream) \in Nat /\ last <= Len(stream) /\ ReadCount \in Nat
    BY DEF Inv, Pods!TypeOK, Pods!RedisOK, Sizes
  <1>3. last' = last \/ last' \in (last + 1) .. Len(stream)
    BY <1>1, <1>2 DEF Pods!LastRead
  <1>4. last' # last => API!Deliver
    BY <1>1, <1>3 DEF apiVars, API!Deliver, API!outboxVars, API!reqVars, API!relayVars,
       API!budgetVars
  <1> QED BY <1>1, <1>4, ApiStutters DEF API!Next

LEMMA RestIsApi ==
  ASSUME Inv, RestStep PROVE [API!Next]_(API!vars)
  <1> USE DEF RestStep
  <1>1. ASSUME NEW d \in Deployment, Pods!Sweep(d) PROVE API!Next
    <2>1. API!Sweep(d)
      BY <1>1 DEF Pods!Sweep, Pods!SetState, Pods!IndexAllows, Pods!InFlight, Pods!redisVars,
         API!Sweep, API!SetState, API!IndexAllows, API!InFlight, apiVars,
         API!outboxVars, API!streamVars, API!reqVars, API!relayVars, API!budgetVars
    <2> QED BY <2>1 DEF API!Next
  <1>2. ASSUME NEW d \in Deployment, Pods!ControllerUpdate(d) PROVE API!Next
    <2>1. Pods!Read(d) BY <1>2 DEF Inv, Pods!ReadInv, Pods!ControllerUpdate
    <2>2. UNCHANGED <<stream, last>> /\ \E s \in {"Running", "Failed"} : Pods!SetState(d, s)
      BY <1>2 DEF Pods!ControllerUpdate, Pods!redisVars
    <2> QED BY <2>1, <2>2, WriteIsAdvance
  <1>3. ASSUME NEW d \in Deployment, Pods!JobStep(d) \/ Pods!ControllerRead(d)
        PROVE  UNCHANGED API!vars
    BY <1>3, ApiStutters DEF Pods!JobStep, Pods!ControllerRead, Pods!dbVars, Pods!redisVars
  <1>4. ASSUME NEW i \in Pods!EntryId, Pods!GrowStale(i) PROVE UNCHANGED API!vars
    BY <1>4, ApiStutters DEF Pods!GrowStale, Pods!dbVars
  <1> QED BY <1>1, <1>2, <1>3, <1>4

-----------------------------------------------------------------------------
(* The API is an environment of the workers.                               *)

LEMMA PodsStutter ==
  ASSUME UNCHANGED <<state, kind, stream, last, podVars>> PROVE UNCHANGED Pods!vars
  BY DEF podVars, Pods!vars, Pods!dbVars, Pods!redisVars, Pods!k8sVars, Pods!podVars,
     Pods!threadVars, Pods!budgetVars

\* Entries of rows that exist are a batch the workers expect: the maxlen is
\* out of reach, so that nothing is trimmed.
LEMMA XAddIsRelay ==
  ASSUME Sizes, Inv, NEW s \in Seq(Deployment), \A i \in 1 .. Len(s) : state[s[i]] # "Absent",
         API!XAdd(s), UNCHANGED <<state, kind, podVars>>
  PROVE  [Pods!Next]_(Pods!vars)
  <1> DEFINE Known == {d \in Deployment : state[d] # "Absent"}
  <1>1. /\ stream \in Seq(Deployment) /\ Len(stream) \in Nat /\ Len(s) \in Nat
        /\ last \in Nat /\ MaxEntries \in Nat
    BY DEF Inv, Pods!TypeOK, Pods!RedisOK, Sizes
  <1>2. Len(stream \o s) = Len(stream) + Len(s) BY <1>1
  <1>3. stream' = stream \o s /\ Len(stream) + Len(s) <= MaxEntries /\ last' = last
    BY <1>1, <1>2 DEF API!XAdd
  <1>4. CASE Len(s) = 0
    <2>1. stream \o s = stream BY <1>1, <1>4
    <2> QED BY <1>3, <2>1, PodsStutter
  <1>5. CASE Len(s) # 0
    <2>1. Len(s) \in 1 .. MaxEntries BY <1>1, <1>3, <1>5
    <2>2. s \in [1 .. Len(s) -> Known] OBVIOUS
    <2>3. Pods!Relay(Len(s))
      BY <1>3, <2>2 DEF Pods!Relay, podVars, Pods!dbVars, Pods!k8sVars, Pods!podVars,
         Pods!threadVars, Pods!budgetVars
    <2> QED BY <2>1, <2>3 DEF Pods!Next, Pods!Environment
  <1> QED BY <1>4, <1>5

\* A new row.
LEMMA RowIsCreated ==
  ASSUME NEW d \in Deployment, state[d] = "Absent", API!SetState(d, "Queued"),
         NEW k \in Pods!Kind, kind' = [kind EXCEPT ![d] = k], UNCHANGED <<stream, last, podVars>>
  PROVE  Pods!Next
  <1>1. Pods!CreateDeployment(d, k)
    BY DEF API!SetState, API!IndexAllows, API!InFlight, Pods!SetState, Pods!IndexAllows,
       Pods!InFlight, Pods!CreateDeployment, podVars, Pods!redisVars, Pods!k8sVars,
       Pods!podVars, Pods!threadVars, Pods!budgetVars
  <1> QED BY <1>1 DEF Pods!Next, Pods!Environment

LEMMA SubmitIsPods ==
  ASSUME Sizes, Inv, NEW d \in Deployment, Submit(d), UNCHANGED podVars
  PROVE  [Pods!Next]_(Pods!vars)
  <1>1. /\ req[d] \in {"new", "insert"} => state[d] = "Absent"
        /\ req[d] \in {"xadd", "markFailed"} => state[d] # "Absent"
    BY DEF Inv, API!KeepInv, API!FreshInv
  <1>2. state \in [Deployment -> Pods!State] BY DEF Inv, Pods!TypeOK, Pods!DbOK
  <1>3. ASSUME state[d] = "Absent", API!SetState(d, "Queued"), UNCHANGED <<stream, last>>
        PROVE  Pods!Next
    <2>1. state'[d] = "Queued" BY <1>2, <1>3 DEF API!SetState
    <2>2. PICK k \in KindsOf(via'[d]) : kind' = [kind EXCEPT ![d] = k]
      BY <1>3, <2>1 DEF Submit
    <2>3. k \in Pods!Kind BY DEF KindsOf, Pods!Kind
    <2> QED BY <1>3, <2>2, <2>3, RowIsCreated
  <1>4. ASSUME UNCHANGED <<state, stream, last>> PROVE UNCHANGED Pods!vars
    <2>1. UNCHANGED kind BY <1>4 DEF Submit
    <2> QED BY <1>4, <2>1, PodsStutter
  <1>5. CASE API!CheckInFlight(d) \/ API!FindLastGood(d)
    BY <1>4, <1>5 DEF API!CheckInFlight, API!FindLastGood, API!streamVars
  <1>6. CASE API!Insert(d)
    BY <1>1, <1>3, <1>4, <1>6 DEF API!Insert, API!streamVars
  <1>7. CASE \E h \in {"webhook", "app"} : API!WebhookInsert(d, h)
    BY <1>1, <1>3, <1>7 DEF API!WebhookInsert, API!streamVars
  <1>8. CASE API!WebhookXadd(d)
    <2>1. UNCHANGED <<state, kind>> /\ state[d] # "Absent"
      BY <1>1, <1>8 DEF API!WebhookXadd, Submit
    <2>2. API!XAdd(<<d>>) \/ UNCHANGED <<stream, last>>
      BY <1>8 DEF API!WebhookXadd, API!streamVars
    <2>3. <<d>> \in Seq(Deployment) /\ \A i \in 1 .. Len(<<d>>) : <<d>>[i] = d OBVIOUS
    <2>4. CASE API!XAdd(<<d>>) BY <2>1, <2>3, <2>4, XAddIsRelay
    <2> QED BY <1>4, <2>1, <2>2, <2>4
  <1>9. CASE API!MarkFailed(d)
    <2>1. UNCHANGED <<stream, last>> /\ state[d] # "Absent"
      BY <1>1, <1>9 DEF API!MarkFailed, API!streamVars
    <2>2. CASE API!SetState(d, "Failed")
      <3>1. UNCHANGED kind BY <2>1 DEF Submit
      <3>2. Pods!MarkFailed(d)
        BY <2>1, <2>2, <3>1 DEF API!SetState, API!IndexAllows, API!InFlight, Pods!SetState,
           Pods!IndexAllows, Pods!InFlight, Pods!MarkFailed, podVars, Pods!redisVars,
           Pods!k8sVars, Pods!podVars, Pods!threadVars, Pods!budgetVars
      <3> QED BY <3>2 DEF Pods!Next, Pods!Environment
    <2> QED BY <1>4, <1>9, <2>1, <2>2 DEF API!MarkFailed
  <1> QED BY <1>5, <1>6, <1>7, <1>8, <1>9 DEF Submit, API!Request

LEMMA RelayIsPods ==
  ASSUME Sizes, Inv, NEW p \in Proc, UNCHANGED <<kind, podVars>>,
         API!RelayStep(p) \/ API!Crash(p) \/ API!Restart(p)
  PROVE  [Pods!Next]_(Pods!vars)
  <1>1. /\ UNCHANGED state
        /\ API!Pipeline(held[p]) \/ UNCHANGED <<stream, last>>
    BY DEF API!RelayStep, API!Select, API!Send, API!SendFails, API!Delete, API!Crash, API!Restart,
       API!streamVars
  <1>2. CASE API!Pipeline(held[p])
    <2>1. PICK s \in Seq(Deployment) : API!XAdd(s) /\ \A i \in 1 .. Len(s) : s[i] \in held[p]
      BY <1>2, ApiSizes, API!PipelineAddsEach DEF Inv
    <2>2. \A d \in held[p] : state[d] # "Absent"
      <3>1. held[p] \subseteq outbox /\ outbox \subseteq Deployment BY DEF Inv, API!TypeOK
      <3> QED BY <3>1 DEF Inv, API!KeepInv, API!FreshInv, API!Accepted
    <2> QED BY <1>1, <2>1, <2>2, XAddIsRelay
  <1> QED BY <1>1, <1>2, PodsStutter

-----------------------------------------------------------------------------
(* The system.                                                             *)

LEMMA StepIsApi ==
  ASSUME Sizes, Inv, [Next]_vars PROVE [API!Next]_(API!vars)
  <1>1. ASSUME ApiStep PROVE API!Next BY <1>1 DEF ApiStep, Submit, API!Next
  <1>2. CASE PodStep
    <2>1. UNCHANGED apiVars BY <1>2 DEF PodStep
    <2> QED BY <1>2, <2>1, LoopIsApi, ThreadIsApi DEF PodStep
  <1>3. CASE UNCHANGED vars BY <1>3, ApiStutters DEF vars
  <1> QED BY <1>1, <1>2, <1>3, RestIsApi DEF Next

LEMMA StepIsPods ==
  ASSUME Sizes, Inv, [Next]_vars PROVE [Pods!Next]_(Pods!vars)
  <1>1. CASE ApiStep BY <1>1, SubmitIsPods, RelayIsPods DEF ApiStep
  <1>2. CASE PodStep BY <1>2 DEF PodStep, Pods!Next
  <1>3. CASE RestStep BY <1>3 DEF RestStep, Pods!Next, Pods!Environment
  <1>4. CASE UNCHANGED vars BY <1>4, PodsStutter DEF vars
  <1> QED BY <1>1, <1>2, <1>3, <1>4 DEF Next

LEMMA InvHolds == ASSUME Sizes PROVE Spec => []Inv
  <1>1. Init => Inv BY InitInv
  <1>2. Inv /\ [Next]_vars => Inv' BY StepIsApi, StepIsPods, InvStep
  <1> QED BY <1>1, <1>2, PTL DEF Spec

\* For any number of API processes, worker pods, threads and deployments,
\* any faults and crashes on either side: nothing the workers, the
\* controller and the sweeper do surprises the API, every behaviour of the
\* system is one of Outbox (api/main.py:96-123, 639-657).
THEOREM ApiIsOutboxHolds == ASSUME Sizes PROVE Spec => ApiIsOutbox
  <1>1. Init => API!Init BY DEF Init
  <1>2. Inv /\ [Next]_vars => [API!Next]_(API!vars) BY StepIsApi
  <1> QED BY <1>1, <1>2, InvHolds, PTL DEF Spec, ApiIsOutbox, API!Spec

\* And every behaviour is one of Worker: handlers and relays add only
\* entries of rows that exist, and rows that were not there before
\* (worker/main.py:497-545, api/main.py:1423-1457).
THEOREM PodsAreWorkersHolds == ASSUME Sizes PROVE Spec => PodsAreWorkers
  <1>1. Init => Pods!Init BY DEF Init
  <1>2. Inv /\ [Next]_vars => [Pods!Next]_(Pods!vars) BY StepIsPods
  <1> QED BY <1>1, <1>2, InvHolds, PTL DEF Spec, PodsAreWorkers, Pods!Spec

\* So what was proved of either holds in the system: builds that nobody attends
\* to and duplicate entries have a cause, nothing is rolled out without an
\* image, and no permit is given back twice.
THEOREM SystemIsSafe ==
  ASSUME Sizes
  PROVE  Spec => [](/\ Pods!StrandedNeedsFaults /\ Pods!DeployedHasImage
                    /\ Pods!PermitsCoverThreads /\ API!DuplicatesNeedFaults)
  <1>1. Spec => API!Spec BY ApiIsOutboxHolds DEF ApiIsOutbox
  <1>2. Spec => Pods!Spec BY PodsAreWorkersHolds DEF PodsAreWorkers
  <1>3. API!Spec => []API!DuplicatesNeedFaults BY ApiSizes, API!DuplicatesNeedFaultsHolds
  <1>4. Pods!Spec => []Pods!StrandedNeedsFaults BY PodSizes, Pods!StrandedNeedsFaultsHolds
  <1>5. Pods!Spec => []Pods!DeployedHasImage BY PodSizes, Pods!DeployedHasImageHolds
  <1>6. Pods!Spec => []Pods!PermitsCoverThreads BY PodSizes, Pods!PermitsCoverThreadsHolds
  <1> QED BY <1>1, <1>2, <1>3, <1>4, <1>5, <1>6, PTL

\* No accepted deployment is forgotten between the transaction that wrote it
\* and the task that builds it: it needs the outbox to lose nothing and the
\* workers to acknowledge nothing they have not handled.
THEOREM AcceptedIsUnderWayHolds == ASSUME Sizes PROVE Spec => []AcceptedIsUnderWay
  <1>1. Spec => API!Spec BY ApiIsOutboxHolds DEF ApiIsOutbox
  <1>2. Spec => Pods!Spec BY PodsAreWorkersHolds DEF PodsAreWorkers
  <1>3. API!Spec => []API!OutboxLosesNothing BY ApiSizes, API!OutboxLosesNothingHolds
  <1>4. Pods!Spec => []Pods!AckedIsHandled BY PodSizes, Pods!AckedIsHandledHolds
  <1>5. Inv /\ API!OutboxLosesNothing /\ Pods!AckedIsHandled => AcceptedIsUnderWay
    <2> SUFFICES ASSUME Inv, API!OutboxLosesNothing, Pods!AckedIsHandled,
                        NEW d \in API!Outboxed, state[d] = "Queued", kind[d] # "invalid",
                        d \notin outbox
                 PROVE  \E i \in API!Positions(d) : i > last \/ i \in pel
      BY DEF AcceptedIsUnderWay
    <2>1. d \in Deployment /\ API!Positions(d) # {}
      BY DEF API!OutboxLosesNothing, API!Outboxed
    <2>2. PICK i \in 1 .. Len(stream) : stream[i] = d /\ i \in API!Positions(d)
      BY <2>1 DEF API!Positions, Inv, Pods!TypeOK, Pods!RedisOK
    <2>3. last \in Nat /\ i \in Nat /\ (i <= last => i \in 1 .. last)
      BY DEF Inv, Pods!TypeOK, Pods!RedisOK
    <2>4. i > last \/ i \in pel BY <2>2, <2>3 DEF Pods!AckedIsHandled
    <2> QED BY <2>2, <2>4
  <1> QED BY <1>1, <1>2, <1>3, <1>4, <1>5, InvHolds, PTL
====
