---------------------------- MODULE WorkerProofs ----------------------------
(* Proofs about Worker, for every number of pods, threads and deployments. *)
EXTENDS Worker, TLAPS, FiniteSetTheorems

USE DEF EntryId, Kind, Job, EarlyPc, MonitorPc, TryPc

-----------------------------------------------------------------------------
(* Type correctness.  One lemma per operation the actions are built from,  *)
(* then one per group of actions.                                          *)

LEMMA PermitsAreFinite == MaxWorkers \in Nat
  BY SlotAssumption, FS_CardinalityType DEF MaxWorkers

LEMMA ThreadOfPod == \A p \in Pod : Threads(p) \subseteq Thread
  BY DEF Threads, Thread

LEMMA PodOfThread == \A t \in Thread : t[1] \in Pod /\ t \in Threads(t[1])
  BY DEF Threads, Thread

\* A thread that is not idle works on an entry that is in the stream.
LEMMA DepType ==
  ASSUME RedisOK, ThreadOK, NEW t \in Thread, pc[t] # "idle"
  PROVE  msg[t] \in 1 .. last /\ msg[t] \in 1 .. Len(stream) /\ Dep(t) \in Deployment
  BY DEF RedisOK, ThreadOK, Dep

LEMMA GotoType ==
  ASSUME ThreadOK, NEW t \in Thread, pc[t] # "idle",
         NEW s \in ThreadPc \ {"idle"}, Goto(t, s), UNCHANGED last
  PROVE  ThreadOK'
  BY DEF ThreadOK, Goto

LEMMA ReturnType ==
  ASSUME ThreadOK, RedisOK, NEW t \in Thread, Return(t), UNCHANGED last
  PROVE  ThreadOK'
  BY DEF ThreadOK, RedisOK, Return, ThreadPc

LEMMA AckType ==
  ASSUME RedisOK, NEW i \in 1 .. last, Ack(i), UNCHANGED <<stream, last>>,
         UNCHANGED dlq \/ dlq' = dlq \cup {i}
  PROVE  RedisOK'
  BY DEF RedisOK, Ack

LEMMA SetStateType ==
  ASSUME DbOK, NEW d \in Deployment, NEW s \in State, SetState(d, s), UNCHANGED kind
  PROVE  DbOK'
  BY DEF DbOK, SetState, State

LEMMA FaultType ==
  ASSUME BudgetOK, Fault \/ NoFault
  PROVE  BudgetOK'
  BY BoundsAssumption DEF BudgetOK, Fault, NoFault, budgetVars

\* What a step leaves alone keeps its type.
LEMMA FrameType ==
  ASSUME TypeOK
  PROVE  /\ UNCHANGED dbVars => DbOK'
         /\ UNCHANGED redisVars => RedisOK'
         /\ UNCHANGED k8sVars => K8sOK'
         /\ UNCHANGED podVars /\ last' = last => PodOK'
         /\ UNCHANGED threadVars /\ last' = last => ThreadOK'
         /\ UNCHANGED budgetVars => BudgetOK'
  BY DEF TypeOK, DbOK, RedisOK, K8sOK, PodOK, ThreadOK, BudgetOK,
         dbVars, redisVars, k8sVars, podVars, threadVars, budgetVars

LEMMA TypeInit == Init => TypeOK
  BY PermitsAreFinite, BoundsAssumption
  DEF Init, TypeOK, DbOK, RedisOK, K8sOK, PodOK, ThreadOK, BudgetOK, State, LoopPc, ThreadPc

LEMMA TypeLoop ==
  ASSUME TypeOK, NEW p \in Pod, LoopStep(p)
  PROVE  TypeOK'
<1> USE FrameType DEF TypeOK
<1>1. CASE Recover(p)
  <2>1. RedisOK' BY <1>1 DEF RedisOK, Recover
  <2>2. PodOK' BY <1>1 DEF RedisOK, PodOK, Recover, LoopPc
  <2> QED BY <1>1, <2>1, <2>2 DEF Recover
<1>2. CASE GetMessages(p)
  <2>1. LastRead \in last .. Len(stream)
    BY ReadCountAssumption DEF RedisOK, LastRead
  <2>2. NextEntries \subseteq 1 .. LastRead
    BY <2>1 DEF RedisOK, NextEntries
  <2>3. RedisOK' BY <1>2, <2>1, <2>2 DEF RedisOK, GetMessages
  <2>4. PodOK' BY <1>2, <2>1, <2>2 DEF RedisOK, PodOK, GetMessages, LoopPc
  <2>5. ThreadOK' BY <1>2, <2>1 DEF RedisOK, ThreadOK, GetMessages, threadVars
  <2> QED BY <1>2, <2>3, <2>4, <2>5 DEF GetMessages
<1>3. CASE SubmitTask(p)
  <2> PICK t \in Threads(p), i \in batch[p] :
        /\ pc' = [pc EXCEPT ![t] = "start"]
        /\ msg' = [msg EXCEPT ![t] = i]
        /\ batch' = [batch EXCEPT ![p] = @ \ {i}]
    BY <1>3 DEF SubmitTask
  <2>1. PodOK' BY <1>3 DEF PodOK, SubmitTask, redisVars, LoopPc
  <2>2. ThreadOK'
    BY <1>3, ThreadOfPod DEF PodOK, RedisOK, ThreadOK, SubmitTask, redisVars, ThreadPc
  <2> QED BY <1>3, <2>1, <2>2 DEF SubmitTask
<1>4. CASE Exit(p)
  <2>1. PodOK' BY <1>4 DEF PodOK, Exit, LoopPc, redisVars
  <2> QED BY <1>4, <2>1 DEF Exit, redisVars
<1> QED BY <1>1, <1>2, <1>3, <1>4 DEF LoopStep

LEMMA TypeEarly ==
  ASSUME TypeOK, NEW t \in Thread, EarlyStep(t)
  PROVE  TypeOK'
<1> USE FrameType DEF TypeOK
<1>1. CASE RejectInvalid(t)
  <2>1. RedisOK' BY <1>1, DepType, AckType DEF RejectInvalid
  <2>2. ThreadOK' BY <1>1, ReturnType DEF RejectInvalid
  <2> QED BY <1>1, <2>1, <2>2, FaultType DEF RejectInvalid
<1>2. CASE ReadDeployment(t)
  <2>1. PICK s \in {"ackReturn", "rbSet", "prepare"} : Goto(t, s)
    BY <1>2 DEF ReadDeployment
  <2>2. ThreadOK' BY <1>2, <2>1, GotoType DEF ReadDeployment, ThreadPc, redisVars
  <2> QED BY <1>2, <2>2, FaultType DEF ReadDeployment, redisVars
<1>3. CASE AdvanceRollback(t)
  <2>1. DbOK' BY <1>3, DepType, SetStateType DEF AdvanceRollback, State
  <2>2. ThreadOK' BY <1>3, GotoType DEF AdvanceRollback, ThreadPc, redisVars
  <2> QED BY <1>3, <2>1, <2>2, FaultType DEF AdvanceRollback, redisVars
<1>4. CASE AckReturn(t)
  <2>1. RedisOK' BY <1>4, DepType, AckType DEF AckReturn
  <2>2. ThreadOK' BY <1>4, ReturnType DEF AckReturn
  <2> QED BY <1>4, <2>1, <2>2, FaultType DEF AckReturn
<1>5. CASE EarlyError(t)
  <2>1. ThreadOK' BY <1>5, ReturnType DEF EarlyError, redisVars
  <2> QED BY <1>5, <2>1, FaultType DEF EarlyError, redisVars
<1> QED BY <1>1, <1>2, <1>3, <1>4, <1>5 DEF EarlyStep

LEMMA TypeTry ==
  ASSUME TypeOK, NEW t \in Thread, TryStep(t)
  PROVE  TypeOK'
<1> USE FrameType DEF TypeOK
<1>1. CASE Prepare(t)
  <2>1. K8sOK' BY <1>1, DepType DEF Prepare, K8sOK
  <2>2. ThreadOK' BY <1>1, GotoType DEF Prepare, ThreadPc, redisVars
  <2> QED BY <1>1, <2>1, <2>2, FaultType DEF Prepare, redisVars
<1>2. CASE AckBuilt(t)
  <2>1. RedisOK' BY <1>2, DepType, AckType DEF AckBuilt, RedisOK
  <2>2. ThreadOK' BY <1>2, GotoType DEF AckBuilt, ThreadPc
  <2> QED BY <1>2, <2>1, <2>2, FaultType DEF AckBuilt
<1>3. CASE FailTask(t)
  <2>1. DbOK' BY <1>3, DepType, SetStateType DEF FailTask, State, DbOK
  <2>2. ThreadOK' BY <1>3, GotoType DEF FailTask, ThreadPc, redisVars
  <2> QED BY <1>3, <2>1, <2>2, FaultType DEF FailTask, redisVars
<1>4. CASE DeadLetter(t)
  <2>1. RedisOK' BY <1>4, DepType, AckType DEF DeadLetter, RedisOK
  <2>2. ThreadOK' BY <1>4, GotoType DEF DeadLetter, ThreadPc
  <2> QED BY <1>4, <2>1, <2>2, FaultType DEF DeadLetter
<1>5. CASE Release(t)
  <2>1. PodOK' BY <1>5, PodOfThread DEF Release, PodOK, redisVars
  <2>2. ThreadOK' BY <1>5, ReturnType DEF Release, redisVars
  <2> QED BY <1>5, <2>1, <2>2, FaultType DEF Release, redisVars
<1> QED BY <1>1, <1>2, <1>3, <1>4, <1>5 DEF TryStep

LEMMA TypeMonitor ==
  ASSUME TypeOK, NEW t \in Thread, MonitorStep(t)
  PROVE  TypeOK'
<1> USE FrameType DEF TypeOK
<1>1. CASE WatchPod(t)
  <2>1. PICK s \in {"monFailed", "setBuilding"} : Goto(t, s)
    BY <1>1 DEF WatchPod
  <2>2. ThreadOK' BY <1>1, <2>1, GotoType DEF WatchPod, ThreadPc, redisVars
  <2> QED BY <1>1, <2>2, FaultType DEF WatchPod, redisVars
<1>2. CASE SetBuilding(t)
  <2>1. DbOK' BY <1>2, DepType, SetStateType DEF SetBuilding, State
  <2>2. ThreadOK' BY <1>2, GotoType DEF SetBuilding, ThreadPc, redisVars
  <2> QED BY <1>2, <2>1, <2>2, FaultType DEF SetBuilding, redisVars
<1>3. CASE WatchJob(t)
  <2>1. ThreadOK' BY <1>3, GotoType DEF WatchJob, ThreadPc, redisVars
  <2> QED BY <1>3, <2>1, FaultType DEF WatchJob, redisVars
<1>4. CASE SetDeploying(t)
  <2>1. DbOK' BY <1>4, DepType, SetStateType DEF SetDeploying, State
  <2>2. ThreadOK' BY <1>4, GotoType DEF SetDeploying, ThreadPc, redisVars
  <2> QED BY <1>4, <2>1, <2>2, FaultType DEF SetDeploying, redisVars
<1>5. CASE SetFailed(t)
  <2>1. DbOK' BY <1>5, DepType, SetStateType DEF SetFailed, State
  <2>2. ThreadOK' BY <1>5, GotoType DEF SetFailed, ThreadPc, redisVars
  <2> QED BY <1>5, <2>1, <2>2, FaultType DEF SetFailed, redisVars
<1>6. CASE MonitorError(t)
  <2>1. ThreadOK' BY <1>6, GotoType DEF MonitorError, ThreadPc, redisVars
  <2> QED BY <1>6, <2>1, FaultType DEF MonitorError, redisVars
<1>7. CASE MonitorFailed(t)
  <2>1. DbOK' BY <1>7, DepType, SetStateType DEF MonitorFailed, State, DbOK
  <2>2. ThreadOK' BY <1>7, GotoType DEF MonitorFailed, ThreadPc, redisVars
  <2> QED BY <1>7, <2>1, <2>2, FaultType DEF MonitorFailed, redisVars
<1>8. CASE CleanJob(t)
  <2>1. K8sOK' BY <1>8, DepType DEF CleanJob, K8sOK
  <2>2. PICK s \in {"ack", "except"} : Goto(t, s)
    BY <1>8 DEF CleanJob
  <2>3. ThreadOK' BY <1>8, <2>2, GotoType DEF CleanJob, ThreadPc, redisVars
  <2> QED BY <1>8, <2>1, <2>3, FaultType DEF CleanJob, redisVars
<1> QED BY <1>1, <1>2, <1>3, <1>4, <1>5, <1>6, <1>7, <1>8 DEF MonitorStep

LEMMA TypePod ==
  ASSUME TypeOK, NEW p \in Pod,
         ReplyLost(p) \/ Sigterm(p) \/ Crash(p) \/ Restart(p)
  PROVE  TypeOK'
<1> USE FrameType DEF TypeOK
<1>1. CASE ReplyLost(p)
  <2>1. LastRead \in last .. Len(stream) /\ NextEntries \subseteq 1 .. LastRead
    BY ReadCountAssumption DEF RedisOK, LastRead, NextEntries
  <2>2. RedisOK'
    <3>1. CASE loop[p] = "recover" /\ stale' = {} /\ UNCHANGED <<last, pel>>
      BY <1>1, <3>1 DEF RedisOK, ReplyLost
    <3>2. CASE last' = LastRead /\ pel' = pel \cup NextEntries /\ UNCHANGED stale
      BY <1>1, <2>1, <3>2 DEF RedisOK, ReplyLost
    <3> QED BY <1>1, <3>1, <3>2 DEF ReplyLost
  <2>3. last' \in Nat /\ last <= last'
    BY <1>1, <2>1 DEF RedisOK, ReplyLost
  <2>4. PodOK' BY <1>1, <2>3 DEF RedisOK, PodOK, ReplyLost, LoopPc
  <2>5. ThreadOK' BY <1>1, <2>3 DEF RedisOK, ThreadOK, ReplyLost, threadVars
  <2> QED BY <1>1, <2>2, <2>4, <2>5, FaultType DEF ReplyLost
<1>2. CASE Sigterm(p)
  <2>1. PodOK' BY <1>2 DEF PodOK, Sigterm, redisVars
  <2>2. BudgetOK' BY <1>2, BoundsAssumption DEF BudgetOK, Sigterm
  <2> QED BY <1>2, <2>1, <2>2 DEF Sigterm, redisVars
<1>3. CASE Crash(p)
  <2>1. PodOK' BY <1>3 DEF PodOK, Crash, redisVars, LoopPc
  <2>2. ThreadOK' BY <1>3 DEF RedisOK, ThreadOK, Crash, redisVars, ThreadPc
  <2>3. BudgetOK' BY <1>3, BoundsAssumption DEF BudgetOK, Crash
  <2> QED BY <1>3, <2>1, <2>2, <2>3 DEF Crash
<1>4. CASE Restart(p)
  <2>1. PodOK' BY <1>4, PermitsAreFinite DEF PodOK, Restart, redisVars, LoopPc
  <2> QED BY <1>4, <2>1 DEF Restart, redisVars
<1> QED BY <1>1, <1>2, <1>3, <1>4

LEMMA Concatenation ==
  ASSUME NEW S, NEW a \in Seq(S), NEW b \in Seq(S)
  PROVE  /\ a \o b \in Seq(S) /\ Len(a \o b) = Len(a) + Len(b)
         /\ \A i \in 1 .. Len(a) : (a \o b)[i] = a[i]
         /\ \A i \in 1 .. Len(b) : (a \o b)[Len(a) + i] = b[i]
  OBVIOUS

\* The API adds entries of rows that exist behind the ones there are.
LEMMA RelayAppends ==
  ASSUME RedisOK, NEW n \in 1 .. MaxEntries, Relay(n)
  PROVE  /\ stream' \in Seq(Deployment) /\ Len(stream') = Len(stream) + n
         /\ \A i \in 1 .. Len(stream) : stream'[i] = stream[i]
         /\ \A i \in 1 .. Len(stream') : i \in 1 .. Len(stream) \/ state[stream'[i]] # "Absent"
<1> DEFINE Known == {d \in Deployment : state[d] # "Absent"}
<1>1. n \in Nat
  BY BoundsAssumption
<1>2. PICK s \in [1 .. n -> Known] : stream' = stream \o s
  BY DEF Relay
<1>3. s \in Seq(Known) /\ Len(s) = n /\ \A i \in 1 .. n : s[i] \in Known
  BY <1>1, <1>2
<1>4. s \in Seq(Deployment) /\ stream \in Seq(Deployment) /\ Len(stream) \in Nat
  BY <1>1, <1>2 DEF RedisOK
<1>5. /\ stream' \in Seq(Deployment) /\ Len(stream') = Len(stream) + n
      /\ \A i \in 1 .. Len(stream) : stream'[i] = stream[i]
      /\ \A i \in 1 .. n : stream'[Len(stream) + i] = s[i]
  <2>1. /\ stream \o s \in Seq(Deployment) /\ Len(stream \o s) = Len(stream) + Len(s)
        /\ \A i \in 1 .. Len(stream) : (stream \o s)[i] = stream[i]
        /\ \A i \in 1 .. Len(s) : (stream \o s)[Len(stream) + i] = s[i]
    BY <1>4, Concatenation
  <2>2. Len(s) = n
    BY <1>3
  <2> QED BY <1>2, <2>1, <2>2
<1>6. ASSUME NEW i \in 1 .. Len(stream'), i \notin 1 .. Len(stream)
      PROVE  state[stream'[i]] # "Absent"
  <2>1. i - Len(stream) \in 1 .. n /\ stream'[i] = s[i - Len(stream)]
    BY <1>1, <1>4, <1>5, <1>6
  <2> QED BY <2>1, <1>3
<1> QED BY <1>5, <1>6

LEMMA TypeEnvironment ==
  ASSUME TypeOK, Environment
  PROVE  TypeOK'
<1> USE FrameType DEF TypeOK
<1>1. CASE \E d \in Deployment, k \in Kind : CreateDeployment(d, k)
  BY <1>1 DEF CreateDeployment, SetState, DbOK, State, redisVars
<1>2. CASE \E n \in 1 .. MaxEntries : Relay(n)
  <2> PICK n \in 1 .. MaxEntries : Relay(n) BY <1>2
  <2>1. stream' \in Seq(Deployment) /\ Len(stream) \in Nat /\ Len(stream) <= Len(stream')
    BY RelayAppends, BoundsAssumption DEF RedisOK
  <2>2. RedisOK' BY <2>1 DEF Relay, RedisOK
  <2> QED BY <2>2 DEF Relay
<1>3. CASE \E d \in Deployment : Sweep(d) \/ MarkFailed(d)
  <2>1. UNCHANGED kind /\ \E d \in Deployment : SetState(d, "Failed")
    BY <1>3 DEF Sweep, MarkFailed
  <2>2. DbOK' BY <2>1, SetStateType DEF State
  <2> QED BY <1>3, <2>2 DEF Sweep, MarkFailed, redisVars
<1>4. CASE \E d \in Deployment : ControllerUpdate(d)
  BY <1>4, SetStateType DEF ControllerUpdate, State, redisVars
<1>5. CASE \E d \in Deployment : JobStep(d)
  <2>1. K8sOK' BY <1>5 DEF JobStep, K8sOK
  <2> QED BY <1>5, <2>1 DEF JobStep, redisVars
<1>6. CASE \E i \in EntryId : GrowStale(i)
  <2>1. RedisOK' BY <1>6 DEF GrowStale, RedisOK
  <2> QED BY <1>6, <2>1 DEF GrowStale
<1>7. CASE \E d \in Deployment : ControllerRead(d)
  <2>1. K8sOK' BY <1>7 DEF ControllerRead, K8sOK
  <2> QED BY <1>7, <2>1 DEF ControllerRead, redisVars
<1> QED BY <1>1, <1>2, <1>3, <1>4, <1>5, <1>6, <1>7 DEF Environment

LEMMA TypeStutter == TypeOK /\ UNCHANGED vars => TypeOK'
  BY FrameType DEF TypeOK, vars, redisVars

LEMMA TypeStep == TypeOK /\ [Next]_vars => TypeOK'
  BY TypeLoop, TypeEarly, TypeTry, TypeMonitor, TypePod, TypeEnvironment, TypeStutter
  DEF Next, ThreadStep

\* Every reachable state is well typed, whatever the bounds are.
THEOREM TypeCorrect == Spec => []TypeOK
  BY TypeInit, TypeStep, PTL DEF Spec

-----------------------------------------------------------------------------
(* An acknowledged message has been handled.  The argument: a row never    *)
(* returns to Queued, every entry of the stream has a row, and a thread    *)
(* that is about to acknowledge has seen its row leave Queued.             *)

\* Where a thread knows that the row of its deployment has left Queued.
HandledPc == {"ackReturn", "watchJob", "setDeploying", "setFailed", "cleanJob", "ack", "dlq"}

HandledInv == /\ \A i \in 1 .. Len(stream) : state[stream[i]] # "Absent"
              /\ \A t \in Thread : pc[t] \in HandledPc => state[Dep(t)] # "Queued"
              /\ AckedIsHandled

\* Rows are inserted once and never return to Queued.
RowsAdvance ==
  \A d \in Deployment : state[d] # "Absent" =>
     /\ state'[d] # "Absent" /\ kind'[d] = kind[d]
     /\ state'[d] = "Queued" => state[d] = "Queued"

LEMMA SetStateAdvances ==
  ASSUME DbOK, NEW d \in Deployment, NEW s \in State \ {"Absent", "Queued"},
         SetState(d, s), UNCHANGED kind
  PROVE  RowsAdvance
  BY DEF DbOK, SetState, RowsAdvance

LEMMA UnchangedAdvances == UNCHANGED dbVars => RowsAdvance
  BY DEF RowsAdvance, dbVars

LEMMA RowsAdvanceStep ==
  ASSUME TypeOK, Next
  PROVE  RowsAdvance
<1> USE SetStateAdvances, UnchangedAdvances, DepType DEF TypeOK, State
<1>1. CASE \E p \in Pod : LoopStep(p) \/ ReplyLost(p) \/ Sigterm(p) \/ Crash(p) \/ Restart(p)
  BY <1>1 DEF LoopStep, Recover, GetMessages, SubmitTask, Exit, ReplyLost, Sigterm, Crash, Restart
<1>2. CASE \E t \in Thread : EarlyStep(t)
  BY <1>2 DEF EarlyStep, RejectInvalid, ReadDeployment, AdvanceRollback, AckReturn, EarlyError
<1>3. CASE \E t \in Thread : TryStep(t)
  BY <1>3 DEF TryStep, Prepare, AckBuilt, FailTask, DeadLetter, Release, dbVars
<1>4. CASE \E t \in Thread : MonitorStep(t)
  BY <1>4 DEF MonitorStep, WatchPod, SetBuilding, WatchJob, SetDeploying, SetFailed,
              MonitorError, MonitorFailed, CleanJob, dbVars
<1>5. CASE Environment
  <2>1. CASE \E d \in Deployment, k \in Kind : CreateDeployment(d, k)
    BY <2>1 DEF CreateDeployment, SetState, DbOK, RowsAdvance
  <2> QED BY <1>5, <2>1 DEF Environment, Relay, MarkFailed, Sweep, ControllerRead, ControllerUpdate,
                    JobStep, GrowStale
<1> QED BY <1>1, <1>2, <1>3, <1>4, <1>5 DEF Next, ThreadStep

\* The obligations a step has that leaves the stream alone: a thread that
\* arrives where it may acknowledge has seen its row leave Queued, and so has
\* one that acknowledges.
LEMMA HandledKept ==
  ASSUME TypeOK, HandledInv, RowsAdvance, UNCHANGED <<stream, last>>,
         \A t \in Thread : pc'[t] \in HandledPc =>
            /\ pc[t] # "idle" /\ msg'[t] = msg[t]
            /\ pc[t] \in HandledPc \/ state'[Dep(t)] # "Queued",
         \A i \in (1 .. last) \cap (pel \ pel') :
            state[stream[i]] = "Queued" => kind[stream[i]] = "invalid"
  PROVE  HandledInv'
<1>1. \A i \in 1 .. Len(stream) : state'[stream[i]] # "Absent"
  BY DEF TypeOK, RedisOK, HandledInv, RowsAdvance
<1>2. ASSUME NEW t \in Thread, pc'[t] \in HandledPc
      PROVE  state'[stream[msg'[t]]] # "Queued"
  <2>1. pc[t] # "idle" /\ msg'[t] = msg[t] /\ Dep(t) \in Deployment /\ msg[t] \in 1 .. Len(stream)
    BY <1>2, DepType DEF TypeOK
  <2> QED BY <1>2, <2>1 DEF HandledInv, RowsAdvance, Dep
<1>3. ASSUME NEW i \in (1 .. last) \ pel', state'[stream[i]] = "Queued"
      PROVE  kind'[stream[i]] = "invalid"
  <2>1. stream[i] \in Deployment /\ i \in 1 .. Len(stream)
    BY DEF TypeOK, RedisOK
  <2> QED BY <1>3, <2>1 DEF HandledInv, RowsAdvance, AckedIsHandled
<1> QED BY <1>1, <1>2, <1>3 DEF HandledInv, AckedIsHandled, Dep

LEMMA HandledLoop ==
  ASSUME TypeOK, HandledInv, RowsAdvance, NEW p \in Pod,
         LoopStep(p) \/ ReplyLost(p) \/ Sigterm(p) \/ Crash(p) \/ Restart(p)
  PROVE  HandledInv'
<1>1. CASE GetMessages(p) \/ ReplyLost(p)
  <2>1. LastRead \in last .. Len(stream) /\ NextEntries = (last + 1) .. LastRead
    BY ReadCountAssumption DEF TypeOK, RedisOK, LastRead, NextEntries
  <2>2. (1 .. last') \ pel' \subseteq (1 .. last) \ pel
    BY <1>1, <2>1 DEF GetMessages, ReplyLost, TypeOK, RedisOK
  <2>3. UNCHANGED <<stream, threadVars, dbVars>>
    BY <1>1 DEF GetMessages, ReplyLost
  <2> QED BY <2>2, <2>3 DEF HandledInv, AckedIsHandled, Dep, threadVars, dbVars
<1>2. CASE SubmitTask(p)
  BY <1>2, HandledKept DEF SubmitTask, redisVars, TypeOK, ThreadOK, HandledPc
<1>3. CASE Recover(p) \/ Exit(p) \/ Sigterm(p) \/ Restart(p)
  BY <1>3, HandledKept DEF Recover, Exit, Sigterm, Restart, redisVars, threadVars, HandledPc
<1>4. CASE Crash(p)
  BY <1>4, HandledKept DEF Crash, redisVars, HandledPc
<1> QED BY <1>1, <1>2, <1>3, <1>4 DEF LoopStep

LEMMA HandledThread ==
  ASSUME TypeOK, HandledInv, RowsAdvance, NEW t \in Thread, ThreadStep(t)
  PROVE  HandledInv'
<1> USE HandledKept DEF TypeOK, ThreadOK, DbOK
<1>1. pc[t] # "idle" /\ msg[t] \in 1 .. Len(stream) /\ Dep(t) \in Deployment
      /\ stream[msg[t]] = Dep(t)
  BY DepType DEF ThreadStep, EarlyStep, TryStep, MonitorStep, RejectInvalid, ReadDeployment,
     AdvanceRollback, AckReturn, EarlyError, Prepare, AckBuilt, FailTask, DeadLetter, Release,
     WatchPod, SetBuilding, WatchJob, SetDeploying, SetFailed, MonitorError, MonitorFailed,
     CleanJob, Dep
<1>2. CASE EarlyStep(t)
  <2>1. CASE RejectInvalid(t)
    BY <1>1, <2>1 DEF RejectInvalid, Ack, Return, HandledPc
  <2>2. CASE ReadDeployment(t)
    BY <1>1, <2>2 DEF ReadDeployment, Goto, HandledPc, redisVars, dbVars, AlreadyHandled
  <2>3. CASE AdvanceRollback(t)
    BY <1>1, <2>3 DEF AdvanceRollback, Goto, HandledPc, redisVars, SetState
  <2>4. CASE AckReturn(t)
    BY <1>1, <2>4 DEF AckReturn, Ack, Return, HandledPc, HandledInv
  <2>5. CASE EarlyError(t)
    BY <1>1, <2>5 DEF EarlyError, Return, HandledPc, redisVars
  <2> QED BY <1>2, <2>1, <2>2, <2>3, <2>4, <2>5 DEF EarlyStep
<1>3. CASE TryStep(t)
  <2>1. CASE Prepare(t) \/ Release(t)
    BY <1>1, <2>1 DEF Prepare, Release, Goto, Return, HandledPc, redisVars
  <2>2. CASE AckBuilt(t)
    BY <1>1, <2>2 DEF AckBuilt, Ack, Goto, HandledPc, HandledInv
  <2>3. CASE FailTask(t)
    BY <1>1, <2>3 DEF FailTask, Goto, HandledPc, redisVars, SetState
  <2>4. CASE DeadLetter(t)
    BY <1>1, <2>4 DEF DeadLetter, Ack, Goto, HandledPc, HandledInv
  <2> QED BY <1>3, <2>1, <2>2, <2>3, <2>4 DEF TryStep
<1>4. CASE MonitorStep(t)
  <2>1. CASE WatchPod(t) \/ MonitorError(t)
    BY <1>1, <2>1 DEF WatchPod, MonitorError, Goto, HandledPc, redisVars
  <2>2. CASE SetBuilding(t)
    BY <1>1, <2>2 DEF SetBuilding, Goto, HandledPc, redisVars, SetState
  <2>3. CASE WatchJob(t)
    BY <1>1, <2>3 DEF WatchJob, Goto, HandledPc, redisVars
  <2>4. CASE SetDeploying(t)
    BY <1>1, <2>4 DEF SetDeploying, Goto, HandledPc, redisVars, SetState
  <2>5. CASE SetFailed(t)
    BY <1>1, <2>5 DEF SetFailed, Goto, HandledPc, redisVars, SetState
  <2>6. CASE MonitorFailed(t)
    BY <1>1, <2>6 DEF MonitorFailed, Goto, HandledPc, redisVars, SetState
  <2>7. CASE CleanJob(t)
    BY <1>1, <2>7 DEF CleanJob, Goto, HandledPc, redisVars
  <2> QED BY <1>4, <2>1, <2>2, <2>3, <2>4, <2>5, <2>6, <2>7 DEF MonitorStep
<1> QED BY <1>2, <1>3, <1>4 DEF ThreadStep

LEMMA HandledEnvironment ==
  ASSUME TypeOK, HandledInv, RowsAdvance, Environment
  PROVE  HandledInv'
<1>1. CASE \E n \in 1 .. MaxEntries : Relay(n)
  <2> PICK n \in 1 .. MaxEntries : Relay(n) BY <1>1
  <2>1. /\ \A i \in 1 .. Len(stream) : stream'[i] = stream[i]
        /\ \A i \in 1 .. Len(stream') : i \in 1 .. Len(stream) \/ state[stream'[i]] # "Absent"
    BY RelayAppends DEF TypeOK
  <2>2. UNCHANGED <<threadVars, dbVars, last, pel>>
    BY DEF Relay
  <2>3. \A t \in Thread : pc[t] # "idle" => Dep(t)' = Dep(t)
    BY <2>1, <2>2, DepType DEF TypeOK, Dep, threadVars
  <2>4. \A t \in Thread : pc'[t] \in HandledPc => state'[Dep(t)'] # "Queued"
    BY <2>2, <2>3 DEF HandledInv, HandledPc, threadVars, dbVars
  <2>5. AckedIsHandled'
    BY <2>1, <2>2 DEF HandledInv, AckedIsHandled, dbVars, TypeOK, RedisOK
  <2>6. \A i \in 1 .. Len(stream') : state'[stream'[i]] # "Absent"
    BY <2>1, <2>2 DEF HandledInv, dbVars, TypeOK, RedisOK
  <2> QED BY <2>4, <2>5, <2>6 DEF HandledInv
<1>2. CASE UNCHANGED <<stream, last, pel, threadVars>>
  BY <1>2, HandledKept DEF threadVars, HandledPc
<1> QED BY <1>1, <1>2 DEF Environment, CreateDeployment, MarkFailed, Sweep, ControllerRead,
           ControllerUpdate, JobStep, GrowStale, redisVars

LEMMA HandledInvHolds == Spec => []HandledInv
<1>1. Init => HandledInv
  BY DEF Init, HandledInv, AckedIsHandled, HandledPc
<1>2. TypeOK /\ HandledInv /\ [Next]_vars => HandledInv'
  <2>1. CASE UNCHANGED vars
    BY <2>1 DEF vars, redisVars, dbVars, threadVars, HandledInv, AckedIsHandled, Dep
  <2> QED BY <2>1, RowsAdvanceStep, HandledLoop, HandledThread, HandledEnvironment DEF Next
<1> QED BY <1>1, <1>2, TypeCorrect, PTL DEF Spec

\* No message is acknowledged while its deployment still waits in Queued.
THEOREM AckedIsHandledHolds == Spec => []AckedIsHandled
  BY HandledInvHolds, PTL DEF HandledInv

-----------------------------------------------------------------------------
(* What is rolled out was built.  The argument: a Job that succeeded has   *)
(* pushed its image, images stay, a thread reaches setDeploying only past  *)
(* such a Job, rbSet only with a rollback, and a controller updates only   *)
(* what was rolled out.                                                    *)

ImageInv == /\ DeployedHasImage
            /\ \A d \in Deployment : job[d] = "Succeeded" => image[d]
            /\ \A t \in Thread : pc[t] = "setDeploying" => image[Dep(t)]
            /\ \A t \in Thread : pc[t] = "rbSet" => kind[Dep(t)] = "rollback"
            /\ \A d \in Deployment : d \in seen =>
                 state[d] # "Absent" /\ (image[d] \/ kind[d] = "rollback")

\* A step keeps ImageInv if threads reach the two control points rightly,
\* rows reach Deploying and Running rightly, and images stay.
LEMMA ImageKept ==
  ASSUME TypeOK, HandledInv, RowsAdvance, ImageInv, UNCHANGED stream \/ UNCHANGED threadVars,
         \A i \in 1 .. Len(stream) : stream'[i] = stream[i],
         \A d \in Deployment :
            /\ image[d] => image'[d]
            /\ job'[d] = "Succeeded" => image'[d]
            /\ d \in seen' => d \in seen \/ state[d] = "Deploying"
            /\ state'[d] \in {"Deploying", "Running"} =>
                 \/ state[d] \in {"Deploying", "Running"}
                 \/ image[d] \/ kind'[d] = "rollback",
         \A t \in Thread : pc'[t] \in {"setDeploying", "rbSet"} =>
            /\ pc[t] # "idle" /\ msg'[t] = msg[t]
            /\ \/ pc[t] = pc'[t]
               \/ pc'[t] = "setDeploying" /\ image[Dep(t)]
               \/ pc'[t] = "rbSet" /\ kind[Dep(t)] = "rollback"
  PROVE  ImageInv'
<1>1. \A d \in Deployment : state'[d] \in {"Deploying", "Running"} =>
                              image'[d] \/ kind'[d] = "rollback"
  BY DEF ImageInv, DeployedHasImage, RowsAdvance
<1>2. ASSUME NEW t \in Thread, pc'[t] \in {"setDeploying", "rbSet"}
      PROVE  /\ pc'[t] = "setDeploying" => image'[stream'[msg'[t]]]
             /\ pc'[t] = "rbSet" => kind'[stream'[msg'[t]]] = "rollback"
  <2>1. /\ msg'[t] = msg[t] /\ Dep(t) \in Deployment /\ msg[t] \in 1 .. Len(stream)
        /\ stream'[msg'[t]] = Dep(t) /\ state[Dep(t)] # "Absent"
    BY <1>2, DepType DEF TypeOK, Dep, HandledInv
  <2> QED BY <1>2, <2>1 DEF ImageInv, RowsAdvance
<1>3. \A d \in Deployment : d \in seen' =>
       state'[d] # "Absent" /\ (image'[d] \/ kind'[d] = "rollback")
  BY DEF ImageInv, DeployedHasImage, RowsAdvance
<1>4. DeployedHasImage'
  BY <1>1 DEF DeployedHasImage
<1>5. \A d \in Deployment : job'[d] = "Succeeded" => image'[d]
  OBVIOUS
<1> QED BY <1>2, <1>3, <1>4, <1>5 DEF ImageInv, Dep

LEMMA ImageStep ==
  ASSUME TypeOK, HandledInv, RowsAdvance, ImageInv, Next
  PROVE  ImageInv'
<1> USE ImageKept DEF TypeOK, ThreadOK, DbOK, K8sOK, dbVars, k8sVars, redisVars, threadVars
<1>1. CASE \E p \in Pod : LoopStep(p) \/ ReplyLost(p) \/ Sigterm(p) \/ Crash(p) \/ Restart(p)
  <2>1. UNCHANGED <<state, kind, job, image, seen, stream>>
    BY <1>1 DEF LoopStep, Recover, GetMessages, SubmitTask, Exit, ReplyLost, Sigterm, Crash, Restart
  <2>2. \A t \in Thread : pc'[t] \in {"setDeploying", "rbSet"} => pc'[t] = pc[t] /\ msg'[t] = msg[t]
    BY <1>1 DEF LoopStep, Recover, GetMessages, SubmitTask, Exit, ReplyLost, Sigterm, Crash, Restart
  <2> QED BY <2>1, <2>2 DEF ImageInv
<1>2. CASE \E t \in Thread : ThreadStep(t)
  <2> PICK t \in Thread : ThreadStep(t) BY <1>2
  <2>1. pc[t] # "idle" /\ Dep(t) \in Deployment
    BY DepType DEF ThreadStep, EarlyStep, TryStep, MonitorStep, RejectInvalid, ReadDeployment,
       AdvanceRollback, AckReturn, EarlyError, Prepare, AckBuilt, FailTask, DeadLetter, Release,
       WatchPod, SetBuilding, WatchJob, SetDeploying, SetFailed, MonitorError, MonitorFailed,
       CleanJob
  <2>2. UNCHANGED <<stream, image, seen>>
    BY DEF ThreadStep, EarlyStep, TryStep, MonitorStep, RejectInvalid, ReadDeployment,
       AdvanceRollback, AckReturn, EarlyError, Prepare, AckBuilt, FailTask, DeadLetter, Release,
       WatchPod, SetBuilding, WatchJob, SetDeploying, SetFailed, MonitorError, MonitorFailed,
       CleanJob
  <2>3. CASE RejectInvalid(t) \/ AckReturn(t) \/ EarlyError(t) \/ Release(t)
    BY <2>1, <2>2, <2>3 DEF RejectInvalid, AckReturn, EarlyError, Release, Return, ImageInv
  <2>4. CASE ReadDeployment(t)
    BY <2>1, <2>2, <2>4 DEF ReadDeployment, Goto, ImageInv
  <2>5. CASE AdvanceRollback(t)
    BY <2>1, <2>2, <2>5 DEF AdvanceRollback, SetState, Goto, ImageInv
  <2>6. CASE Prepare(t) \/ CleanJob(t)
    BY <2>1, <2>2, <2>6 DEF Prepare, CleanJob, Goto, ImageInv
  <2>7. CASE AckBuilt(t) \/ DeadLetter(t) \/ WatchPod(t) \/ MonitorError(t)
    BY <2>1, <2>2, <2>7 DEF AckBuilt, DeadLetter, WatchPod, MonitorError, Goto, ImageInv
  <2>8. CASE FailTask(t) \/ SetFailed(t) \/ MonitorFailed(t) \/ SetBuilding(t)
    BY <2>1, <2>2, <2>8 DEF FailTask, SetFailed, MonitorFailed, SetBuilding, SetState, Goto, ImageInv
  <2>9. CASE WatchJob(t)
    BY <2>1, <2>2, <2>9 DEF WatchJob, Goto, ImageInv
  <2>10. CASE SetDeploying(t)
    BY <2>1, <2>2, <2>10 DEF SetDeploying, SetState, Goto, ImageInv
  <2> QED BY <2>3, <2>4, <2>5, <2>6, <2>7, <2>8, <2>9, <2>10
          DEF ThreadStep, EarlyStep, TryStep, MonitorStep
<1>3. CASE Environment
  <2>1. UNCHANGED threadVars /\ \A i \in 1 .. Len(stream) : stream'[i] = stream[i]
    BY <1>3, RelayAppends DEF Environment, CreateDeployment, Relay, MarkFailed, Sweep,
       ControllerRead, ControllerUpdate, JobStep, GrowStale
  <2>2. \A t \in Thread : pc'[t] = pc[t] /\ msg'[t] = msg[t]
    BY <2>1
  <2>3. CASE \E d \in Deployment : JobStep(d)
    BY <2>1, <2>2, <2>3 DEF JobStep, ImageInv
  <2>4. CASE UNCHANGED k8sVars
    <3>1. CASE \E d \in Deployment : ControllerUpdate(d)
      <4> PICK d \in Deployment : ControllerUpdate(d) BY <3>1
      <4>1. /\ d \in seen /\ UNCHANGED kind
            /\ \A e \in Deployment : e = d \/ state'[e] = state[e]
        BY DEF ControllerUpdate, SetState
      <4> QED BY <2>1, <2>2, <2>4, <4>1 DEF ImageInv
    <3>2. CASE \A d \in Deployment : state'[d] \in {"Deploying", "Running"} =>
                                       state[d] \in {"Deploying", "Running"}
      BY <2>1, <2>2, <2>4, <3>2 DEF ImageInv
    <3> QED BY <1>3, <2>4, <3>1, <3>2 DEF Environment, CreateDeployment, Relay, MarkFailed,
               Sweep, ControllerRead, JobStep, GrowStale, SetState
  <2>5. CASE \E d \in Deployment : ControllerRead(d)
    BY <2>1, <2>2, <2>5 DEF ControllerRead, ImageInv
  <2> QED BY <1>3, <2>3, <2>4, <2>5 DEF Environment, CreateDeployment, Relay, MarkFailed, Sweep,
             ControllerUpdate, GrowStale
<1> QED BY <1>1, <1>2, <1>3 DEF Next

\* No deployment is rolled out whose image was never pushed.
THEOREM DeployedHasImageHolds == Spec => []DeployedHasImage
<1>1. Init => ImageInv
  BY DEF Init, ImageInv, DeployedHasImage
<1>2. TypeOK /\ HandledInv /\ ImageInv /\ [Next]_vars => ImageInv'
  <2>1. CASE UNCHANGED vars
    BY <2>1 DEF vars, redisVars, dbVars, k8sVars, threadVars, ImageInv, DeployedHasImage, Dep
  <2> QED BY <2>1, RowsAdvanceStep, ImageStep
<1>3. ImageInv => DeployedHasImage
  BY DEF ImageInv
<1> QED BY <1>1, <1>2, <1>3, TypeCorrect, HandledInvHolds, PTL DEF Spec

-----------------------------------------------------------------------------
(* Nothing is built or rolled out unasked: the workers and the controller  *)
(* write to rows only after an entry for them was delivered.               *)

\* An entry of d was delivered.
Read(d) == \E i \in 1 .. last : stream[i] = d

ReadInv == \A d \in Deployment :
             state[d] \in AlreadyHandled \/ d \in seen => Read(d)

\* Delivered entries stay so, and what becomes busy or seen was delivered.
LEMMA ReadKept ==
  ASSUME TypeOK, ReadInv,
         last' \in Nat, last <= last', \A i \in 1 .. last : stream'[i] = stream[i],
         \A d \in Deployment : state'[d] \in AlreadyHandled \/ d \in seen' =>
            state[d] \in AlreadyHandled \/ d \in seen \/ Read(d)
  PROVE  ReadInv'
  <1> SUFFICES ASSUME NEW d \in Deployment, state'[d] \in AlreadyHandled \/ d \in seen'
               PROVE  Read(d)'
    BY DEF ReadInv
  <1>1. PICK i \in 1 .. last : stream[i] = d BY DEF ReadInv, Read
  <1>2. last \in Nat BY DEF TypeOK, RedisOK
  <1>3. i \in 1 .. last' /\ stream'[i] = d BY <1>1, <1>2
  <1> QED BY <1>3 DEF Read

LEMMA ReadStep == TypeOK /\ ReadInv /\ [Next]_vars => ReadInv'
<1> SUFFICES ASSUME TypeOK, ReadInv, [Next]_vars PROVE ReadInv' OBVIOUS
<1> USE DEF AlreadyHandled
<1>1. last \in Nat /\ last <= Len(stream) /\ Len(stream) \in Nat
  BY DEF TypeOK, RedisOK
<1>2. ASSUME NEW t \in Thread, ThreadStep(t)
      PROVE  ReadInv'
  <2>1. pc[t] # "idle"
    BY <1>2 DEF ThreadStep, EarlyStep, TryStep, MonitorStep, RejectInvalid, ReadDeployment,
       AdvanceRollback, AckReturn, EarlyError, Prepare, AckBuilt, FailTask, DeadLetter, Release,
       WatchPod, SetBuilding, WatchJob, SetDeploying, SetFailed, MonitorError, MonitorFailed,
       CleanJob
  <2>2. Read(Dep(t))
    BY <2>1, DepType DEF TypeOK, Read, Dep
  <2>3. UNCHANGED <<stream, last, seen>>
    BY <1>2 DEF ThreadStep, EarlyStep, TryStep, MonitorStep, RejectInvalid, ReadDeployment,
       AdvanceRollback, AckReturn, EarlyError, Prepare, AckBuilt, FailTask, DeadLetter, Release,
       WatchPod, SetBuilding, WatchJob, SetDeploying, SetFailed, MonitorError, MonitorFailed,
       CleanJob, redisVars, k8sVars
  <2>4. UNCHANGED state \/ \E s \in State : SetState(Dep(t), s)
    <3>1. EarlyStep(t) => UNCHANGED state \/ SetState(Dep(t), "Deploying")
      BY DEF EarlyStep, RejectInvalid, ReadDeployment, AdvanceRollback, AckReturn, EarlyError, dbVars
    <3>2. TryStep(t) => UNCHANGED state \/ SetState(Dep(t), "Failed")
      BY DEF TryStep, Prepare, AckBuilt, FailTask, DeadLetter, Release, dbVars
    <3>3. MonitorStep(t) => \/ UNCHANGED state
                            \/ \E s \in {"Building", "Deploying", "Failed"} : SetState(Dep(t), s)
      BY DEF MonitorStep, WatchPod, SetBuilding, WatchJob, SetDeploying, SetFailed, MonitorError,
             MonitorFailed, CleanJob, dbVars
    <3> QED BY <1>2, <3>1, <3>2, <3>3 DEF ThreadStep, State
  <2>5. \A d \in Deployment : d = Dep(t) \/ state'[d] = state[d]
    BY <2>4 DEF SetState, TypeOK, DbOK
  <2> QED BY <1>1, <2>2, <2>3, <2>5, ReadKept
<1>3. CASE \E p \in Pod : LoopStep(p) \/ ReplyLost(p) \/ Sigterm(p) \/ Crash(p) \/ Restart(p)
  <2>1. LastRead \in Nat /\ last <= LastRead
    BY <1>1, ReadCountAssumption DEF LastRead
  <2>2. UNCHANGED <<stream, state, seen>> /\ (last' = last \/ last' = LastRead)
    BY <1>3 DEF LoopStep, Recover, GetMessages, SubmitTask, Exit, ReplyLost, Sigterm, Crash,
       Restart, dbVars, redisVars, k8sVars
  <2>3. last' \in Nat /\ last <= last'
    BY <1>1, <2>1, <2>2
  <2> QED BY <2>2, <2>3, ReadKept
<1>4. CASE Environment
  <2>1. \A i \in 1 .. Len(stream) : stream'[i] = stream[i]
    <3>1. ASSUME NEW n \in 1 .. MaxEntries, Relay(n) PROVE \A i \in 1 .. Len(stream) : stream'[i] = stream[i]
      BY <3>1, RelayAppends DEF TypeOK
    <3> QED BY <1>4, <3>1 DEF Environment, CreateDeployment, MarkFailed, Sweep,
            ControllerRead, ControllerUpdate, JobStep, GrowStale, redisVars
  <2>2. UNCHANGED last
    BY <1>4 DEF Environment, CreateDeployment, Relay, MarkFailed, Sweep,
       ControllerRead, ControllerUpdate, JobStep, GrowStale, redisVars
  <2>3. \A d \in Deployment : d \in seen' => d \in seen \/ state[d] = "Deploying"
    BY <1>4 DEF Environment, CreateDeployment, Relay, MarkFailed, Sweep,
       ControllerRead, ControllerUpdate, JobStep, GrowStale, k8sVars
  <2>4. \A d \in Deployment : state'[d] \in AlreadyHandled =>
                                 state[d] \in AlreadyHandled \/ d \in seen
    BY <1>4 DEF Environment, CreateDeployment, Relay, MarkFailed, Sweep, ControllerRead,
       ControllerUpdate, JobStep, GrowStale, dbVars, SetState, TypeOK, DbOK
  <2> QED BY <1>1, <2>1, <2>2, <2>3, <2>4, ReadKept
<1>5. CASE UNCHANGED vars
  BY <1>1, <1>5, ReadKept DEF vars, dbVars, redisVars, k8sVars
<1> QED BY <1>2, <1>3, <1>4, <1>5 DEF Next

LEMMA ReadInit == Init => ReadInv
  BY DEF Init, ReadInv, AlreadyHandled

-----------------------------------------------------------------------------
(* The semaphore.  A task holds a permit from its submission to its        *)
(* release; some tasks end without giving theirs back, none gives back two.*)

PermitsInv == \A p \in Pod : IF Up(p) THEN permits[p] + Cardinality(Busy(p)) <= MaxWorkers
                                      ELSE Busy(p) = {}

LEMMA BusyIsFinite ==
  ASSUME NEW p \in Pod
  PROVE  /\ IsFiniteSet(Threads(p)) /\ Cardinality(Threads(p)) = MaxWorkers
         /\ IsFiniteSet(Busy(p)) /\ Cardinality(Busy(p)) \in Nat
<1>1. IsFiniteSet({p}) /\ Cardinality({p}) = 1
  BY FS_Singleton
<1>2. IsFiniteSet(Threads(p)) /\ Cardinality(Threads(p)) = 1 * MaxWorkers
  BY <1>1, SlotAssumption, FS_Product DEF Threads, MaxWorkers
<1>3. Busy(p) \in SUBSET Threads(p)
  BY DEF Busy
<1> QED BY <1>2, <1>3, PermitsAreFinite, FS_Subset, FS_CardinalityType

\* A thread becomes busy, or stays so, or becomes idle.
LEMMA BusyAfter ==
  ASSUME ThreadOK, NEW t \in Thread, NEW s \in ThreadPc, pc' = [pc EXCEPT ![t] = s]
  PROVE  \A p \in Pod : /\ p # t[1] => Busy(p)' = Busy(p)
                        /\ p = t[1] /\ s = "idle" => Busy(p)' = Busy(p) \ {t}
                        /\ p = t[1] /\ s # "idle" => Busy(p)' = Busy(p) \cup {t}
  BY DEF ThreadOK, Busy, Threads, Thread

LEMMA PermitsKept ==
  ASSUME TypeOK, PermitsInv, UNCHANGED <<loop, permits>>,
         \A p \in Pod : Busy(p)' \subseteq Busy(p)
  PROVE  PermitsInv'
<1> SUFFICES ASSUME NEW p \in Pod
             PROVE  IF Up(p)' THEN permits'[p] + Cardinality(Busy(p)') <= MaxWorkers
                              ELSE Busy(p)' = {}
  BY DEF PermitsInv
<1>1. Cardinality(Busy(p)') \in Nat /\ Cardinality(Busy(p)') <= Cardinality(Busy(p))
  BY BusyIsFinite, FS_Subset, FS_CardinalityType
<1> QED BY <1>1, BusyIsFinite, PermitsAreFinite DEF PermitsInv, Up, TypeOK, PodOK

LEMMA PermitsPod ==
  ASSUME TypeOK, PermitsInv, NEW p \in Pod,
         LoopStep(p) \/ ReplyLost(p) \/ Sigterm(p) \/ Crash(p) \/ Restart(p)
  PROVE  PermitsInv'
<1> USE PermitsAreFinite, BusyIsFinite, FS_EmptySet DEF TypeOK, PodOK, LoopPc
<1>1. CASE Recover(p) \/ GetMessages(p) \/ Exit(p) \/ ReplyLost(p) \/ Sigterm(p)
  <2>1. /\ UNCHANGED <<pc, permits>>
        /\ \A q \in Pod : Up(q) = Up(q)' \/ Busy(q) = {}
        /\ \A q \in Pod : Up(q)' => Up(q)
    BY <1>1 DEF Recover, GetMessages, Exit, ReplyLost, Sigterm, threadVars, Up
  <2>2. \A q \in Pod : Busy(q)' = Busy(q)
    BY <2>1 DEF Busy
  <2> QED BY <2>1, <2>2 DEF PermitsInv
<1>2. CASE SubmitTask(p)
  <2> PICK t \in Threads(p) : pc[t] = "idle" /\ pc' = [pc EXCEPT ![t] = "start"]
    BY <1>2 DEF SubmitTask
  <2>1. t \in Thread /\ t[1] = p
    BY DEF Threads, Thread
  <2>2. Busy(p)' = Busy(p) \cup {t} /\ \A q \in Pod \ {p} : Busy(q)' = Busy(q)
    <3> HIDE PermitsAreFinite, BusyIsFinite, FS_EmptySet DEF PodOK, LoopPc
    <3>1. ThreadOK /\ "start" \in ThreadPc
      BY DEF ThreadPc
    <3> QED BY <2>1, <3>1, BusyAfter
  <2>3. Cardinality(Busy(p) \cup {t}) = Cardinality(Busy(p)) + 1
    BY FS_AddElement DEF Busy
  <2>4. Up(p) /\ \A q \in Pod : Up(q)' = Up(q)
    BY <1>2 DEF SubmitTask, Up
  <2>5. permits[p] > 0 /\ permits' = [permits EXCEPT ![p] = @ - 1]
    BY <1>2 DEF SubmitTask
  <2>6. permits'[p] + Cardinality(Busy(p)') <= MaxWorkers
    BY <2>2, <2>3, <2>4, <2>5 DEF PermitsInv
  <2>7. \A q \in Pod \ {p} : permits'[q] = permits[q]
    BY <2>5
  <2> QED BY <2>2, <2>4, <2>6, <2>7 DEF PermitsInv
<1>3. CASE Crash(p)
  <2>1. \A q \in Pod : Busy(q)' = IF q = p THEN {} ELSE Busy(q)
    BY <1>3 DEF Crash, Busy, Threads, Thread
  <2>2. \A q \in Pod : Up(q)' = (q # p /\ Up(q))
    BY <1>3 DEF Crash, Up
  <2> QED BY <1>3, <2>1, <2>2 DEF Crash, PermitsInv
<1>4. CASE Restart(p)
  <2>1. \A q \in Pod : Busy(q)' = Busy(q)
    BY <1>4 DEF Restart, Busy, threadVars
  <2>2. \A q \in Pod : Up(q)' = (q = p \/ Up(q))
    BY <1>4 DEF Restart, Up
  <2>3. Busy(p) = {} /\ permits' = [permits EXCEPT ![p] = MaxWorkers]
    BY <1>4 DEF Restart, PermitsInv
  <2>4. permits'[p] + Cardinality(Busy(p)') <= MaxWorkers
    BY <2>1, <2>3
  <2>5. \A q \in Pod \ {p} : permits'[q] = permits[q]
    BY <2>3
  <2> QED BY <2>1, <2>2, <2>4, <2>5 DEF PermitsInv
<1> QED BY <1>1, <1>2, <1>3, <1>4 DEF LoopStep

LEMMA PermitsThread ==
  ASSUME TypeOK, PermitsInv, NEW t \in Thread, ThreadStep(t)
  PROVE  PermitsInv'
<1> USE DEF TypeOK
<1>1. t[1] \in Pod /\ t \in Threads(t[1])
  BY PodOfThread
<1>2. CASE Release(t)
  <2>1. Busy(t[1])' = Busy(t[1]) \ {t} /\ \A q \in Pod \ {t[1]} : Busy(q)' = Busy(q)
    BY <1>1, <1>2, BusyAfter DEF Release, Return, ThreadPc
  <2>2. t \in Busy(t[1])
    BY <1>1, <1>2 DEF Release, Busy
  <2>3. Cardinality(Busy(t[1]) \ {t}) = Cardinality(Busy(t[1])) - 1
    BY <1>1, <2>2, BusyIsFinite, FS_RemoveElement
  <2>4. \A q \in Pod : Up(q)' = Up(q)
    BY <1>2 DEF Release, Up
  <2>5. permits' = [permits EXCEPT ![t[1]] = @ + 1]
    BY <1>2 DEF Release
  <2>6. Up(t[1]) => permits'[t[1]] + Cardinality(Busy(t[1])') <= MaxWorkers
    BY <1>1, <2>1, <2>3, <2>5, BusyIsFinite, PermitsAreFinite DEF PermitsInv, PodOK
  <2>7. ~Up(t[1]) => Busy(t[1])' = {}
    BY <1>1, <2>1 DEF PermitsInv
  <2>8. \A q \in Pod \ {t[1]} : permits'[q] = permits[q]
    BY <2>5 DEF PodOK
  <2> QED BY <2>1, <2>4, <2>6, <2>7, <2>8 DEF PermitsInv
<1>3. CASE ~Release(t)
  <2>1. UNCHANGED <<loop, permits>> /\ pc[t] # "idle"
    BY <1>3 DEF ThreadStep, EarlyStep, TryStep, MonitorStep, RejectInvalid, ReadDeployment,
       AdvanceRollback, AckReturn, EarlyError, Prepare, AckBuilt, FailTask, DeadLetter,
       WatchPod, SetBuilding, WatchJob, SetDeploying, SetFailed, MonitorError, MonitorFailed,
       CleanJob, podVars
  <2>2. \E s \in ThreadPc : pc' = [pc EXCEPT ![t] = s]
    BY <1>3 DEF ThreadStep, EarlyStep, TryStep, MonitorStep, RejectInvalid, ReadDeployment,
       AdvanceRollback, AckReturn, EarlyError, Prepare, AckBuilt, FailTask, DeadLetter,
       WatchPod, SetBuilding, WatchJob, SetDeploying, SetFailed, MonitorError, MonitorFailed,
       CleanJob, Goto, Return, ThreadPc
  <2>3. t \in Busy(t[1])
    BY <1>1, <2>1 DEF Busy
  <2>4. PICK s \in ThreadPc : pc' = [pc EXCEPT ![t] = s]
    BY <2>2
  <2>5. Busy(t[1])' \subseteq Busy(t[1]) /\ \A q \in Pod \ {t[1]} : Busy(q)' = Busy(q)
    BY <1>1, <2>3, <2>4, BusyAfter
  <2> QED BY <2>1, <2>5, PermitsKept
<1> QED BY <1>2, <1>3

LEMMA PermitsInvHolds == Spec => []PermitsInv
<1>1. Init => PermitsInv
  <2> SUFFICES ASSUME Init, NEW p \in Pod
               PROVE  Up(p) /\ permits[p] + Cardinality(Busy(p)) <= MaxWorkers
    BY DEF PermitsInv
  <2>1. Busy(p) = {}
    BY ThreadOfPod DEF Init, Busy
  <2> QED BY <2>1, FS_EmptySet, PermitsAreFinite DEF Init, Up
<1>2. TypeOK /\ PermitsInv /\ [Next]_vars => PermitsInv'
  <2> SUFFICES ASSUME TypeOK, PermitsInv, [Next]_vars
               PROVE  PermitsInv'
    OBVIOUS
  <2>1. UNCHANGED <<podVars, threadVars>> => PermitsInv'
    <3>1. UNCHANGED <<podVars, threadVars>> => \A p \in Pod : Busy(p)' = Busy(p)
      BY DEF Busy, threadVars
    <3> QED BY <3>1, PermitsKept DEF podVars
  <2>2. Environment => UNCHANGED <<podVars, threadVars>>
    BY DEF Environment, CreateDeployment, Relay, MarkFailed, Sweep, ControllerRead,
           ControllerUpdate, JobStep, GrowStale
  <2> QED BY <2>1, <2>2, PermitsPod, PermitsThread DEF Next, vars
<1> QED BY <1>1, <1>2, TypeCorrect, PTL DEF Spec

\* The semaphore is never released more often than it was acquired.
THEOREM PermitsCoverThreadsHolds == Spec => []PermitsCoverThreads
<1>1. PermitsInv => PermitsCoverThreads
  BY DEF PermitsInv, PermitsCoverThreads
<1> QED BY <1>1, PermitsInvHolds, PTL

\* While a pod has a permit it has an idle executor thread: submit never queues.
PermitFindsThread ==
  \A p \in Pod : Up(p) /\ permits[p] > 0 => \E t \in Threads(p) : pc[t] = "idle"

THEOREM PermitFindsThreadHolds == Spec => []PermitFindsThread
<1>1. TypeOK /\ PermitsInv => PermitFindsThread
  <2> SUFFICES ASSUME TypeOK, PermitsInv, NEW p \in Pod, Up(p), permits[p] > 0,
                      \A t \in Threads(p) : pc[t] # "idle"
               PROVE  FALSE
    BY DEF PermitFindsThread
  <2>1. Busy(p) = Threads(p)
    BY DEF Busy
  <2> QED BY <2>1, BusyIsFinite, PermitsAreFinite DEF PermitsInv, TypeOK, PodOK
<1> QED BY <1>1, PermitsInvHolds, TypeCorrect, PTL

-----------------------------------------------------------------------------
(* Rows that nobody builds.  A row can be left in Building only by a       *)
(* thread that was to write its outcome.  Counted twice: once when the     *)
(* thread leaves monitor_job without an UPDATE, for which its except       *)
(* clause must fail, and once when it leaves the except clause of          *)
(* process_message without one.                                            *)

Unwatched == Unattended(WatchingPc)
Stranded  == Unattended(OutcomePc)

Excuses == faults + 2 * MaxWorkers * crashes

StrandInv == /\ IsFiniteSet(Unwatched)
             /\ Cardinality(Unwatched) + Cardinality(Stranded) <= Excuses

LEMMA StrandedIsUnwatched == Stranded \subseteq Unwatched
  BY DEF Unwatched, Stranded, Unattended, OutcomePc

\* What makes a row unattended: nobody starts to attend to it as it becomes
\* Building, or who did stops doing so.
LEMMA UnwatchedGrows ==
  ASSUME NEW X,
         \A d \in Deployment : state'[d] = "Building" =>
            state[d] = "Building" \/ \E t \in Thread : pc'[t] \in WatchingPc /\ Dep(t)' = d,
         \A t \in Thread : pc[t] \in WatchingPc =>
            \/ pc'[t] \in WatchingPc /\ Dep(t)' = Dep(t)
            \/ state'[Dep(t)] # "Building" \/ Dep(t) \in X
  PROVE  Unwatched' \subseteq Unwatched \cup X
  BY DEF Unwatched, Unattended

LEMMA StrandedGrows ==
  ASSUME NEW X,
         \A d \in Deployment : state'[d] = "Building" =>
            state[d] = "Building" \/ \E t \in Thread : pc'[t] \in OutcomePc /\ Dep(t)' = d,
         \A t \in Thread : pc[t] \in OutcomePc =>
            \/ pc'[t] \in OutcomePc /\ Dep(t)' = Dep(t)
            \/ state'[Dep(t)] # "Building" \/ Dep(t) \in X
  PROVE  Stranded' \subseteq Stranded \cup X
  BY DEF Stranded, Unattended

\* One more crash excuses every thread of a pod twice.
LEMMA ExcuseOf ==
  ASSUME NEW f \in Nat, NEW m \in Nat, NEW k \in Nat
  PROVE  /\ f + 2 * m * k \in Nat
         /\ f + 2 * m * (k + 1) = f + 2 * m * k + 2 * m
<1>1. 2 * m \in Nat /\ 2 * m * k \in Nat OBVIOUS
<1>2. 2 * m * (k + 1) = 2 * m * k + 2 * m OBVIOUS
<1> QED BY <1>1, <1>2

LEMMA ExcusesAreCounted ==
  /\ BudgetOK => Excuses \in Nat /\ faults \in Nat /\ crashes \in Nat
  /\ BudgetOK' => Excuses' \in Nat /\ faults' \in Nat /\ crashes' \in Nat
<1>1. BudgetOK => faults \in Nat /\ crashes \in Nat
  BY BoundsAssumption DEF BudgetOK
<1>2. BudgetOK' => faults' \in Nat /\ crashes' \in Nat
  BY BoundsAssumption DEF BudgetOK
<1>3. BudgetOK => Excuses \in Nat
  BY <1>1, PermitsAreFinite, ExcuseOf DEF Excuses
<1>4. BudgetOK' => Excuses' \in Nat
  BY <1>2, PermitsAreFinite, ExcuseOf DEF Excuses
<1> QED BY <1>1, <1>2, <1>3, <1>4

LEMMA UnionBound ==
  ASSUME NEW S, NEW X, NEW T, IsFiniteSet(S), IsFiniteSet(X), T \subseteq S \cup X
  PROVE  /\ IsFiniteSet(T) /\ Cardinality(T) \in Nat
         /\ Cardinality(S) \in Nat /\ Cardinality(X) \in Nat
         /\ Cardinality(T) <= Cardinality(S) + Cardinality(X)
<1>1. /\ IsFiniteSet(S \cup X)
      /\ Cardinality(S \cup X) = Cardinality(S) + Cardinality(X) - Cardinality(S \cap X)
  BY FS_Union
<1>2. IsFiniteSet(S \cap X)
  <2>1. S \cap X \in SUBSET S OBVIOUS
  <2> QED BY <2>1, FS_Subset
<1>3. /\ Cardinality(S) \in Nat /\ Cardinality(X) \in Nat /\ Cardinality(S \cap X) \in Nat
      /\ Cardinality(S \cup X) \in Nat
  BY <1>1, <1>2, FS_CardinalityType
<1>4. T \in SUBSET (S \cup X) OBVIOUS
<1>5. IsFiniteSet(T) /\ Cardinality(T) <= Cardinality(S \cup X)
  BY <1>1, <1>4, FS_Subset
<1> QED BY <1>1, <1>3, <1>5, FS_CardinalityType

\* The sets grow by no more than the faults and crashes allow.
LEMMA StrandKept ==
  ASSUME StrandInv, BudgetOK, BudgetOK', NEW X, NEW Y, IsFiniteSet(X), IsFiniteSet(Y),
         Unwatched' \subseteq Unwatched \cup X, Stranded' \subseteq Stranded \cup Y,
         Cardinality(X) + Cardinality(Y) + Excuses <= Excuses'
  PROVE  StrandInv'
<1>1. Stranded \in SUBSET Unwatched /\ IsFiniteSet(Unwatched)
  BY StrandedIsUnwatched DEF StrandInv
<1>2. IsFiniteSet(Stranded) BY <1>1, FS_Subset
<1>3. /\ IsFiniteSet(Unwatched') /\ Cardinality(Unwatched') \in Nat /\ Cardinality(Unwatched) \in Nat
      /\ Cardinality(X) \in Nat
      /\ Cardinality(Unwatched') <= Cardinality(Unwatched) + Cardinality(X)
  BY <1>1, UnionBound
<1>4. /\ Cardinality(Stranded') \in Nat /\ Cardinality(Stranded) \in Nat /\ Cardinality(Y) \in Nat
      /\ Cardinality(Stranded') <= Cardinality(Stranded) + Cardinality(Y)
  BY <1>2, UnionBound
<1>5. Excuses \in Nat /\ Excuses' \in Nat BY ExcusesAreCounted
<1> QED BY <1>3, <1>4, <1>5 DEF StrandInv

LEMMA SameIsNoMore == ASSUME NEW a \in Nat, NEW b, b = a PROVE a <= b
OBVIOUS

LEMMA MoreIsNoLess == ASSUME NEW a \in Nat, NEW m \in Nat, NEW b, b = a + 2 * m PROVE a <= b
OBVIOUS

LEMMA MoreFaults ==
  ASSUME NEW f \in Nat, NEW g \in Nat, NEW k \in Nat, NEW e \in Nat, f <= g, g + k <= e
  PROVE  f + k <= e
OBVIOUS

\* A step that loses sight of no row.
LEMMA StrandQuiet ==
  ASSUME StrandInv, BudgetOK, BudgetOK', faults <= faults', crashes' \in {crashes, crashes + 1},
         Unwatched' \subseteq Unwatched, Stranded' \subseteq Stranded
  PROVE  StrandInv'
<1>1. Excuses <= Excuses'
  <2>1. /\ MaxWorkers \in Nat /\ crashes \in Nat /\ faults \in Nat /\ faults' \in Nat
        /\ Excuses \in Nat
    BY PermitsAreFinite, ExcusesAreCounted
  <2>2. faults' + 2 * MaxWorkers * crashes <= Excuses'
    <3>1. CASE crashes' = crashes
      <4>1. faults' + 2 * MaxWorkers * crashes \in Nat BY <2>1, ExcuseOf
      <4>2. Excuses' = faults' + 2 * MaxWorkers * crashes BY <3>1 DEF Excuses
      <4> HIDE DEF Excuses
      <4> QED BY <4>1, <4>2, SameIsNoMore
    <3>2. CASE crashes' = crashes + 1
      <4>1. /\ faults' + 2 * MaxWorkers * crashes \in Nat
            /\ Excuses' = faults' + 2 * MaxWorkers * crashes + 2 * MaxWorkers
        BY <2>1, <3>2, ExcuseOf DEF Excuses
      <4> HIDE DEF Excuses
      <4> QED BY <2>1, <4>1, MoreIsNoLess
    <3> QED BY <3>1, <3>2
  <2>3. 2 * MaxWorkers * crashes \in Nat BY <2>1
  <2>4. Excuses = faults + 2 * MaxWorkers * crashes BY DEF Excuses
  <2>5. Excuses' \in Nat BY ExcusesAreCounted
  <2> HIDE DEF Excuses
  <2> QED BY <2>1, <2>2, <2>3, <2>4, <2>5, MoreFaults
<1>2. IsFiniteSet({}) /\ Cardinality({}) = 0 BY FS_EmptySet
<1>3. Excuses \in Nat BY ExcusesAreCounted
<1> QED BY <1>1, <1>2, <1>3, StrandKept

LEMMA StrandLoop ==
  ASSUME TypeOK, TypeOK', StrandInv, NEW p \in Pod,
         LoopStep(p) \/ ReplyLost(p) \/ Sigterm(p) \/ Restart(p)
  PROVE  StrandInv'
<1> USE DEF TypeOK
<1>1. UNCHANGED <<state, stream>> /\ faults <= faults' /\ crashes' \in {crashes, crashes + 1}
  BY ExcusesAreCounted DEF LoopStep, Recover, GetMessages, SubmitTask, Exit, ReplyLost, Sigterm, Restart,
         Fault, budgetVars, dbVars, redisVars, BudgetOK
<1>2. \A t \in Thread : pc[t] # "idle" => pc'[t] = pc[t] /\ msg'[t] = msg[t]
  BY ThreadOfPod DEF LoopStep, Recover, GetMessages, SubmitTask, Exit, ReplyLost, Sigterm,
         Restart, threadVars, ThreadOK
<1>3. \A t \in Thread : pc[t] \in OutcomePc \cup WatchingPc => pc'[t] = pc[t] /\ Dep(t)' = Dep(t)
  BY <1>1, <1>2 DEF OutcomePc, WatchingPc, Dep
<1>4. Unwatched' \subseteq Unwatched /\ Stranded' \subseteq Stranded
  <2>1. Unwatched' \subseteq Unwatched \cup {} BY <1>1, <1>3, UnwatchedGrows
  <2>2. Stranded' \subseteq Stranded \cup {} BY <1>1, <1>3, StrandedGrows
  <2> QED BY <2>1, <2>2
<1> QED BY <1>1, <1>4, StrandQuiet

\* A pod that is killed leaves the rows of its threads alone.
LEMMA StrandCrash ==
  ASSUME TypeOK, TypeOK', StrandInv, NEW p \in Pod, Crash(p)
  PROVE  StrandInv'
<1> USE DEF TypeOK
<1> DEFINE X == {Dep(t) : t \in Threads(p)}
<1>1. IsFiniteSet(X) /\ Cardinality(X) \in Nat /\ Cardinality(X) <= MaxWorkers
  <2>1. IsFiniteSet(Threads(p)) /\ Cardinality(Threads(p)) = MaxWorkers BY BusyIsFinite
  <2>2. [t \in Threads(p) |-> Dep(t)] \in Surjection(Threads(p), X) BY DEF Surjection
  <2>3. IsFiniteSet(X) /\ Cardinality(X) <= Cardinality(Threads(p))
    BY <2>1, <2>2, FS_Surjection
  <2> QED BY <2>1, <2>3, FS_CardinalityType
<1>2. UNCHANGED <<state, stream>> BY DEF Crash, dbVars, redisVars
<1>3. \A t \in Thread : \/ pc'[t] = pc[t] /\ Dep(t)' = Dep(t)
                        \/ Dep(t) \in X
  BY <1>2 DEF Crash, Dep
<1>4. Unwatched' \subseteq Unwatched \cup X
  <2> HIDE DEF X
  <2> QED BY <1>2, <1>3, UnwatchedGrows
<1>5. Stranded' \subseteq Stranded \cup X
  <2> HIDE DEF X
  <2> QED BY <1>2, <1>3, StrandedGrows
<1>6. Excuses' = Excuses + 2 * MaxWorkers
  <2>1. /\ faults' = faults /\ crashes' = crashes + 1 /\ faults \in Nat /\ crashes \in Nat
        /\ MaxWorkers \in Nat
    BY PermitsAreFinite, ExcusesAreCounted DEF Crash
  <2> QED BY <2>1, ExcuseOf DEF Excuses
<1>7. Excuses \in Nat BY ExcusesAreCounted
<1> HIDE DEF X
<1> QED BY <1>1, <1>4, <1>5, <1>6, <1>7, PermitsAreFinite, StrandKept

LEMMA StrandThread ==
  ASSUME TypeOK, TypeOK', StrandInv, NEW t \in Thread, ThreadStep(t)
  PROVE  StrandInv'
<1> USE DEF TypeOK, ThreadOK, DbOK
<1>1. pc[t] # "idle" /\ Dep(t) \in Deployment
  BY DepType DEF ThreadStep, EarlyStep, TryStep, MonitorStep, RejectInvalid, ReadDeployment,
     AdvanceRollback, AckReturn, EarlyError, Prepare, AckBuilt, FailTask, DeadLetter, Release,
     WatchPod, SetBuilding, WatchJob, SetDeploying, SetFailed, MonitorError, MonitorFailed,
     CleanJob
<1>2. /\ UNCHANGED stream
      /\ \A u \in Thread \ {t} : pc'[u] = pc[u] /\ msg'[u] = msg[u]
      /\ crashes' = crashes /\ (faults' = faults \/ faults' = faults + 1)
  <2> HIDE DEF TypeOK, DbOK
  <2>1. UNCHANGED stream
    BY DEF ThreadStep, EarlyStep, TryStep, MonitorStep, RejectInvalid, ReadDeployment,
       AdvanceRollback, AckReturn, EarlyError, Prepare, AckBuilt, FailTask, DeadLetter, Release,
       WatchPod, SetBuilding, WatchJob, SetDeploying, SetFailed, MonitorError, MonitorFailed,
       CleanJob, redisVars
  <2>2. (\E s : Goto(t, s)) \/ Return(t)
    BY DEF ThreadStep, EarlyStep, TryStep, MonitorStep, RejectInvalid, ReadDeployment,
       AdvanceRollback, AckReturn, EarlyError, Prepare, AckBuilt, FailTask, DeadLetter, Release,
       WatchPod, SetBuilding, WatchJob, SetDeploying, SetFailed, MonitorError, MonitorFailed,
       CleanJob
  <2>3. Fault \/ NoFault
    BY DEF ThreadStep, EarlyStep, TryStep, MonitorStep, RejectInvalid, ReadDeployment,
       AdvanceRollback, AckReturn, EarlyError, Prepare, AckBuilt, FailTask, DeadLetter, Release,
       WatchPod, SetBuilding, WatchJob, SetDeploying, SetFailed, MonitorError, MonitorFailed,
       CleanJob
  <2>4. \A u \in Thread \ {t} : pc'[u] = pc[u] /\ msg'[u] = msg[u]
    BY <2>2 DEF Goto, Return, TypeOK
  <2> QED BY <2>1, <2>3, <2>4 DEF Fault, NoFault, budgetVars
<1>3. \A u \in Thread \ {t} : pc'[u] = pc[u] /\ Dep(u)' = Dep(u)
  BY <1>2 DEF Dep
<1>4. msg'[t] = msg[t] => Dep(t)' = Dep(t)
  BY <1>2 DEF Dep
<1>5. ASSUME NEW X, NEW Y, IsFiniteSet(X), IsFiniteSet(Y),
             Cardinality(X) + Cardinality(Y) <= faults' - faults,
             \A d \in Deployment : state'[d] = "Building" =>
                state[d] = "Building" \/ (d = Dep(t) /\ pc'[t] \in WatchingPc /\ msg'[t] = msg[t]),
             pc[t] \in WatchingPc => \/ pc'[t] \in WatchingPc /\ msg'[t] = msg[t]
                                     \/ state'[Dep(t)] # "Building" \/ Dep(t) \in X,
             pc[t] \in OutcomePc => \/ pc'[t] \in OutcomePc /\ msg'[t] = msg[t]
                                    \/ state'[Dep(t)] # "Building" \/ Dep(t) \in Y
      PROVE  StrandInv'
  <2>1. Unwatched' \subseteq Unwatched \cup X
    BY <1>3, <1>4, <1>5, UnwatchedGrows
  <2>2. Stranded' \subseteq Stranded \cup Y
    BY <1>3, <1>4, <1>5, StrandedGrows DEF OutcomePc
  <2>3. Cardinality(X) + Cardinality(Y) + Excuses <= Excuses'
    <3>1. /\ Excuses' = Excuses + (faults' - faults) /\ Excuses \in Nat
          /\ faults \in Nat /\ faults' \in Nat
      <4>1. /\ faults \in Nat /\ faults' \in Nat /\ crashes \in Nat /\ crashes' = crashes
            /\ MaxWorkers \in Nat
        BY <1>2, PermitsAreFinite, ExcusesAreCounted
      <4>2. 2 * MaxWorkers * crashes \in Nat BY <4>1
      <4> QED BY <4>1, <4>2 DEF Excuses
    <3>2. Cardinality(X) \in Nat /\ Cardinality(Y) \in Nat
      BY <1>5, FS_CardinalityType
    <3> QED BY <1>5, <3>1, <3>2
  <2> QED BY <1>5, <2>1, <2>2, <2>3, StrandKept
<1>6. IsFiniteSet({}) /\ Cardinality({}) = 0 /\ IsFiniteSet({Dep(t)}) /\ Cardinality({Dep(t)}) = 1
  BY FS_EmptySet, FS_Singleton
<1>7. ASSUME \A d \in Deployment : state'[d] = "Building" =>
                state[d] = "Building" \/ (d = Dep(t) /\ pc'[t] \in WatchingPc /\ msg'[t] = msg[t]),
             pc[t] \in WatchingPc => \/ pc'[t] \in WatchingPc /\ msg'[t] = msg[t]
                                     \/ state'[Dep(t)] # "Building",
             pc[t] \in OutcomePc => \/ pc'[t] \in OutcomePc /\ msg'[t] = msg[t]
                                    \/ state'[Dep(t)] # "Building"
      PROVE  StrandInv'
  <2>1. 0 + 0 <= faults' - faults
    BY <1>2, ExcusesAreCounted
  <2> QED BY <1>5, <1>6, <1>7, <2>1
<1> USE <1>1 DEF Goto, Return, SetState, WatchingPc, OutcomePc
<1>8. CASE EarlyStep(t)
  <2>1. pc[t] \notin WatchingPc \cup OutcomePc
    BY <1>8 DEF EarlyStep, RejectInvalid, ReadDeployment, AdvanceRollback, AckReturn, EarlyError
  <2>2. \A d \in Deployment : state'[d] = "Building" => state[d] = "Building"
    BY <1>8 DEF EarlyStep, RejectInvalid, ReadDeployment, AdvanceRollback, AckReturn, EarlyError,
       dbVars
  <2> QED BY <1>7, <2>1, <2>2
<1>9. CASE Prepare(t) \/ AckBuilt(t) \/ DeadLetter(t) \/ Release(t)
  BY <1>7, <1>9 DEF Prepare, AckBuilt, DeadLetter, Release, dbVars
<1>10. CASE FailTask(t)
  <2>1. CASE SetState(Dep(t), "Failed")
    BY <1>7, <1>10, <2>1 DEF FailTask
  <2>2. CASE Fault /\ UNCHANGED state
    <3>1. 0 + 1 <= faults' - faults
      BY <2>2, ExcusesAreCounted DEF Fault
    <3>2. pc[t] = "except" BY <1>10 DEF FailTask
    <3> QED BY <1>5, <1>6, <2>2, <3>1, <3>2
  <2> QED BY <1>10, <2>1, <2>2 DEF FailTask
<1>11. CASE WatchPod(t) \/ WatchJob(t) \/ MonitorError(t)
  BY <1>7, <1>11 DEF WatchPod, WatchJob, MonitorError, MonitorPc, dbVars
<1>12. CASE SetBuilding(t) \/ SetDeploying(t) \/ SetFailed(t)
  BY <1>7, <1>12 DEF SetBuilding, SetDeploying, SetFailed
<1>13. CASE MonitorFailed(t)
  <2>1. CASE SetState(Dep(t), "Failed") /\ Goto(t, "cleanJob")
    BY <1>7, <1>13, <2>1 DEF MonitorFailed
  <2>2. CASE Fault /\ Goto(t, "cleanJobRaise") /\ UNCHANGED state
    <3>1. 1 + 0 <= faults' - faults
      BY <2>2, ExcusesAreCounted DEF Fault
    <3>2. pc'[t] = "cleanJobRaise" /\ msg'[t] = msg[t]
      BY <2>2
    <3> QED BY <1>5, <1>6, <2>2, <3>1, <3>2
  <2> QED BY <1>13, <2>1, <2>2 DEF MonitorFailed
<1>14. CASE CleanJob(t)
  BY <1>7, <1>14 DEF CleanJob, dbVars
<1> QED BY <1>8, <1>9, <1>10, <1>11, <1>12, <1>13, <1>14 DEF ThreadStep, TryStep, MonitorStep

LEMMA StrandEnvironment ==
  ASSUME TypeOK, TypeOK', StrandInv, Environment
  PROVE  StrandInv'
<1> USE DEF TypeOK
<1>1. UNCHANGED <<threadVars, budgetVars>>
  BY DEF Environment, CreateDeployment, Relay, MarkFailed, Sweep, ControllerRead,
     ControllerUpdate, JobStep, GrowStale
<1>2. \A d \in Deployment : state'[d] = "Building" => state[d] = "Building"
  BY DEF Environment, CreateDeployment, Relay, MarkFailed, Sweep, ControllerRead,
     ControllerUpdate, JobStep, GrowStale, dbVars, SetState, DbOK
<1>3. \A i \in 1 .. Len(stream) : stream'[i] = stream[i]
  <2>1. ASSUME NEW n \in 1 .. MaxEntries, Relay(n)
        PROVE  \A i \in 1 .. Len(stream) : stream'[i] = stream[i]
    BY <2>1, RelayAppends
  <2> QED BY <2>1 DEF Environment, CreateDeployment, MarkFailed, Sweep, ControllerRead,
     ControllerUpdate, JobStep, GrowStale, redisVars
<1>4. \A t \in Thread : pc'[t] = pc[t] /\ (pc[t] # "idle" => Dep(t)' = Dep(t))
  BY <1>1, <1>3, DepType DEF Dep, threadVars
<1>5. Unwatched' \subseteq Unwatched /\ Stranded' \subseteq Stranded
  <2>1. Unwatched' \subseteq Unwatched \cup {}
    BY <1>2, <1>4, UnwatchedGrows DEF WatchingPc
  <2>2. Stranded' \subseteq Stranded \cup {}
    BY <1>2, <1>4, StrandedGrows DEF OutcomePc, WatchingPc
  <2> QED BY <2>1, <2>2
<1>6. faults <= faults' /\ crashes' \in {crashes, crashes + 1}
  BY <1>1, ExcusesAreCounted DEF budgetVars
<1> QED BY <1>5, <1>6, StrandQuiet

LEMMA StrandInit == Init => StrandInv
<1> SUFFICES ASSUME Init PROVE StrandInv OBVIOUS
<1>1. Unwatched = {} /\ Stranded = {}
  BY DEF Init, Unwatched, Stranded, Unattended
<1>2. Excuses = 0
  BY PermitsAreFinite DEF Init, Excuses
<1> QED BY <1>1, <1>2, FS_EmptySet DEF StrandInv

LEMMA StrandStep == TypeOK /\ TypeOK' /\ StrandInv /\ [Next]_vars => StrandInv'
<1> SUFFICES ASSUME TypeOK, TypeOK', StrandInv, [Next]_vars PROVE StrandInv' OBVIOUS
<1>1. CASE UNCHANGED vars
  <2>1. UNCHANGED <<state, stream, pc, msg, faults, crashes>>
    BY <1>1 DEF vars, dbVars, redisVars, threadVars, budgetVars
  <2> QED BY <2>1 DEF StrandInv, Unwatched, Stranded, Unattended, Excuses, Dep
<1> QED BY <1>1, StrandLoop, StrandCrash, StrandThread, StrandEnvironment DEF Next

\* A row in Building that no thread will take out of it has cost two failed
\* calls or the crash of a pod, for any number of pods, threads, entries and
\* deployments (worker/main.py:281-286, 475-481).
THEOREM StrandedNeedsFaultsHolds == Spec => []StrandedNeedsFaults
<1>1. TypeOK /\ StrandInv => StrandedNeedsFaults
  <2> SUFFICES ASSUME TypeOK, StrandInv PROVE 2 * Cardinality(Stranded) <= Excuses
    BY DEF StrandedNeedsFaults, Stranded, Excuses
  <2>1. Stranded \in SUBSET Unwatched /\ IsFiniteSet(Unwatched)
    BY StrandedIsUnwatched DEF StrandInv
  <2>2. /\ Cardinality(Stranded) <= Cardinality(Unwatched)
        /\ Cardinality(Stranded) \in Nat /\ Cardinality(Unwatched) \in Nat
    BY <2>1, FS_Subset, FS_CardinalityType
  <2>3. Excuses \in Nat BY ExcusesAreCounted DEF TypeOK
  <2> QED BY <2>2, <2>3 DEF StrandInv
<1> QED BY <1>1, StrandInit, StrandStep, TypeCorrect, PTL DEF Spec
=============================================================================
