------------------------------- MODULE Worker -------------------------------
(***************************************************************************)
(* The ShipZen build worker: src/worker/main.py, queue_client.py and       *)
(* state_machine.py.  Every pod runs one main loop, which takes entries    *)
(* from a Redis stream through a consumer group, and a thread pool that    *)
(* runs process_message.  A counting semaphore keeps the loop from         *)
(* submitting more tasks than there are threads.                           *)
(*                                                                         *)
(* A stream entry is known by its position in the stream; the entries up   *)
(* to `last' were delivered, the ones in `pel' are delivered and not yet   *)
(* acknowledged.  Deployments, their rows in PostgreSQL and the Kubernetes *)
(* Jobs that build them are known by the deployment.                       *)
(***************************************************************************)
EXTENDS Naturals, Sequences, FiniteSets

CONSTANTS
  Pod,          \* replicas of the worker
  Slot,         \* executor threads of one pod; MAX_WORKERS of them
  Deployment,   \* deployment ids
  Project,      \* project ids
  ProjectOf,    \* the project_id column of a deployment
  ReadCount,    \* count argument of XREADGROUP
  MaxEntries,   \* bound: entries ever added to the stream
  MaxFaults,    \* bound: calls to PostgreSQL, Redis or Kubernetes that fail
  MaxCrashes    \* bound: pods killed or asked to terminate

ASSUME SlotAssumption == IsFiniteSet(Slot)
ASSUME ProjectOfAssumption == ProjectOf \in [Deployment -> Project]
ASSUME ReadCountAssumption == ReadCount \in Nat \ {0}
ASSUME BoundsAssumption == /\ MaxEntries \in Nat
                           /\ MaxFaults \in Nat
                           /\ MaxCrashes \in Nat

VARIABLES
  state, kind,                      \* PostgreSQL: deployments
  stream, last, pel, stale, dlq,    \* Redis: stream, consumer group, DLQ
  job, image,                       \* Kubernetes Jobs, images in the registry
  seen,                             \* deployments a controller read as Deploying
  loop, batch, permits, term,       \* main(), one per pod
  pc, msg,                          \* process_message(), one per thread
  faults, crashes                   \* how much of the bounds is used

dbVars     == <<state, kind>>
redisVars  == <<stream, last, pel, stale, dlq>>
k8sVars    == <<job, image, seen>>
podVars    == <<loop, batch, permits, term>>
threadVars == <<pc, msg>>
budgetVars == <<faults, crashes>>
vars == <<dbVars, redisVars, k8sVars, podVars, threadVars, budgetVars>>

MaxWorkers == Cardinality(Slot)
Thread     == Pod \X Slot
EntryId    == 1 .. MaxEntries

\* The states a row takes.  The schema also knows Verifying, which no
\* component ever writes, and Absent stands for a row not inserted yet.
State == {"Absent", "Queued", "Building", "Deploying", "Running", "Failed"}
Kind  == {"build", "rollback", "invalid"}
Job   == {"None", "Pending", "Running", "Succeeded", "Failed"}

\* The states of the partial unique index idx_deployments_one_active_per_project.
InFlight == {"Queued", "Building", "Deploying"}

\* The states in which process_message takes a message for already handled.
AlreadyHandled == {"Building", "Deploying", "Running"}

LoopPc == {"recover", "claimed", "read", "new", "exited", "down"}
EarlyPc   == {"start", "rbSet", "ackReturn"}      \* before the try block
MonitorPc == {"watchPod", "setBuilding", "watchJob", "setDeploying",
              "setFailed", "monFailed", "cleanJob", "cleanJobRaise"}
TryPc     == MonitorPc \cup {"prepare", "ack", "except", "dlq", "release"}
ThreadPc  == {"idle"} \cup EarlyPc \cup TryPc

Up(p)      == loop[p] \notin {"exited", "down"}
Threads(p) == {p} \X Slot
Busy(p)    == {t \in Threads(p) : pc[t] # "idle"}
Dep(t)     == stream[msg[t]]

Init ==
  /\ state = [d \in Deployment |-> "Absent"]
  /\ kind = [d \in Deployment |-> "build"]
  /\ stream = <<>> /\ last = 0 /\ pel = {} /\ stale = {} /\ dlq = {}
  /\ job = [d \in Deployment |-> "None"]
  /\ image = [d \in Deployment |-> FALSE]
  /\ seen = {}
  /\ loop = [p \in Pod |-> "recover"]
  /\ batch = [p \in Pod |-> {}]
  /\ permits = [p \in Pod |-> MaxWorkers]
  /\ term = [p \in Pod |-> FALSE]
  /\ pc = [t \in Thread |-> "idle"]
  /\ msg = [t \in Thread |-> 0]
  /\ faults = 0 /\ crashes = 0

-----------------------------------------------------------------------------
(* Helpers: rows, the stream and the program counter.                      *)

\* PostgreSQL accepts a row of d in state s only if the index has room.
IndexAllows(d, s) ==
  s \in InFlight => \A e \in Deployment \ {d} :
                       ProjectOf[e] = ProjectOf[d] => state[e] \notin InFlight

\* The UPDATE of update_state, whatever the old state is.
SetState(d, s) == /\ IndexAllows(d, s)
                  /\ state' = [state EXCEPT ![d] = s]

\* XACK
Ack(i) == /\ pel' = pel \ {i}
          /\ stale' = stale \ {i}

Goto(t, s) == pc' = [pc EXCEPT ![t] = s] /\ UNCHANGED msg

\* process_message is over and its thread is free again.
Return(t) == /\ pc' = [pc EXCEPT ![t] = "idle"]
             /\ msg' = [msg EXCEPT ![t] = 0]

Fault == faults < MaxFaults /\ faults' = faults + 1 /\ UNCHANGED crashes
NoFault == UNCHANGED budgetVars

-----------------------------------------------------------------------------
(* main(): one step of the loop of pod p.                                  *)

\* Wrong variant: the claimed entries are not submitted.
RecoverForgets(p) ==
  /\ loop[p] = "recover" /\ ~term[p]
  /\ loop' = [loop EXCEPT ![p] = "read"]
  /\ stale' = {}
  /\ UNCHANGED <<stream, last, pel, dlq, batch, permits, term>>
  /\ UNCHANGED <<dbVars, k8sVars, threadVars, budgetVars>>

\* recover_pending_messages: XAUTOCLAIM takes every entry that has been
\* pending for PENDING_MESSAGE_TIMEOUT_MS and restarts its idle time.
Recover(p) ==
  /\ loop[p] = "recover" /\ ~term[p]
  /\ batch' = [batch EXCEPT ![p] = stale]
  /\ loop' = [loop EXCEPT ![p] = IF stale = {} THEN "read" ELSE "claimed"]
  /\ stale' = {}
  /\ UNCHANGED <<stream, last, pel, dlq, permits, term>>
  /\ UNCHANGED <<dbVars, k8sVars, threadVars, budgetVars>>

\* Wrong variant: the read position moves past the end of the stream.
LastReadPastEnd == last + ReadCount

\* The last entry and the entries the next XREADGROUP delivers.
LastRead == IF last + ReadCount <= Len(stream) THEN last + ReadCount ELSE Len(stream)
NextEntries == (last + 1) .. LastRead

\* get_messages; a read that times out delivers nothing.
GetMessages(p) ==
  /\ loop[p] = "read"
  /\ batch' = [batch EXCEPT ![p] = NextEntries]
  /\ loop' = [loop EXCEPT ![p] = IF NextEntries = {} THEN "recover" ELSE "new"]
  /\ last' = LastRead
  /\ pel' = pel \cup NextEntries
  /\ UNCHANGED <<stream, stale, dlq, permits, term>>
  /\ UNCHANGED <<dbVars, k8sVars, threadVars, budgetVars>>

\* The reply of XAUTOCLAIM or XREADGROUP is lost: Redis has claimed or
\* delivered the entries, the loop logs the exception and starts over.
ReplyLost(p) ==
  /\ Fault
  /\ \/ /\ loop[p] = "recover" /\ ~term[p]
        /\ stale' = {}
        /\ UNCHANGED <<last, pel>>
     \/ /\ loop[p] = "read"
        /\ last' = LastRead
        /\ pel' = pel \cup NextEntries
        /\ UNCHANGED stale
  /\ loop' = [loop EXCEPT ![p] = "recover"]
  /\ UNCHANGED <<stream, dlq, batch, permits, term>>
  /\ UNCHANGED <<dbVars, k8sVars, threadVars>>

\* _semaphore.acquire() and _executor.submit() for the next entry of the
\* batch; acquire blocks while there is no permit.
SubmitTask(p) ==
  /\ loop[p] \in {"claimed", "new"}
  /\ permits[p] > 0
  /\ permits' = [permits EXCEPT ![p] = @ - 1]
  /\ \E t \in Threads(p), i \in batch[p] :
       /\ \A j \in batch[p] : i <= j
       /\ pc[t] = "idle"
       /\ pc' = [pc EXCEPT ![t] = "start"]
       /\ msg' = [msg EXCEPT ![t] = i]
       /\ batch' = [batch EXCEPT ![p] = @ \ {i}]
  /\ loop' = [loop EXCEPT ![p] = IF batch'[p] # {} THEN @
                                 ELSE IF @ = "claimed" THEN "read" ELSE "recover"]
  /\ UNCHANGED <<term, dbVars, redisVars, k8sVars, budgetVars>>

\* SIGTERM sets the flag; the loop reads it only when it starts over, then
\* _executor.shutdown(wait=True) waits for the running tasks.
Sigterm(p) ==
  /\ Up(p) /\ ~term[p]
  /\ crashes < MaxCrashes /\ crashes' = crashes + 1
  /\ term' = [term EXCEPT ![p] = TRUE]
  /\ UNCHANGED <<faults, loop, batch, permits>>
  /\ UNCHANGED <<dbVars, redisVars, k8sVars, threadVars>>

\* Wrong variant: shutdown waits for every permit instead of every task.
ExitWithAllPermits(p) ==
  /\ loop[p] = "recover" /\ term[p]
  /\ permits[p] = MaxWorkers
  /\ loop' = [loop EXCEPT ![p] = "exited"]
  /\ UNCHANGED <<batch, permits, term>>
  /\ UNCHANGED <<dbVars, redisVars, k8sVars, threadVars, budgetVars>>

Exit(p) ==
  /\ loop[p] = "recover" /\ term[p]
  /\ Busy(p) = {}
  /\ loop' = [loop EXCEPT ![p] = "exited"]
  /\ UNCHANGED <<batch, permits, term>>
  /\ UNCHANGED <<dbVars, redisVars, k8sVars, threadVars, budgetVars>>

\* The pod is killed: everything it held in memory is gone, and what it was
\* delivered stays pending in Redis.
Crash(p) ==
  /\ Up(p)
  /\ crashes < MaxCrashes /\ crashes' = crashes + 1
  /\ loop' = [loop EXCEPT ![p] = "down"]
  /\ batch' = [batch EXCEPT ![p] = {}]
  /\ pc' = [t \in Thread |-> IF t \in Threads(p) THEN "idle" ELSE pc[t]]
  /\ msg' = [t \in Thread |-> IF t \in Threads(p) THEN 0 ELSE msg[t]]
  /\ UNCHANGED <<faults, permits, term>>
  /\ UNCHANGED <<dbVars, redisVars, k8sVars>>

\* Kubernetes starts a new process, with a fresh semaphore.
Restart(p) ==
  /\ ~Up(p)
  /\ loop' = [loop EXCEPT ![p] = "recover"]
  /\ permits' = [permits EXCEPT ![p] = MaxWorkers]
  /\ term' = [term EXCEPT ![p] = FALSE]
  /\ UNCHANGED batch
  /\ UNCHANGED <<dbVars, redisVars, k8sVars, threadVars, budgetVars>>

-----------------------------------------------------------------------------
(* process_message() before its try block.  None of these paths reaches    *)
(* the finally block that releases the permit.                             *)

\* The branch name does not match: add_to_dlq and return.
RejectInvalid(t) ==
  /\ pc[t] = "start" /\ kind[Dep(t)] = "invalid"
  /\ Ack(msg[t]) /\ dlq' = dlq \cup {msg[t]}
  /\ Return(t) /\ NoFault
  /\ UNCHANGED <<stream, last, dbVars, k8sVars, podVars>>

\* get_deployment and the decision taken on the row it read.
ReadDeployment(t) ==
  /\ pc[t] = "start" /\ kind[Dep(t)] # "invalid"
  /\ Goto(t, IF state[Dep(t)] \in AlreadyHandled THEN "ackReturn"
             ELSE IF kind[Dep(t)] = "rollback" THEN "rbSet" ELSE "prepare")
  /\ NoFault
  /\ UNCHANGED <<dbVars, redisVars, k8sVars, podVars>>

\* A rollback is not built: update_state(Deploying).
AdvanceRollback(t) ==
  /\ pc[t] = "rbSet"
  /\ SetState(Dep(t), "Deploying")
  /\ Goto(t, "ackReturn") /\ NoFault
  /\ UNCHANGED <<kind, redisVars, k8sVars, podVars>>

\* ack_message and return, for a message already handled and for a rollback.
AckReturn(t) ==
  /\ pc[t] = "ackReturn"
  /\ Ack(msg[t]) /\ Return(t) /\ NoFault
  /\ UNCHANGED <<stream, last, dlq, dbVars, k8sVars, podVars>>

\* An exception here has no handler: the future keeps it, nobody reads it.
EarlyError(t) ==
  /\ \/ pc[t] \in EarlyPc /\ Fault
     \/ pc[t] = "rbSet" /\ ~IndexAllows(Dep(t), "Deploying") /\ NoFault
  /\ Return(t)
  /\ UNCHANGED <<dbVars, redisVars, k8sVars, podVars>>

-----------------------------------------------------------------------------
(* process_message() inside its try block.                                 *)

\* Clone, detect the builder, create the Job; a Job that exists (409) is
\* monitored as if it were new.
Prepare(t) ==
  /\ pc[t] = "prepare"
  /\ \/ /\ job' = [job EXCEPT ![Dep(t)] = IF @ = "None" THEN "Pending" ELSE @]
        /\ Goto(t, "watchPod")
     \/ UNCHANGED job /\ Goto(t, "except")
  /\ NoFault
  /\ UNCHANGED <<image, seen, dbVars, redisVars, podVars>>

\* monitor_job returned: ack_message.
AckBuilt(t) ==
  /\ pc[t] = "ack"
  /\ \/ Ack(msg[t]) /\ Goto(t, "release") /\ NoFault
     \/ Fault /\ Goto(t, "except") /\ UNCHANGED <<pel, stale>>
  /\ UNCHANGED <<stream, last, dlq, dbVars, k8sVars, podVars>>

\* Wrong variant: dead-letter the message without recording the failure.
FailTaskSilently(t) ==
  /\ pc[t] = "except"
  /\ Goto(t, "dlq") /\ NoFault
  /\ UNCHANGED <<dbVars, redisVars, k8sVars, podVars>>

\* The except clause: update_state(Failed), then add_to_dlq; an exception
\* in it goes straight to the finally clause.
FailTask(t) ==
  /\ pc[t] = "except"
  /\ \/ SetState(Dep(t), "Failed") /\ Goto(t, "dlq") /\ NoFault
     \/ Fault /\ Goto(t, "release") /\ UNCHANGED state
  /\ UNCHANGED <<kind, redisVars, k8sVars, podVars>>

\* Wrong variant: the except clause releases the permit, and so does finally.
DeadLetterReleases(t) ==
  /\ pc[t] = "dlq"
  /\ Ack(msg[t]) /\ dlq' = dlq \cup {msg[t]} /\ NoFault
  /\ permits' = [permits EXCEPT ![t[1]] = @ + 1]
  /\ Goto(t, "release")
  /\ UNCHANGED <<stream, last, loop, batch, term, dbVars, k8sVars>>

DeadLetter(t) ==
  /\ pc[t] = "dlq"
  /\ \/ Ack(msg[t]) /\ dlq' = dlq \cup {msg[t]} /\ NoFault
     \/ Fault /\ UNCHANGED <<pel, stale, dlq>>
  /\ Goto(t, "release")
  /\ UNCHANGED <<stream, last, dbVars, k8sVars, podVars>>

\* The finally clause: _semaphore.release().
Release(t) ==
  /\ pc[t] = "release"
  /\ permits' = [permits EXCEPT ![t[1]] = @ + 1]
  /\ Return(t) /\ NoFault
  /\ UNCHANGED <<loop, batch, term, dbVars, redisVars, k8sVars>>

-----------------------------------------------------------------------------
(* monitor_job()                                                           *)

\* The pod of the Job left Pending within 300 seconds, or it did not.
WatchPod(t) ==
  /\ pc[t] = "watchPod"
  /\ Goto(t, IF job[Dep(t)] \in {"None", "Pending"} THEN "monFailed" ELSE "setBuilding")
  /\ NoFault
  /\ UNCHANGED <<dbVars, redisVars, k8sVars, podVars>>

SetBuilding(t) ==
  /\ pc[t] = "setBuilding"
  /\ SetState(Dep(t), "Building")
  /\ Goto(t, "watchJob") /\ NoFault
  /\ UNCHANGED <<kind, redisVars, k8sVars, podVars>>

\* Wrong variant: whatever is not a failed Job is a success.
WatchJobNotFailed(t) ==
  /\ pc[t] = "watchJob" /\ job[Dep(t)] # "Running"
  /\ Goto(t, IF job[Dep(t)] = "Failed" THEN "setFailed" ELSE "setDeploying")
  /\ NoFault
  /\ UNCHANGED <<dbVars, redisVars, k8sVars, podVars>>

\* Wrong variant: the watch of a Job that is gone ends without an UPDATE.
WatchJobUntilGone(t) ==
  /\ pc[t] = "watchJob" /\ job[Dep(t)] # "Running"
  /\ \/ job[Dep(t)] = "Succeeded" /\ Goto(t, "setDeploying")
     \/ job[Dep(t)] = "None" /\ Goto(t, "cleanJob")
     \/ job[Dep(t)] # "None" /\ Goto(t, "setFailed")
  /\ NoFault
  /\ UNCHANGED <<dbVars, redisVars, k8sVars, podVars>>

\* The Job finished: a success still has to pass the image scan.  A Job that
\* somebody deleted never reports, and the watch ends without a success.
WatchJob(t) ==
  /\ pc[t] = "watchJob" /\ job[Dep(t)] # "Running"
  /\ \/ job[Dep(t)] = "Succeeded" /\ Goto(t, "setDeploying")
     \/ Goto(t, "setFailed")
  /\ NoFault
  /\ UNCHANGED <<dbVars, redisVars, k8sVars, podVars>>

SetDeploying(t) ==
  /\ pc[t] = "setDeploying"
  /\ SetState(Dep(t), "Deploying")
  /\ Goto(t, "cleanJob") /\ NoFault
  /\ UNCHANGED <<kind, redisVars, k8sVars, podVars>>

\* Build step or image scan failed.
SetFailed(t) ==
  /\ pc[t] = "setFailed"
  /\ SetState(Dep(t), "Failed")
  /\ Goto(t, "cleanJob") /\ NoFault
  /\ UNCHANGED <<kind, redisVars, k8sVars, podVars>>

\* A call failed, or the unique index refused the new state.
MonitorError(t) ==
  /\ \/ pc[t] \in MonitorPc \ {"monFailed", "cleanJob", "cleanJobRaise"} /\ Fault
     \/ pc[t] = "setBuilding" /\ ~IndexAllows(Dep(t), "Building") /\ NoFault
     \/ pc[t] = "setDeploying" /\ ~IndexAllows(Dep(t), "Deploying") /\ NoFault
  /\ Goto(t, "monFailed")
  /\ UNCHANGED <<dbVars, redisVars, k8sVars, podVars>>

\* Wrong variant: the except clause logs the exception and updates nothing.
MonitorLogs(t) ==
  /\ pc[t] = "monFailed"
  /\ Goto(t, "cleanJob") /\ NoFault
  /\ UNCHANGED <<dbVars, redisVars, k8sVars, podVars>>

\* The except clause of monitor_job, whose own exception leaves the function
\* after the finally clause has run.
MonitorFailed(t) ==
  /\ pc[t] = "monFailed"
  /\ \/ SetState(Dep(t), "Failed") /\ Goto(t, "cleanJob") /\ NoFault
     \/ Fault /\ Goto(t, "cleanJobRaise") /\ UNCHANGED state
  /\ UNCHANGED <<kind, redisVars, k8sVars, podVars>>

\* The finally clause deletes the Job and ignores a failure to do so.
CleanJob(t) ==
  /\ pc[t] \in {"cleanJob", "cleanJobRaise"}
  /\ \/ job' = [job EXCEPT ![Dep(t)] = "None"] /\ NoFault
     \/ UNCHANGED job /\ Fault
  /\ Goto(t, IF pc[t] = "cleanJob" THEN "ack" ELSE "except")
  /\ UNCHANGED <<image, seen, dbVars, redisVars, podVars>>

-----------------------------------------------------------------------------
(* What the rest of the system does to this state.                         *)

\* The API inserts a Queued row (create_deployment, rollback_deployment or a
\* webhook); the unique index refuses it while another one is in flight.
CreateDeployment(d, k) ==
  /\ state[d] = "Absent"
  /\ SetState(d, "Queued")
  /\ kind' = [kind EXCEPT ![d] = k]
  /\ UNCHANGED <<redisVars, k8sVars, podVars, threadVars, budgetVars>>

\* The outbox relay or a webhook of the API adds a batch of entries, each of
\* them possibly more than once.
Relay(n) ==
  /\ Len(stream) + n <= MaxEntries
  /\ \E s \in [1 .. n -> {d \in Deployment : state[d] # "Absent"}] : stream' = stream \o s
  /\ UNCHANGED <<last, pel, stale, dlq>>
  /\ UNCHANGED <<dbVars, k8sVars, podVars, threadVars, budgetVars>>

\* A webhook whose XADD brought no reply marks the row, which a worker may
\* have read meanwhile.
MarkFailed(d) ==
  /\ state[d] # "Absent"
  /\ SetState(d, "Failed")
  /\ UNCHANGED <<kind, redisVars, k8sVars, podVars, threadVars, budgetVars>>

\* The sweeper of the controller: 60 minutes without an update.
Sweep(d) ==
  /\ state[d] \in {"Queued", "Building"}
  /\ SetState(d, "Failed")
  /\ UNCHANGED <<kind, redisVars, k8sVars, podVars, threadVars, budgetVars>>

\* reconcile_deployments reads the rows once for a whole pass, in each of
\* the replicas of the controller.
ControllerRead(d) ==
  /\ state[d] = "Deploying" /\ seen' = seen \cup {d}
  /\ UNCHANGED <<job, image, dbVars, redisVars, podVars, threadVars, budgetVars>>

\* It found ready replicas, or none for too long, and updates a row it once
\* read as Deploying, whatever the row says now.
ControllerUpdate(d) ==
  /\ d \in seen
  /\ \E s \in {"Running", "Failed"} : SetState(d, s)
  /\ UNCHANGED <<kind, redisVars, k8sVars, podVars, threadVars, budgetVars>>

\* Kubernetes runs the Job, once and for 1800 seconds at most; its last container
\* pushes the image.
JobStep(d) ==
  /\ \/ job[d] = "Pending" /\ job' = [job EXCEPT ![d] = "Running"] /\ UNCHANGED image
     \/ /\ job[d] = "Running"
        /\ job' = [job EXCEPT ![d] = "Succeeded"]
        /\ image' = [image EXCEPT ![d] = TRUE]
     \/ job[d] = "Running" /\ job' = [job EXCEPT ![d] = "Failed"] /\ UNCHANGED image
  /\ UNCHANGED <<seen, dbVars, redisVars, podVars, threadVars, budgetVars>>

\* An entry has been pending for PENDING_MESSAGE_TIMEOUT_MS, 65 minutes: it
\* waited in a batch, nobody works on it, or its task waits for a Job.  The
\* other steps of a task take 2 (clone) and 5 minutes (watch of the pod).
GrowStale(i) ==
  /\ i \in pel \ stale
  /\ \A t \in Thread : msg[t] = i => pc[t] = "watchJob"
  /\ stale' = stale \cup {i}
  /\ UNCHANGED <<stream, last, pel, dlq>>
  /\ UNCHANGED <<dbVars, k8sVars, podVars, threadVars, budgetVars>>

-----------------------------------------------------------------------------
LoopStep(p) == Recover(p) \/ GetMessages(p) \/ SubmitTask(p) \/ Exit(p)

EarlyStep(t) == \/ RejectInvalid(t) \/ ReadDeployment(t) \/ AdvanceRollback(t)
                \/ AckReturn(t) \/ EarlyError(t)

TryStep(t) == Prepare(t) \/ AckBuilt(t) \/ FailTask(t) \/ DeadLetter(t) \/ Release(t)

MonitorStep(t) == \/ WatchPod(t) \/ SetBuilding(t) \/ WatchJob(t)
                  \/ SetDeploying(t) \/ SetFailed(t) \/ MonitorError(t)
                  \/ MonitorFailed(t) \/ CleanJob(t)

ThreadStep(t) == EarlyStep(t) \/ TryStep(t) \/ MonitorStep(t)

Environment == \/ \E d \in Deployment, k \in Kind : CreateDeployment(d, k)
               \/ \E n \in 1 .. MaxEntries : Relay(n)
               \/ \E d \in Deployment : MarkFailed(d)
               \/ \E d \in Deployment : Sweep(d)
               \/ \E d \in Deployment : ControllerRead(d)
               \/ \E d \in Deployment : ControllerUpdate(d)
               \/ \E d \in Deployment : JobStep(d)
               \/ \E i \in EntryId : GrowStale(i)

Next == \/ \E p \in Pod : LoopStep(p)
        \/ \E p \in Pod : ReplyLost(p)
        \/ \E p \in Pod : Sigterm(p)
        \/ \E p \in Pod : Crash(p)
        \/ \E p \in Pod : Restart(p)
        \/ \E t \in Thread : ThreadStep(t)
        \/ Environment

Spec == Init /\ [][Next]_vars

\* The loop and the threads run, Kubernetes restarts pods and ends Jobs, idle
\* time passes.  Users, faults, crashes and the controller promise nothing.
Fairness == /\ \A p \in Pod : WF_vars(LoopStep(p)) /\ WF_vars(Restart(p))
            /\ \A t \in Thread : WF_vars(ThreadStep(t))
            /\ \A d \in Deployment : WF_vars(JobStep(d))
            /\ \A i \in EntryId : WF_vars(GrowStale(i))

FairSpec == Spec /\ Fairness

-----------------------------------------------------------------------------
(* Properties.                                                             *)

\* Types, and the order last <= Len(stream), stale \subseteq pel of the group.
DbOK     == state \in [Deployment -> State] /\ kind \in [Deployment -> Kind]
RedisOK  == /\ stream \in Seq(Deployment) /\ last \in 0 .. Len(stream)
            /\ pel \subseteq 1 .. last /\ stale \subseteq pel /\ dlq \subseteq 1 .. last
K8sOK    == job \in [Deployment -> Job] /\ image \in [Deployment -> BOOLEAN]
            /\ seen \subseteq Deployment
PodOK    == /\ loop \in [Pod -> LoopPc] /\ batch \in [Pod -> SUBSET (1 .. last)]
            /\ permits \in [Pod -> Nat] /\ term \in [Pod -> BOOLEAN]
ThreadOK == /\ pc \in [Thread -> ThreadPc] /\ msg \in [Thread -> 0 .. last]
            /\ \A t \in Thread : pc[t] # "idle" => msg[t] # 0
BudgetOK == faults \in 0 .. MaxFaults /\ crashes \in 0 .. MaxCrashes

\* Type correctness of the whole state (worker/main.py, queue_client.py).
TypeOK == DbOK /\ RedisOK /\ K8sOK /\ PodOK /\ ThreadOK /\ BudgetOK

\* Where a thread is still to write what became of its build: the try block of
\* monitor_job and its except clause, or the except clause of process_message.
WatchingPc == {"watchJob", "setDeploying", "setFailed", "monFailed"}
OutcomePc  == WatchingPc \cup {"cleanJobRaise", "except"}

\* Rows in Building with no thread in C to take them out of it.
Unattended(C) ==
  {d \in Deployment : state[d] = "Building" /\ \A t \in Thread : pc[t] \in C => Dep(t) # d}

\* A row that stays Building when nobody builds it any more blocks its project
\* and makes every later copy of its message a duplicate.  Threads that build
\* one deployment at once, delete each other's Job or lose the race for a
\* state do not leave one behind: it takes two calls that fail in one task, in
\* the try block and in the except clause or in the except clauses of both
\* functions, or the crash of a pod (worker/main.py:281-286, 475-481).
StrandedNeedsFaults ==
  2 * Cardinality(Unattended(OutcomePc)) <= faults + 2 * MaxWorkers * crashes

\* A message leaves the pending list only once its deployment has left
\* Queued: no crash, lost reply or failed call may acknowledge a build that
\* nobody started.  (A branch name the worker refuses is the exception.)
AckedIsHandled ==
  \A i \in (1 .. last) \ pel :
     state[stream[i]] = "Queued" => kind[stream[i]] = "invalid"

\* A deployment that is to be rolled out has an image: it was built by a Job
\* that succeeded, or it is a rollback, which reuses one.
DeployedHasImage ==
  \A d \in Deployment :
     state[d] \in {"Deploying", "Running"} => image[d] \/ kind[d] = "rollback"

\* The semaphore is never released more often than it was acquired: with
\* the running tasks its permits never exceed MAX_WORKERS, so that a permit
\* always finds a free executor thread.
PermitsCoverThreads ==
  \A p \in Pod : Up(p) => permits[p] + Cardinality(Busy(p)) <= MaxWorkers

\* Pod p can never submit another task: its permits are all lost.
Starved(p) == loop[p] \in {"claimed", "new"} /\ permits[p] = 0 /\ Busy(p) = {}

\* Every entry is delivered and in the end acknowledged or dead-lettered, by
\* whatever pod, unless every pod has lost its last permit for good.
EntriesAreHandled ==
  \A i \in EntryId :
     i <= Len(stream) ~> \/ i <= last /\ i \notin pel
                         \/ \A p \in Pod : Starved(p)

\* A pod that got SIGTERM finishes its tasks and exits, unless its main loop
\* waits for a permit that no task will ever give back.
GracefulExit == \A p \in Pod : term[p] ~> ~Up(p) \/ Starved(p)

-----------------------------------------------------------------------------
(* What the documentation says and the code does not keep.                 *)

\* "HIGH-03 Fix: Removed _semaphore.release() from here because the finally
\* block handles it" (worker/main.py:325, in the branch of a rollback): where
\* every deployment is a rollback, a pod that runs no task has all its permits.
RollbackReturnsPermit ==
  (\A d \in Deployment : kind[d] = "rollback") =>
     \A p \in Pod : Up(p) /\ Busy(p) = {} => permits[p] = MaxWorkers
=============================================================================
