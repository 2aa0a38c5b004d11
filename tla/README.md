# ShipZen in TLA+

ShipZen turns a Git repository into a running application: an API accepts
deployments, a worker builds images, a controller reconciles a Kubernetes
cluster with a PostgreSQL database. This directory holds TLA+ models of the
parts that coordinate, TLC runs on small instances, and proofs checked by TLAPS.
`PROJECT.json` is the index: components, runs, the source lines behind every
definition, hazards, findings, theorems.

    tlc -workers 2 -config Worker_live.cfg MCWorker.tla     # one run
    tlapm WorkerProofs.tla                                   # the proofs of a module

## 1. Inventory

| Component | Source | State | Operations | What is hard |
|---|---|---|---|---|
| Submission | `api/main.py` create_deployment, rollback_deployment, github_webhook, github_app_webhook, outbox_relay | rows of `deployments`, `outbox_events` | insert row and event; insert row and XADD; relay events | crash between two writes, several relays, poison events, trimming |
| Queue | `worker/queue_client.py`, Redis | stream, group, pending list, dead letters | XREADGROUP, XAUTOCLAIM, XACK, dead-letter | lost replies, redelivery, idle claims |
| Build worker | `worker/main.py`, `state_machine.py`, `database.py` | semaphore, executor, batches, threads; Jobs; rows | main loop, process_message, monitor_job, SIGTERM | threads and pods on one message, early returns, errors inside handlers |
| Project lifecycle | `api/main.py`, `controller/main.py` | `projects.status`, namespaces, ECR | create, delete, provision, terminate, repair | stale rows, two replicas, the failure counter |
| Application reconciliation | `controller/main.py` reconcile_deployments | Deployments, Services, routes | apply, mark Running/Failed, supersede, clean up | stale lists, partial cleanup, replicas |
| Index on rows | `api/schema.sql:59` | one in-flight row per project | every UPDATE of state | writers in three programs; a guard of every write in the models, not a property |
| Secrets and variables | `api/main.py:1134-1328` | one JSON secret per project | read, change, write | lost updates |
| Authentication | `api/auth.py` | token cache and breaker of each process | validate, open, close after a rest | stale roles, answers that come late |
| Users and members | `api/main.py`, `api/database.py` | users, project_members | first admin, change a role, add, remove | check-then-act |
| Listing | `api/main.py:737, 1678` | the client's cursor | keyset pages | rows written between pages, equal times |
| Status streams | `api/main.py:790`, `AutoRefresh.tsx` | subscription, the state last shown | snapshot, forward, reconnect | writers that publish after they commit, or not at all |
| Audit, metrics, analyzer, builders, UI, infrastructure | | | | no coordination of their own |

How they interact: the API writes a row and an event in one transaction; a
relay in every API process forwards events to the stream; worker pods read the
stream as one consumer group and move the row through Queued, Building and
Deploying; controller replicas read rows, act on Kubernetes and write Running or
Failed; a sweeper in the controller fails rows that have not moved for an hour.
Nobody holds a lock across these steps; the partial unique index and conditions
in SQL are the only mutual exclusion. The index is there only where init_db has created
it (`api/schema.sql:60`), whose errors are logged and swallowed (`api/database.py:183`);
`infra/system/schema-configmap.yaml` lacks it. The models assume it.

What makes each part correct is the list of properties in section 3; what can
go wrong, line by line, is the list `hazards` of `PROJECT.json`.

## 2. Modules

    AtLeastOnce   what the outbox promises              (abstract)
    Outbox        submission, relays, webhooks          implements AtLeastOnce; OutboxProofs
    Worker        queue, pods, threads, builds          WorkerProofs
    Pipeline      Outbox and Worker as one system       implements both; PipelineProofs
    Lifecycle     projects and controllers              LifecycleProofs
    Reconcile     rows and objects of an application    ReconcileProofs
    Access        tokens, breaker, roles of users       AccessProofs
    Views         pages and status stream of rows       ViewsProofs
    Secrets       the secret of a project               SecretsProofs
    MCOutbox, MCWorker, MCPipeline, MCLifecycle, MCAccess, MCViews, MCSecrets
                                                        model values, symmetry

Each module cuts the system at the database and the queue. What lies beyond
the cut appears as an environment that may do more than the real one: `Worker`
sees the API as rows that appear (`CreateDeployment`), batches of entries for
existing rows (`Relay`) and rows that a webhook marks (`MarkFailed`); `Outbox` sees
the workers as entries that are read (`Deliver`) and rows of such entries that are
written in any order (`Advance`). `Pipeline` shows that these are not mere
assumptions. `Reconcile` in turn sees the queue and the workers as messages that
are pending and rows that are written at any time. `Views` takes the writers of
all three programs together: any state may be written to any row at any time,
as the other modules establish much less freely.

### Worker

One action per statement that another actor can see in between: reading a batch,
acquiring a permit and submitting, each UPDATE, XACK, the release. `pc[t]` is
the control point of thread `t` in process_message and monitor_job; `loop[p]`
that of main(). A pod is `<<p, slot>>` threads and a count of `permits`.

* Redis: `stream` is the sequence of entries, `last` the last-delivered id,
  `pel` the pending list, `stale` those idle for 65 minutes, `dlq` the dead
  letters. XREADGROUP and XAUTOCLAIM move entries in Redis before the reply
  arrives; `ReplyLost` loses the reply.
* `kind` is what the message says: a normal build, a rollback, or a branch
  name that is refused. Entries of one deployment carry the same fields.
* The first UPDATE of a monitor is `SetBuilding`; `SetState` refuses
  what the unique index refuses, and the exception takes the code's path.
* `ControllerRead`/`ControllerUpdate` let a controller write Running or Failed
  on any row it once read as Deploying: the real one may act on a stale row
  in the same way, and does so in fewer cases.
* `GrowStale`: an entry may become idle in a batch that waits for a permit, when
  nobody works on it, or while its thread waits for a Job (activeDeadline 1800 s
  plus retries and the scan; the other steps of a task are bounded by two and
  five minutes, far below 65).
* Left out, for no property depends on them: the rows of `builds`
  (record_build), published status events, UPDATEs of port and health path,
  clean-up of the workspace and of image tags, log formatting.

### Outbox

`req[d]` is the control point of the request that made up the id `d`, `via`
its handler, `home` its process. `relay[p]` and `held[p]` are the control
point of a relay and the rows its transaction has locked. create_deployment and
rollback_deployment run in threads of the server, so that other steps come
between their transactions; the webhooks and the relay run on the event loop
and make blocking calls without awaiting, so that within one process they
exclude each other (`LoopBusy`). A call to PostgreSQL or Redis that fails may
have been applied or not. `XAdd` trims exactly at MAXLEN, which the server
does for `maxlen` without `~`; redis-py's default is approximate trimming, which
trims less, so that exact trimming is the worse case.

### Pipeline

`Pipeline` instantiates `Outbox` (as `API`) and `Worker` (as `Pods`) over one table of
deployments (`state`) and one stream (`stream`, `last`). A step of the system is a step
of one side, taken with the variables of the other side's own unchanged:

* `ApiStep`: a request, a relay, a crash or a restart of an API process, by the
  actions of Outbox. An INSERT also fixes what the message will say (`kind`):
  rollback_deployment writes rollbacks, github_webhook checks the branch name with the
  regular expression the workers use (`api/main.py:73`, `worker/main.py:309`), the
  other two handlers let names through that the workers refuse.
* `PodStep`: the loops and threads of Worker, which take the place of `Deliver` and
  `Advance`.
* `RestStep`: controller, Jobs and time, by the actions of Worker.

The environment actions `CreateDeployment`, `Relay` and `MarkFailed` of Worker and
`Deliver`, `Advance` and `Sweep` of Outbox are not in this system: the theorems
ApiIsOutboxHolds and PodsAreWorkersHolds say that the other side's steps are
such steps. The stream is never trimmed here (`MaxLen` is above `MaxEntries`), for
Worker has no trimmed entries; what trimming loses is in Outbox.

### Lifecycle

`task[c][p]` is the thread of controller `c` on project `p`: it starts with the
status that was read at the start of the pass and acts on that, whatever the
row says since. Kubernetes keeps a namespace that is being deleted readable until
`Finalize`. `failures` is `_project_failures`; only an exception that leaves
`_reconcile_project` counts, and only getting the connection is outside its
try block. Each project has a namespace of its own (`projects.namespace` is
UNIQUE). A pass that cannot list the cluster ends without work and is a
stuttering step. At most `MaxRequests` requests to delete a project are between
their access check and their UPDATE at once.

`replicas` are the controllers at work, one or more of `Controller`. They are
chosen in the initial state and never change, so that one run shows what
holds with one replica only (TerminatedIsGone) beside what holds with two.

### Reconcile

The deployments of one project are numbered in the order of their INSERTs.
`state`, `replicas`, `late` and `newer` are the columns of their rows (`late`:
the time limit of the state has passed; `newer`: the order of `updated_at`, which
decides what a rollback copies), `dep`, `size`, `ready` and `part` the cluster:
which Deployments exist, their `spec.replicas`, those with a ready pod, and
their Services and routes. "Queued" stands for Queued and Building.

A pass of controller `c` goes through `pc[c]`: sweeper and SELECT of the projects
(`BeginPass`), the lists of the cluster (`ListDeployments`, `ListServices`, `ListRoutes`), the
look at the namespace (`CheckNamespace`), SELECT of the rows (`ReadRows`), then for each row, in any
order, the manifests (`ApplyDeployment`, `ApplyRoute`) and the verdict
(`Decide`, or `Promote` and `Commit`), at last the orphans (`FindOrphans`, `DeleteDeployment`,
`DeleteService`, `DeleteRoute`). All of it acts on what was listed and read, not
on what is true by then. What a row leads to depends on these values alone, so
that `ReadRows` computes it (`plan`) and forgets the lists; the actions that
follow use it one by one.

* `status` is the project's: Ready or Failed. The module is about a project whose namespace
  exists and which nobody deletes; provisioning and deletion are in Lifecycle. Where a call
  fails decides what follows. A failed list ends the pass for every project
  (`FailLists`). Without a connection the exception leaves `_reconcile_project` and
  is counted (`NoConnection`, `failures`); after `MaxFailures` in a row the project is skipped until
  the controller restarts. A failed look at the namespace is caught and makes the
  project Failed (`SetFailed`, `controller/main.py:398`), and nothing makes it Ready again. Errors
  of the calls that follow are only logged (`Abort`), and the next pass tries again.
  rollback_deployment and the webhooks do not ask for the status.
* `conflict`: apply_manifests patches on an ApiException with status 409, but
  create_from_yaml of the kubernetes client wraps it in an exception of its own
  (`deployhub_analysis.md:215` notes it), in which case a Deployment that exists
  is not patched. The client is a dependency, so that both are allowed and
  each behaviour keeps to one of them.
* A promotion is a transaction of READ COMMITTED with two UPDATEs: `Promote` finds the
  rows that serve as others have committed them (`Superseded`) and locks them with its
  own (`Locked`), `Commit` makes both UPDATEs visible. In between, others read the
  old rows, and wait to write the locked ones. The two UPDATEs take their locks
  in one step, so that the deadlock of two promotions that lock each other's rows, which
  PostgreSQL ends by failing one of them, is not shown; a pass that fails there
  is `Abort`.
* Left out: the ExternalSecret, which is applied and looked for like the Service
  and the route but never deleted; the disruption budget; the image, which no
  code changes after the INSERT; published events (see Views); the metric.

### Access

`pc[r]` is the control point of a request: waiting for GitHub, at one of the
statements of get_or_create_user, back on the event loop, or in its handler.
`held[r]` is the role it will act with. The two calls to GitHub are one, for
nothing is decided in between. `cache[p]` and `aged[p]` are the TTLCache of a
process (`aged`: sixty seconds have passed since the entry was stored, which
reading it does not change), `failures`, `open` and `rested` its breaker. The
requests of a process share its event loop and give way to each other at each
await, and that is where the actions end. When the thirty seconds are over the
breaker closes and lets every request through, not the one its comment
(`auth.py:102`) announces; the failures are still counted, so that the first that
fails opens it again.

Two first users may both become administrators: each counts the rows before the
other has committed, and their INSERTs do not conflict. The docstring of
get_or_create_user ("The first user created gets the 'admin' role") and
`docs/ISSUES_AND_RESOLUTIONS.md:137` speak of this race as resolved by explicit
commits, which do not prevent it under READ COMMITTED. The property asks for
what the code does give: at least one administrator.

Left out: the stub token of local development and the check of a project's
members, which is one query.

### Views

One reader either turns the pages of a list or follows the status of one
deployment; readers do not disturb each other. `rows`, `state` and `updated` are
the table. `updated` takes any value at any write: workers write the time of
their pod's clock and API and database their own, and the
controller and the sweeper leave the column alone. The cursor is the key of the last row of a page.

The status stream subscribes without waiting for the answer of Redis
(`channel`: asked, then active), reads the row in a thread (`Fetch`), sends it
(`SendRow`) and forwards what is published. A writer commits (`UpdateState`,
`Outcome`) and publishes later (`unsent`, `Publish`), out of order with others or
never. The client stops at the first final state it sees, even if the row moves
on, and otherwise reconnects for ever. `deaf` records that a final state went by
without a message that reaches the client that is connected: the sweeper wrote
it silently, the PUBLISH failed, or Redis got it before the SUBSCRIBE. Reading
the row again ends it. A client that stays connected through one of these is not
told; nothing in the code tells it, and the pings keep the socket open.

### Secrets

Each handler is a read of the whole dictionary and a write of the whole
dictionary, to which AWS is one register. `stale[r]` records that another
write came between. put_env_var reads the VersionId and does not pass it on. A
detail seen on the way: put_env_var names an undefined variable after it has
written (`api/main.py:1173`), so that it answers 500 to a request it has carried
out.

## 3. Properties and proofs

TLC shows a property on the instance of a run; a theorem shows it for all values
of the constants: any number of pods, threads, deployments, entries, faults.

| Property | Says | Run | Theorem |
|---|---|---|---|
| Worker!TypeOK | types; order of the group's sets | Worker_live | TypeCorrect |
| AckedIsHandled | a message is acknowledged only after its row left Queued | Worker_live | AckedIsHandledHolds |
| EntriesAreHandled | every entry ends acknowledged or dead-lettered | Worker_live | - (liveness) |
| GracefulExit | SIGTERM ends the pod | Worker_live | - (liveness) |
| StrandedNeedsFaults | a row that stays Building with nobody to build it has a cause | Worker_threads, Worker_live | StrandedNeedsFaultsHolds |
| DeployedHasImage | nothing is rolled out that was not built | Worker_threads | DeployedHasImageHolds |
| PermitsCoverThreads | the semaphore is never over-released | Worker_threads | PermitsCoverThreadsHolds, PermitFindsThreadHolds |
| Outbox!TypeOK | types; no event in two relays' hands | Outbox_queue | TypeCorrect |
| OutboxLosesNothing | a row written with its event has the event in the outbox or an entry in the stream | Outbox_queue | OutboxLosesNothingHolds |
| DuplicatesNeedFaults | a duplicate needs a failed call or a crash | Outbox_queue | DuplicatesNeedFaultsHolds |
| OutboxIsQueue | the outbox implements AtLeastOnce | Outbox_queue | OutboxImplementsQueue (its safety part) |
| ApiIsOutbox | with the workers beside it the API is what Outbox says | by hand (section 4) | ApiIsOutboxHolds |
| PodsAreWorkers | with the API beside them the workers are what Worker says | by hand | PodsAreWorkersHolds |
| AcceptedIsUnderWay | a Queued row has its event in the outbox or an entry that is unread or pending | by hand | AcceptedIsUnderWayHolds |
| Lifecycle!TypeOK | types; the counter stops at three | Lifecycle_replicas | TypeCorrect |
| TenantIsKept | only the owner's deletion takes a namespace away | Lifecycle_replicas | TenantIsKeptHolds |
| NamespaceIsProvisioned | a missing namespace comes back | Lifecycle_replicas | - (liveness) |
| TerminatedIsGone | Terminated means gone, with one replica | Lifecycle_replicas | TerminatedIsGoneHolds |
| Reconcile!TypeOK | types; pods belong to Deployments that exist | Reconcile_pass | TypeCorrect |
| OneServing | at most one Running row of a project has replicas, with one replica of the controller | Reconcile_pass | OneServingHolds, OneServesAlone |
| ServingIsSpared | no pass takes anything away from a row that is Running, with one replica | Reconcile_pass | ServingIsSparedHolds |
| LeftoversNeedFaults | no Service or route outlives its Deployment without a fault, with one replica | Reconcile_pass | LeftoversNeedFaultsHolds |
| DeploymentSettles | a Deploying row does not block its project, unless the project is given up | Reconcile_pass | - (liveness) |
| OrphanIsDeleted | the Deployment of a Failed row goes away, unless the project is given up | Reconcile_pass | - (liveness) |
| DriftIsCorrected | a Running deployment gets its objects back, or is Failed, unless the project is given up | Reconcile_pass | - (liveness) |
| Access!TypeOK | types; a breaker counts only calls that failed | Access_roles | TypeCorrect |
| SomebodyIsAdmin | a platform with users has an administrator | Access_roles | SomebodyIsAdminHolds |
| AdminsAreAdmins | nobody acts as an administrator whose row says otherwise | Access_roles | AdminsAreAdminsHolds |
| BreakerSpares | no call to GitHub after five failures without a rest | Access_roles | BreakerSparesHolds |
| RevokedRoleExpires | a role taken away is forgotten | Access_roles | - (liveness) |
| Views!TypeOK | types; what was touched is a row | Views_readers | TypeCorrect |
| UntouchedShownOnce | turning the pages shows such a row exactly once | Views_readers | UntouchedShownOnceHolds |
| FinalIsOnItsWay | a listener has a final state coming | Views_readers | FinalIsOnItsWayHolds |
| FinalIsTold | the client is told of a final state in the end | Views_readers | - (liveness) |
| SerialRequestsKeepOthers | a request nobody interferes with changes one key | - | SerialRequestsKeepOthersHolds |

SomebodyIsAdmin and AdminsAreAdmins hold until an administrator changes a role:
update_user_role may demote the last one, and a cache may be a minute behind.

The inductive invariants:

* `AckedIsHandled` needs to know what a thread between its decision and its
  XACK has written: at `ackReturn` the row has been found or made
  non-Queued, at `ack` and `dlq` an UPDATE went before. No row ever returns to
  Queued.
* `DeployedHasImage` needs that a thread at `setDeploying` saw the Job succeed,
  that a succeeded Job has pushed its image, and that a row somebody `seen` as
  Deploying has one.
* `PermitsCoverThreads` holds by counting: a permit is given up before a task
  starts and comes back at most once, in the last step of the task. Tasks that
  return early only lower the sum.
* `StrandedNeedsFaults` counts twice (`StrandInv`): rows in Building that no thread at
  its Job watches any more, and those of them that no thread is about to write at all. The
  first failed call takes a row from the watched to the unwatched, the second one from
  there to the stranded; a crash may take both steps for every thread of the pod. What
  the proof has to show is that nothing else does: a thread that another one's
  write, Job or clean-up disturbs still comes to a clause that writes the outcome.
* `OutboxLosesNothing` needs that a relay about to delete its events has sent them
  (`SentInv`), which rests on a count: a pipeline with as many entries as events, in
  strictly growing order of their ids, has each event. Requests under way have no
  row, event or entry (`FreshInv`).
* `DuplicatesNeedFaults`: the entries of a deployment and the one it still expects
  are together at most one more than the failures (`CountInv`). A relay that
  fails between sending and deleting makes an event expect an entry again, and pays.
* `OutboxImplementsQueue`: only the INSERT with an event accepts, and what is added to
  the stream for an accepted deployment is a delivery; both follow from `FreshInv`.
* `Pipeline`: a simultaneous induction. `Inv` joins the types and invariants of both
  sides (`KeepInv` of Outbox, `ReadInv` of Worker). While it holds, each step of the system
  is a step of `API!Next` and one of `Pods!Next` (StepIsApi, StepIsPods), and such
  steps keep it (InvStep), by the lemmas of OutboxProofs and WorkerProofs taken for
  the constants of the system. A thread writes only rows of an entry somebody has read
  (`ReadInv`), which is what `Advance` asks for; a relay and a webhook send only entries
  of rows that exist (`FreshInv`), which is what `Relay` asks for. Every theorem
  about either side then holds of the system (SystemIsSafe collects four of them), and
  AcceptedIsUnderWay is what neither says alone: OutboxLosesNothing gives the entry, and
  AckedIsHandled that it is unread or pending as long as its row is Queued.
* `Lifecycle`: a thread works on a project only while its counter is below
  three (`CountedInv`); whatever heads for deletion was deleted by its owner
  (`DeletedInv`); with one replica, once a thread has seen the namespace gone
  nobody else can be about to create it (`GoneInv`). With two replicas TLC
  refutes TerminatedIsGone: one replica applies the tenant manifests while the
  other one finishes a deletion. infra/controller starts two replicas.
* `OneServing`: between `Promote` and `Commit` the transaction has taken the replicas of
  all rows that serve but its own (`TakenInv`). Nothing else makes a row serve: a
  rollback and a late worker write Queued, Deploying or Failed only. The invariant
  holds with any number of replicas as long as no two promotions overlap (`Alone`), and
  that is what OneServesAlone states; with one replica they cannot.
* `ServingIsSpared`: what a pass may yet delete it has planned as an orphan when it
  read the rows, and for an orphan it has no verdict (`CleanInv`). A row that was Failed then
  can be Queued and Deploying again by the time of the cleanup, but only a verdict makes it
  Running, and with one replica it is this pass that would give it (`SpareInv`).
* `LeftoversNeedFaults` counts deployments that are loose (`LooseInv`): with a Service or a
  route, or about to get one, and no Deployment, or with a route and no Service, in which
  case the cleanup would skip the route. A cleanup under way tightens one again. Each
  fault loosens one at most, and no other step any.
* `BreakerSpares`: a process whose count has reached the threshold and that has not
  rested since has its breaker open (`BreakerInv`). It is inductive because an
  answer that fails beyond the threshold opens the breaker again: requests that
  were let through together may close and open it in any order.
* `SomebodyIsAdmin` needs to know (`AdminInv`) that a request about to insert an
  ordinary user has seen a row of somebody else: rows are never deleted, so that
  the first row to be there is an administrator's. `AdminsAreAdmins` is inductive
  with the types: what a request carries to the cache is the row as it was read or
  inserted, and no row ceases to be an administrator's but by a change of roles.
* `UntouchedShownOnce`: an untouched row has been shown exactly when its key is not
  below the cursor, or the last page was read (`PageInv`). A page is characterised by counting (fewer than
  Limit rows precede its rows), so that the step needs a lemma: when a page is
  full, what lies below its last row is what is not on it, and when it is not full
  it has all. Both follow from the smallest number of rows that precede one.
* `FinalIsOnItsWay` must hold from the read of the row on, while its answer is not yet
  sent, and with the state that was read as one more way to tell (`StreamInv`).
* Secrets: a request whose `stale` is false has as its copy the secret with its own
  key changed (`FreshInv`).

Assumptions of the proofs: the ASSUMEs of the modules, which TLC evaluates in
every run (for `Worker`: finitely many executor threads, `ProjectOf` is a
function, counts are naturals; for `Outbox` and `Views`: finitely many deployments).
The theorems of PipelineProofs state these assumptions as a hypothesis (`Sizes`). Only model-checked: liveness, and the
liveness of the refinement, which need fairness and are out of this prover's reach.

## 4. Runs

| Run | Instance | Why it is enough |
|---|---|---|
| Worker_threads | 1 pod, 2 threads, 2 deployments of one project, 2 entries, no faults | a duplicate and a competitor for the index in flight at once |
| Worker_live | 1 pod, 1 thread, 2 entries, 2 faults, 1 crash, fairness | an entry behind another one; a crash or failed call at each control point, also in the clause that handles a failed call; a lost permit starves the pod |
| Outbox_queue | 2 processes (the first request at the first one, by symmetry), 2 requests for one project, stream of 1, batch of 2, 1 fault, 1 crash, fairness | each request by each handler; both relays; trimming |
| Lifecycle_replicas | 1 or 2 replicas, 1 project, 4 faults, 1 deletion by hand, fairness | one replica skips the project and the other still works; a stale thread beside the deletion |
| Reconcile_pass | 1 controller, 2 deployments, 1 fault, skipped after 1 failure (3 in the code), fairness | a second deployment supersedes the first; a fault at every call of a pass, each with its own consequence; the project is given up in either way |
| Access_roles | 1 process, 2 requests, 2 users, breaker of 2, 3 faults, 1 change of a role, fairness | two first users at once; an answer that comes after the breaker has opened; a role changed while a request is about to store it |
| Views_readers | 3 deployments, pages of 2, 2 times, 2 writers, 2 writes, 2 faults, fairness | a full and a last page, equal times, a row that moves between pages; publishes that cross; a connection lost twice |

Two instances are too large for five minutes: two processes in Access, whose
requests meet in the table of users only, and two pods with threads in Worker.
The safety properties of both are proved for any number. Views was also checked
with three writes (1.2 million states).

Pipeline is in no run: its instance with one API process, one pod with one
thread, one deployment, two entries and a fault and a crash on either side has 1.2
million states. `Pipeline_small.cfg` checks it by hand, in two minutes with four
workers: TypeOK, AcceptedIsUnderWay and the two refinements ApiIsOutbox and PodsAreWorkers.

    tlc -workers 4 -config Pipeline_small.cfg MCPipeline.tla

A worker that acknowledges a failed task without writing its row (`FailTaskSilently`
for `FailTask`) violates AcceptedIsUnderWay there.

The safety properties of Reconcile_pass were also checked with two faults (one million states).

OneServing, ServingIsSpared and LeftoversNeedFaults are about one replica of the controller; the
platform starts two, without electing a leader (`infra/controller/deployment.yaml:9`). With
`Controller = {c1, c2}` and without their hypothesis TLC refutes them all:

* Two promotions overlap. One replica has listed the first row with a ready pod and still
  has it to promote, while the other one, which listed it before the pod was ready and
  finds it late, fails it. That frees the index, a second row is built and gets ready,
  and each of the two promotions finds nothing to supersede, for neither has committed.
  Both rows are Running with a replica.
* One replica is to promote a row that the other one fails in the same way. A third pass reads the
  row as Failed and has its Deployment as an orphan; then the promotion is committed, and
  the cleanup deletes the Deployment of a row that is Running by now, although the comment at
  `controller/main.py:531` says of such states "never garbage collect these". The next
  pass applies it again.
* One replica has applied the Deployment of a row and is about to create its Service and
  route; the other one fails the row as late and cleans it up in its next pass. Then the
  first one creates the Service and the route again, which no pass will ever look for.

With one replica a row that is only Deploying, another of the states of that comment,
can lose its Deployment the same way.

Five more runs each show one statement of the code or the documentation that the
code does not keep; see `findings` in `PROJECT.json`.

* Worker_permit_leak: a rollback keeps its permit (`worker/main.py:326` against
  the comment above it). Everything returned before the try block does.
* Outbox_null_branch: a request with `"branch": null` blocks the outbox.
* Lifecycle_deletion: a pass overwrites Terminating with Ready.
* Reconcile_rollback (3 deployments, no faults): the deployment that superseded
  another one fails before a pass has noticed that the other one has no pods any
  more; the rollback copies its 0 replicas and can never become ready.
* Secrets_versions: setting a variable brings back another one that was deleted
  meanwhile.

One more disagreement needs no run: `docs/ISSUES_AND_RESOLUTIONS.md:105` says that a
build whose pod crashed is picked up by another pod. The message is claimed, but
process_message finds the row Building and acknowledges it
(`worker/main.py:316`); the sweeper fails the row an hour later.

Bounds appear as constants in the guards: `MaxEntries`, `MaxFaults`,
`MaxCrashes`, `MaxDrift`, `MaxRequests`, `MaxDeployments`, `MaxChanges`, `MaxWrites`,
`MaxTime`. They bound how often the environment
interferes, never what the program does. `CHECK_DEADLOCK FALSE` is used because
the bounded environment runs out of requests and faults, and because a starved
pod really stops.

Fairness: weak fairness for the steps a running program takes by itself (the
main loop and threads of a worker, relays, passes and threads of a controller),
for the kubelet that restarts pods, for Jobs, which have a deadline, for the
idle time of pending entries, for the limits in a controller's queries and for
Kubernetes' finalizers. In Access, a request that waits for an answer gets one
(httpx and PostgreSQL have timeouts), its handler returns, and cache entries grow
old and are dropped. In Views, the client reconnects (`AutoRefresh.tsx` tries again
after three seconds), the event loop runs its coroutines, Redis answers a SUBSCRIBE, and a
thread that committed goes on to publish. Pods of applications may come and go or never get ready. Users, faults,
crashes, the sweeper and the controller's view of a deployment are never fair.
EntriesAreHandled and GracefulExit name the one exception the code has: a
pod whose permits are all lost. NamespaceIsProvisioned names three: the owner's
deletion, the state Failed, which no branch of the controller leaves, and the
skipping of a project after three failures, which lasts until a restart.
DeploymentSettles, OrphanIsDeleted and DriftIsCorrected name the last two as `GivenUp`: the loop of
the controller goes on for ever, but a pass takes care of a project only while it is
Ready and not skipped, and one failed look at its namespace is enough. They also rest on
failed calls being finitely many, as the bound makes them: a row whose Deployment was
not listed is passed over before its time limit (`controller/main.py:474`), so that it
stays Deploying for as long as the call that creates the Deployment fails.
DriftIsCorrected is content with a row that becomes Failed, which happens without a grace
period when its pods were not ready as they were listed, and asks for the number of
replicas only where the client lets the controller patch (`conflict`).
RevokedRoleExpires names a role given back; FinalIsTold the states nobody
publishes (`deaf`) and a row that leaves its final state.

Every property of a passing run has a mutant in `PROJECT.json`: an operator of
the same module, commented "Wrong variant", that replaces a definition and
makes TLC report the property.

## 5. Plan

1. Worker, Outbox, Lifecycle, Reconcile, Access, Views and Secrets, with the proofs
   of their safety properties: done.
2. Composition of Outbox and Worker: done, in Pipeline.
3. The transaction of a verdict in Reconcile, with PostgreSQL's row locks and
   snapshots: done.
4. An abstract specification of the rows of a project that Worker, Outbox and
   Reconcile all implement.
5. Reconcile beside Pipeline, in place of ControllerRead, ControllerUpdate and Sweep.

## 6. Not modelled

* Repository analyzer and image builders: `analyzer.py` looks for files in a
  checked-out tree and `builder.py` fills in the manifest of a Job. Both are
  sequential functions of their input, without state, and what can go wrong in them
  is in their data. The Job itself succeeds, fails or disappears in Worker.
* Audit log and retention: rows that are appended and never read by the parts
  modelled here; a DELETE of old ones every day.
* Metrics, rate limits, log streams: written or copied, and never read back.
* Project members: each handler checks and writes in one transaction, roles of
  members never change, and the owner is never removed, so that no
  interleaving makes a check stale. `restart_deployment` (`api/main.py:1791`)
  patches a Deployment by the first eight characters of its id, while the controller names it
  by the whole id; it changes no state the models have.
* The pool of connections of a pod loses one for each commit that fails in
  `__exit__` (`worker/database.py:18`); Worker lets every call fail, but not for good.
* Web UI (but for the client of the status stream), Terraform, manifests, CI,
  dashboards and scripts hold no protocol of the system; replica counts, restart
  policy and limits are taken from them.
