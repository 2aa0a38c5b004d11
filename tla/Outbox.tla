-------------------------------- MODULE Outbox --------------------------------
(***************************************************************************)
(* How the ShipZen API (src/api/main.py) submits a deployment: the         *)
(* handlers create_deployment, rollback_deployment, github_webhook and     *)
(* github_app_webhook, and outbox_relay, which every API process runs as a *)
(* task of its event loop.  The first two handlers write the row and an    *)
(* outbox event in one transaction; the webhooks write the row and then    *)
(* add to the stream themselves.                                           *)
(*                                                                         *)
(* A request is known by the deployment id it makes up, and so is the      *)
(* outbox event it writes.  The asynchronous handlers and the relay of a   *)
(* process share its event loop and do not await between their calls, so   *)
(* that only other processes and the threads of the first two handlers     *)
(* run between them.                                                       *)
(***************************************************************************)
EXTENDS Naturals, Sequences, FiniteSets

CONSTANTS
  Proc,         \* API processes
  Deployment,   \* deployment ids, one for each request
  Project,      \* project ids
  ProjectOf,    \* the project a request names
  NullBranch,   \* requests to create_deployment whose body has "branch": null
  BatchSize,    \* LIMIT of the relay's query
  MaxLen,       \* maxlen of the stream
  MaxEntries,   \* bound: entries ever added to the stream
  MaxFaults,    \* bound: calls to PostgreSQL or Redis that fail
  MaxCrashes    \* bound: processes killed

ASSUME DeploymentAssumption == IsFiniteSet(Deployment)
ASSUME ProjectOfAssumption == ProjectOf \in [Deployment -> Project]
ASSUME NullBranchAssumption == NullBranch \subseteq Deployment
ASSUME SizesAssumption == BatchSize \in Nat \ {0} /\ MaxLen \in Nat \ {0}
ASSUME BoundsAssumption == MaxEntries \in Nat /\ MaxFaults \in Nat /\ MaxCrashes \in Nat

VARIABLES
  state,              \* PostgreSQL: state column of a deployment
  outbox, id, nextId, \* PostgreSQL: outbox_events, their ids, the sequence
  stream, last, lost, \* Redis: stream, entries read, entries trimmed unread
  req, via, home,     \* request: control point, handler, process
  relay, held,        \* relay of a process: control point, events it locked
  faults, crashes     \* how much of the bounds is used

streamVars == <<stream, last, lost>>
reqVars    == <<req, via, home>>
relayVars  == <<relay, held>>
budgetVars == <<faults, crashes>>
outboxVars == <<outbox, id, nextId>>
vars == <<state, outboxVars, streamVars, reqVars, relayVars, budgetVars>>

State    == {"Absent", "Queued", "Building", "Deploying", "Running", "Failed"}
InFlight == {"Queued", "Building", "Deploying"}
Handler  == {"none", "create", "rollback", "webhook", "app"}
ReqPc    == {"new", "insert", "xadd", "markFailed", "done"}
RelayPc  == {"poll", "send", "delete", "down"}

Positions(d) == {i \in DOMAIN stream : stream[i] = d}
Outboxed == {d \in Deployment : via[d] \in {"create", "rollback"}}

\* The process is between two calls of its relay or of a webhook handler.
LoopBusy(p) == \/ relay[p] # "poll"
               \/ \E d \in Deployment : home[d] = p /\ req[d] \in {"xadd", "markFailed"}

Init ==
  /\ state = [d \in Deployment |-> "Absent"]
  /\ outbox = {} /\ id = [d \in Deployment |-> 0] /\ nextId = 1
  /\ stream = <<>> /\ last = 0 /\ lost = {}
  /\ req = [d \in Deployment |-> "new"]
  /\ via = [d \in Deployment |-> "none"]
  /\ home \in [Deployment -> Proc]
  /\ relay = [p \in Proc |-> "poll"]
  /\ held = [p \in Proc |-> {}]
  /\ faults = 0 /\ crashes = 0

Fault == faults < MaxFaults /\ faults' = faults + 1 /\ UNCHANGED crashes
NoFault == UNCHANGED budgetVars

-----------------------------------------------------------------------------
(* The row of a deployment.                                                *)

\* idx_deployments_one_active_per_project
IndexAllows(d, s) ==
  s \in InFlight => \A e \in Deployment \ {d} :
                       ProjectOf[e] = ProjectOf[d] => state[e] \notin InFlight

SetState(d, s) == IndexAllows(d, s) /\ state' = [state EXCEPT ![d] = s]

\* XADD with maxlen: what is trimmed before anybody has read it is lost.
XAdd(s) ==
  LET new == stream \o s
      cut == IF Len(new) > MaxLen THEN Len(new) - MaxLen ELSE 0
  IN  /\ Len(new) <= MaxEntries
      /\ stream' = new
      /\ lost' = lost \cup ((last + 1) .. cut)
      /\ last' = IF cut > last THEN cut ELSE last

-----------------------------------------------------------------------------
(* create_deployment and rollback_deployment, in a thread of the process.  *)

\* The check for a deployment in flight, in a transaction of its own.
CheckInFlight(d) ==
  /\ req[d] = "new" /\ relay[home[d]] # "down"
  /\ \A e \in Deployment : ProjectOf[e] = ProjectOf[d] => state[e] \notin InFlight
  /\ req' = [req EXCEPT ![d] = "insert"]
  /\ via' = [via EXCEPT ![d] = "create"]
  /\ UNCHANGED <<home, state, outboxVars, streamVars, relayVars, budgetVars>>

\* There is a Running deployment to go back to.
FindLastGood(d) ==
  /\ req[d] = "new" /\ relay[home[d]] # "down" /\ d \notin NullBranch
  /\ \E e \in Deployment : ProjectOf[e] = ProjectOf[d] /\ state[e] = "Running"
  /\ req' = [req EXCEPT ![d] = "insert"]
  /\ via' = [via EXCEPT ![d] = "rollback"]
  /\ UNCHANGED <<home, state, outboxVars, streamVars, relayVars, budgetVars>>

\* INSERT INTO outbox_events
AddEvent(d) == /\ outbox' = outbox \cup {d}
               /\ id' = [id EXCEPT ![d] = nextId]
               /\ nextId' = nextId + 1

\* Wrong variant: the row and the event are written in two transactions.
InsertInTwoSteps(d) ==
  /\ req[d] = "insert"
  /\ SetState(d, "Queued")
  /\ \/ AddEvent(d) /\ NoFault
     \/ UNCHANGED outboxVars /\ Fault
  /\ req' = [req EXCEPT ![d] = "done"]
  /\ UNCHANGED <<via, home, streamVars, relayVars>>

\* One transaction inserts the row and the event, or neither: it can be
\* refused by the index, and fail before or after it has committed.
Insert(d) ==
  /\ req[d] = "insert"
  /\ \/ SetState(d, "Queued") /\ AddEvent(d) /\ (NoFault \/ Fault)
     \/ ~IndexAllows(d, "Queued") /\ NoFault /\ UNCHANGED <<state, outboxVars>>
     \/ Fault /\ UNCHANGED <<state, outboxVars>>
  /\ req' = [req EXCEPT ![d] = "done"]
  /\ UNCHANGED <<via, home, streamVars, relayVars>>

-----------------------------------------------------------------------------
(* github_webhook and github_app_webhook, on the event loop.               *)

\* The App's webhook deploys to the projects that deployed from the repository
\* before.
IsDeployed(project) ==
  \E e \in Deployment : ProjectOf[e] = project /\ state[e] # "Absent"

\* Neither handler checks for a deployment in flight.
WebhookInsert(d, h) ==
  /\ req[d] = "new" /\ ~LoopBusy(home[d]) /\ d \notin NullBranch
  /\ h = "app" => IsDeployed(ProjectOf[d])
  /\ SetState(d, "Queued")
  /\ req' = [req EXCEPT ![d] = "xadd"]
  /\ via' = [via EXCEPT ![d] = h]
  /\ UNCHANGED <<home, outboxVars, streamVars, relayVars, budgetVars>>

\* XADD fails before or after Redis has applied it: one handler goes on to
\* mark the row, the other one continues with its next project.
WebhookXadd(d) ==
  /\ req[d] = "xadd"
  /\ \/ XAdd(<<d>>) /\ NoFault /\ req' = [req EXCEPT ![d] = "done"]
     \/ /\ Fault
        /\ XAdd(<<d>>) \/ UNCHANGED streamVars
        /\ req' = [req EXCEPT ![d] = IF via[d] = "webhook" THEN "markFailed" ELSE "done"]
  /\ UNCHANGED <<via, home, state, outboxVars, relayVars>>

\* The UPDATE to Failed, whose own failure is ignored.
MarkFailed(d) ==
  /\ req[d] = "markFailed"
  /\ \/ SetState(d, "Failed") /\ NoFault
     \/ Fault /\ UNCHANGED state
  /\ req' = [req EXCEPT ![d] = "done"]
  /\ UNCHANGED <<via, home, outboxVars, streamVars, relayVars>>

-----------------------------------------------------------------------------
(* outbox_relay of process p.                                              *)

\* Wrong variant: FOR UPDATE is missing and a locked event is seen.
LockNothing(p) == {}

\* Events other relays have locked, which SKIP LOCKED passes over.
Locked(p) == UNION {held[q] : q \in Proc \ {p}}

\* Wrong variant: the relay waits for a full batch.
FullBatchOf(S, T) ==
  /\ S \subseteq T /\ Cardinality(S) = BatchSize
  /\ \A d \in S, e \in T \ S : id[d] < id[e]

\* S is what ORDER BY id LIMIT 10 takes from the events of T.
FirstOf(S, T) ==
  /\ S \subseteq T
  /\ \/ Cardinality(S) = BatchSize
     \/ S = T /\ Cardinality(S) < BatchSize
  /\ \A d \in S, e \in T \ S : id[d] < id[e]

\* SELECT ... ORDER BY id FOR UPDATE SKIP LOCKED LIMIT 10
Select(p) ==
  /\ relay[p] = "poll" /\ ~LoopBusy(p)
  /\ \E S \in SUBSET outbox \ {{}} :
       /\ FirstOf(S, outbox \ Locked(p))
       /\ held' = [held EXCEPT ![p] = S]
  /\ relay' = [relay EXCEPT ![p] = "send"]
  /\ UNCHANGED <<state, outboxVars, streamVars, reqVars, budgetVars>>

\* The XADDs of the events of S, in the order of their ids.
Pipeline(S) ==
  \E s \in [1 .. Cardinality(S) -> S] :
     /\ \A i, j \in DOMAIN s : i < j => id[s[i]] < id[s[j]]
     /\ XAdd(s)

\* pipe.execute(): the whole batch, in one MULTI.
Send(p) ==
  /\ relay[p] = "send" /\ held[p] \cap NullBranch = {}
  /\ Pipeline(held[p]) /\ NoFault
  /\ relay' = [relay EXCEPT ![p] = "delete"]
  /\ UNCHANGED <<held, state, outboxVars, reqVars>>

\* The transaction rolls back and its locks are gone.
Rollback(p) == /\ relay' = [relay EXCEPT ![p] = "poll"]
               /\ held' = [held EXCEPT ![p] = {}]

\* redis-py cannot encode None, the value of a null branch, and then sends
\* nothing of the batch; or the call fails, before or after it is applied.
SendFails(p) ==
  /\ relay[p] = "send"
  /\ IF held[p] \cap NullBranch # {}
     THEN NoFault /\ UNCHANGED streamVars
     ELSE Fault /\ (Pipeline(held[p]) \/ UNCHANGED streamVars)
  /\ Rollback(p)
  /\ UNCHANGED <<state, outboxVars, reqVars>>

\* Wrong variant: the id of the last event instead of the ids of all.
DeleteOne(p) ==
  /\ relay[p] = "delete"
  /\ \E d \in held[p] : outbox' = outbox \ {d}
  /\ Rollback(p) /\ NoFault
  /\ UNCHANGED <<id, nextId, state, streamVars, reqVars>>

\* DELETE ... WHERE id IN and COMMIT, or one of them fails.
Delete(p) ==
  /\ relay[p] = "delete"
  /\ \/ outbox' = outbox \ held[p] /\ NoFault
     \/ Fault /\ UNCHANGED outbox
  /\ Rollback(p)
  /\ UNCHANGED <<id, nextId, state, streamVars, reqVars>>

\* The process is killed, with the requests it handles and its transaction.
Crash(p) ==
  /\ relay[p] # "down"
  /\ crashes < MaxCrashes /\ crashes' = crashes + 1
  /\ relay' = [relay EXCEPT ![p] = "down"]
  /\ held' = [held EXCEPT ![p] = {}]
  /\ req' = [d \in Deployment |->
               IF home[d] = p /\ req[d] # "new" THEN "done" ELSE req[d]]
  /\ UNCHANGED <<faults, via, home, state, outboxVars, streamVars>>

Restart(p) ==
  /\ relay[p] = "down"
  /\ relay' = [relay EXCEPT ![p] = "poll"]
  /\ UNCHANGED <<held, state, outboxVars, streamVars, reqVars, budgetVars>>

-----------------------------------------------------------------------------
(* The consumers of the stream, the controller and the sweeper, seen from  *)
(* here.                                                                   *)

\* A worker reads the next entries.
Deliver ==
  /\ \E n \in (last + 1) .. Len(stream) : last' = n
  /\ UNCHANGED <<state, stream, lost, outboxVars, reqVars, relayVars, budgetVars>>

\* A worker that has read an entry of d, or the controller after it, writes
\* the row whatever it says by now.
Advance(d) ==
  /\ \E i \in Positions(d) \ lost : i <= last
  /\ \E s \in {"Building", "Deploying", "Running", "Failed"} : SetState(d, s)
  /\ UNCHANGED <<outboxVars, streamVars, reqVars, relayVars, budgetVars>>

Sweep(d) ==
  /\ state[d] \in InFlight
  /\ SetState(d, "Failed")
  /\ UNCHANGED <<outboxVars, streamVars, reqVars, relayVars, budgetVars>>

-----------------------------------------------------------------------------
Request(d) == \/ CheckInFlight(d) \/ FindLastGood(d) \/ Insert(d)
              \/ \E h \in {"webhook", "app"} : WebhookInsert(d, h)
              \/ WebhookXadd(d) \/ MarkFailed(d)

RelayStep(p) == Select(p) \/ Send(p) \/ SendFails(p) \/ Delete(p)

Next == \/ \E d \in Deployment : Request(d) \/ Advance(d) \/ Sweep(d)
        \/ \E p \in Proc : RelayStep(p) \/ Crash(p) \/ Restart(p)
        \/ Deliver

Spec == Init /\ [][Next]_vars

\* Relays run and processes are restarted; a webhook that has started goes
\* on, for the relay shares its event loop.
Fairness == /\ \A p \in Proc : WF_vars(RelayStep(p)) /\ WF_vars(Restart(p))
            /\ \A d \in Deployment : WF_vars(WebhookXadd(d) \/ MarkFailed(d))

FairSpec == Spec /\ Fairness

-----------------------------------------------------------------------------
(* Properties.                                                             *)

\* Types; the locks of the relays are on events that exist, one relay each.
TypeOK ==
  /\ state \in [Deployment -> State]
  /\ outbox \subseteq Deployment /\ id \in [Deployment -> Nat] /\ nextId \in Nat
  /\ stream \in Seq(Deployment) /\ Len(stream) <= MaxEntries
  /\ last \in 0 .. Len(stream) /\ lost \subseteq 1 .. last
  /\ req \in [Deployment -> ReqPc] /\ via \in [Deployment -> Handler]
  /\ home \in [Deployment -> Proc]
  /\ relay \in [Proc -> RelayPc] /\ held \in [Proc -> SUBSET outbox]
  /\ \A p, q \in Proc : p # q => held[p] \cap held[q] = {}
  /\ faults \in 0 .. MaxFaults /\ crashes \in 0 .. MaxCrashes

\* The outbox loses nothing: the event of a row written with one waits in the
\* outbox until its entry is in the stream, whatever fails, crashes or is
\* rolled back in between and whoever writes the row meanwhile.
OutboxLosesNothing ==
  \A d \in Outboxed : state[d] # "Absent" => d \in outbox \/ Positions(d) # {}

\* Duplicates need a cause: with several relays at work an entry is added
\* only once more for each call that failed and each process that crashed.
DuplicatesNeedFaults ==
  \A d \in Deployment : Cardinality(Positions(d)) <= 1 + faults + crashes

\* The outbox implements the queue it stands for.
Accepted == {d \in Outboxed : state[d] # "Absent"}
Queue == INSTANCE AtLeastOnce WITH
           Message <- Deployment, accepted <- Accepted,
           delivered <- {d \in Accepted : Positions(d) # {}}
OutboxIsQueue == Queue!Spec

-----------------------------------------------------------------------------
\* "Continuously poll the outbox_events table and forward to Redis"
\* (api/main.py:97): every event leaves the outbox.
EventsAreForwarded ==
  \A d \in Deployment : d \in outbox ~> d \notin outbox
=============================================================================
