------------------------------- MODULE Pipeline -------------------------------
(***************************************************************************)
(* The API of Outbox and the build workers of Worker in one system.  They  *)
(* share the rows of the deployments and the stream of Redis, and either   *)
(* takes over from actions of the other's environment: where Outbox lets   *)
(* anybody who has read an entry write its row, there are the loops and    *)
(* threads of Worker now, and where Worker lets rows and entries appear,   *)
(* the handlers and relays of Outbox.                                      *)
(*                                                                         *)
(* The maxlen of the stream is never reached here: no entry is lost unread.*)
(***************************************************************************)
EXTENDS Naturals, Sequences, FiniteSets

CONSTANTS
  Deployment, Project, ProjectOf,  \* as in Outbox and Worker
  Proc, NullBranch, BatchSize,     \* as in Outbox
  Pod, Slot, ReadCount,            \* as in Worker
  MaxEntries,                      \* bound: entries ever added to the stream
  MaxApiFaults, MaxApiCrashes,     \* bounds of Outbox
  MaxPodFaults, MaxPodCrashes      \* bounds of Worker

VARIABLES
  state, kind, stream, last,                       \* shared
  outbox, id, nextId, req, via, home, relay, held, \* of the API
  apiFaults, apiCrashes,
  pel, stale, dlq, job, image, seen,               \* of the workers
  loop, batch, permits, term, pc, msg, podFaults, podCrashes

apiVars == <<outbox, id, nextId, req, via, home, relay, held, apiFaults, apiCrashes>>
podVars == <<pel, stale, dlq, job, image, seen,
             loop, batch, permits, term, pc, msg, podFaults, podCrashes>>
vars == <<state, kind, stream, last, apiVars, podVars>>

API == INSTANCE OutboxProofs WITH
         MaxLen <- MaxEntries + 1, lost <- {},
         MaxFaults <- MaxApiFaults, MaxCrashes <- MaxApiCrashes,
         faults <- apiFaults, crashes <- apiCrashes

Pods == INSTANCE WorkerProofs WITH
          MaxFaults <- MaxPodFaults, MaxCrashes <- MaxPodCrashes,
          faults <- podFaults, crashes <- podCrashes

Init == API!Init /\ Pods!Init

-----------------------------------------------------------------------------
(* Steps of either side leave what is the other's own alone.                *)

\* What a handler asks for: create_deployment and the App's webhook accept
\* branch names that the workers refuse.
KindsOf(h) == CASE h = "rollback" -> {"rollback"}
                [] h = "webhook"  -> {"build"}
                [] OTHER          -> {"build", "invalid"}

\* A step of a request, which may insert its row.
Submit(d) ==
  /\ API!Request(d)
  /\ IF state[d] = "Absent" /\ state'[d] = "Queued"
     THEN \E k \in KindsOf(via'[d]) : kind' = [kind EXCEPT ![d] = k]
     ELSE UNCHANGED kind

ApiStep == /\ \/ \E d \in Deployment : Submit(d)
              \/ \E p \in Proc : /\ API!RelayStep(p) \/ API!Crash(p) \/ API!Restart(p)
                                 /\ UNCHANGED kind
           /\ UNCHANGED podVars

PodStep == /\ \/ \E p \in Pod : \/ Pods!LoopStep(p) \/ Pods!ReplyLost(p)
                                \/ Pods!Sigterm(p) \/ Pods!Crash(p) \/ Pods!Restart(p)
              \/ \E t \in Pods!Thread : Pods!ThreadStep(t)
           /\ UNCHANGED apiVars

\* The controller, Kubernetes and time, as Worker sees them.
RestStep == /\ \/ \E d \in Deployment : \/ Pods!Sweep(d) \/ Pods!JobStep(d)
                                        \/ Pods!ControllerRead(d) \/ Pods!ControllerUpdate(d)
               \/ \E i \in Pods!EntryId : Pods!GrowStale(i)
            /\ UNCHANGED apiVars

Next == ApiStep \/ PodStep \/ RestStep

Spec == Init /\ [][Next]_vars

-----------------------------------------------------------------------------
(* Properties.                                                             *)

\* Each side finds in the other one the environment it was modelled with:
\* the system behaves as Outbox and as Worker say (api/main.py:96-123,
\* worker/main.py:497-545).
ApiIsOutbox == API!Spec
PodsAreWorkers == Pods!Spec

\* Nobody forgets a deployment: while a row that was written with its event
\* is Queued, and its branch name is one the workers accept, the event waits
\* in the outbox, or an entry for it waits to be read, or is pending and will
\* be claimed by some worker, whatever fails or crashes on either side
\* (api/main.py:639-657, worker/queue_client.py).
AcceptedIsUnderWay ==
  \A d \in API!Outboxed : state[d] = "Queued" /\ kind[d] # "invalid" =>
     \/ d \in outbox
     \/ \E i \in API!Positions(d) : i > last \/ i \in pel
=============================================================================
