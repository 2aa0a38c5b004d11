---------------------------------- MODULE Views ----------------------------------
(***************************************************************************)
(* What a user sees of deployments while workers and the controller write  *)
(* them: list_deployments and list_global_deployments, page by page, and   *)
(* the status stream of one deployment (websocket_deployment_status), all  *)
(* in src/api/main.py, with the stream's client in the web UI              *)
(* (AutoRefresh.tsx).                                                      *)
(*                                                                         *)
(* Readers do not disturb each other: there is one, who either turns the   *)
(* pages or follows the deployment Subject.                                *)
(***************************************************************************)
EXTENDS Naturals, Sequences, FiniteSets

CONSTANTS
  Deployment,  \* deployment_id, in the order of the identifiers
  Subject,     \* the deployment whose status is followed
  Writer,      \* threads that write a state and publish it afterwards
  Limit,       \* rows of a page
  MaxTime,     \* bound: the clocks show 0 .. MaxTime
  MaxWrites,   \* bound: rows written and messages published while somebody reads
  MaxFaults    \* bound: lost connections, failed PUBLISHes, late SUBSCRIBEs

ASSUME DeploymentAssumption == Deployment \subseteq Nat /\ IsFiniteSet(Deployment)
ASSUME SubjectAssumption == Subject \in Deployment
ASSUME LimitAssumption == Limit \in Nat \ {0}
ASSUME BoundsAssumption == MaxTime \in Nat /\ MaxWrites \in Nat /\ MaxFaults \in Nat

VARIABLES
  rows, state, updated,   \* PostgreSQL: deployments of the project
  unsent,                 \* writers: state of Subject they have yet to publish
  pc,                     \* the reader
  cursor, times,          \* pages: next cursor; how often a row was shown
  touched,                \* pages: rows written with a new updated_at meanwhile
  channel, inbox,         \* stream: SUBSCRIBE; messages not yet forwarded
  fetched,                \* stream: the state of the row, not yet sent
  shown,                  \* stream: the state the client has seen last
  deaf,                   \* stream: a final state went by that nobody will tell
  writes, faults          \* how much of the bounds is used

tableVars  == <<rows, state, updated>>
pageVars   == <<cursor, times, touched>>
streamVars == <<channel, inbox, fetched, shown, deaf>>
vars == <<tableVars, unsent, pc, pageVars, streamVars, writes, faults>>

\* What the stream and its client tell apart: Failed and Running end them (as
\* DLQ would), all others are as good as Building.
State == {"Building", "Running", "Failed"}
Final == {"Running", "Failed"}
Time == 0 .. MaxTime
None == "none"

\* (updated_at, deployment_id), compared as PostgreSQL compares rows.
Key(d) == <<updated[d], d>>
Less(a, b) == a[1] < b[1] \/ (a[1] = b[1] /\ a[2] < b[2])

\* Without a cursor the query has no condition on the key.
Top == <<MaxTime + 1, 0>>

Init ==
  /\ rows \in SUBSET Deployment /\ Subject \in rows
  /\ state = [d \in Deployment |-> "Building"]
  /\ updated \in [Deployment -> Time]
  /\ unsent = [w \in Writer |-> None]
  /\ pc \in {"paging", "away"}
  /\ cursor = Top /\ times = [d \in Deployment |-> 0] /\ touched = {}
  /\ channel = "none" /\ inbox = <<>> /\ fetched = None /\ shown = None /\ deaf = FALSE
  /\ writes = 0 /\ faults = 0

Paging == pc \in {"paging", "paged"}
Streaming == pc \in {"fetch", "send", "listen"}

Write == writes < MaxWrites /\ writes' = writes + 1 /\ UNCHANGED faults
Fault == faults < MaxFaults /\ faults' = faults + 1 /\ UNCHANGED writes

-----------------------------------------------------------------------------
(* The pages.                                                              *)

\* Wrong variant: the cursor is compared by updated_at alone, as in
\* get_deployments_paginated.
UpdatedBelow(c) == {d \in rows : updated[d] < c[1]}

\* WHERE (updated_at, deployment_id) < cursor
Below(c) == {d \in rows : Less(Key(d), c)}

\* ORDER BY updated_at DESC, deployment_id DESC LIMIT: all rows that fewer
\* than Limit others precede.
Page == {d \in Below(cursor) :
           Cardinality({e \in Below(cursor) : Less(Key(d), Key(e))}) < Limit}

\* The reader asks for the next page with the key of the last row, until a
\* page is not full.
NextPage ==
  /\ pc = "paging"
  /\ times' = [d \in Deployment |-> IF d \in Page THEN times[d] + 1 ELSE times[d]]
  /\ \/ Page = {} /\ UNCHANGED cursor
     \/ \E d \in Page : cursor' = Key(d) /\ \A e \in Page : ~Less(Key(e), Key(d))
  /\ \/ Cardinality(Page) < Limit /\ pc' = "paged"
     \/ Cardinality(Page) = Limit /\ UNCHANGED pc
  /\ UNCHANGED <<tableVars, unsent, touched, streamVars, writes, faults>>

-----------------------------------------------------------------------------
(* The writers.                                                            *)

\* Nobody listens for the others.
ToPublish(w, d, s) ==
  unsent' = IF d = Subject /\ ~Paging THEN [unsent EXCEPT ![w] = s] ELSE unsent

Touch(d) == touched' = IF Paging THEN touched \cup {d} ELSE touched

\* Wrong variant: a row that is not there is written as well.
UpsertState(w, d, s, t) ==
  /\ unsent[w] = None /\ Write
  /\ state' = [state EXCEPT ![d] = s] /\ updated' = [updated EXCEPT ![d] = t]
  /\ ToPublish(w, d, s) /\ Touch(d)
  /\ UNCHANGED <<rows, pc, cursor, times, streamVars>>

\* StateMachine.update_state, up to its COMMIT; the time is that of the
\* worker's pod, which may be behind that of other pods.
UpdateState(w, d, s, t) ==
  /\ unsent[w] = None /\ d \in rows /\ Write
  /\ state' = [state EXCEPT ![d] = s] /\ updated' = [updated EXCEPT ![d] = t]
  /\ ToPublish(w, d, s) /\ Touch(d)
  /\ UNCHANGED <<rows, pc, cursor, times, streamVars>>

\* A replica of the controller finds the outcome of a deployment; it leaves
\* updated_at alone.
Outcome(w, d, s) ==
  /\ unsent[w] = None /\ d \in rows /\ s \in Final /\ Write
  /\ state' = [state EXCEPT ![d] = s]
  /\ ToPublish(w, d, s)
  /\ UNCHANGED <<rows, updated, pc, pageVars, streamVars>>

\* The sweeper of the controller, and a webhook that cannot enqueue what it
\* inserted: Failed, and not a word.
FailSilently(d) ==
  /\ d \in rows /\ state[d] \notin Final /\ Write
  /\ state' = [state EXCEPT ![d] = "Failed"]
  /\ deaf' = (deaf \/ (d = Subject /\ ~Paging))
  /\ UNCHANGED <<rows, updated, unsent, pc, pageVars, channel, inbox, fetched, shown>>

\* A user triggers a deployment or a rollback; its updated_at is NOW().
InsertRow(d, t) ==
  /\ d \notin rows /\ Write
  /\ rows' = rows \cup {d} /\ updated' = [updated EXCEPT ![d] = t] /\ Touch(d)
  /\ UNCHANGED <<state, unsent, pc, cursor, times, streamVars>>

\* A Final message that Redis gets between the SUBSCRIBE of the API and its
\* own processing of it is lost on the subscriber.
Deliver(s) ==
  /\ inbox' = IF channel = "active" THEN Append(inbox, s) ELSE inbox
  /\ deaf' = (deaf \/ (channel = "asked" /\ s \in Final))

Publish(w) ==
  /\ unsent[w] # None /\ Deliver(unsent[w])
  /\ unsent' = [unsent EXCEPT ![w] = None]
  /\ UNCHANGED <<tableVars, pc, pageVars, channel, fetched, shown, writes, faults>>

\* The error is logged; or the process dies before it publishes.
PublishFails(w) ==
  /\ unsent[w] # None /\ Fault
  /\ deaf' = (deaf \/ unsent[w] \in Final)
  /\ unsent' = [unsent EXCEPT ![w] = None]
  /\ UNCHANGED <<tableVars, pc, pageVars, channel, inbox, fetched, shown>>

\* monitor_job announces that the pod of a Job is pending, and writes nothing.
PublishPending ==
  /\ ~Paging /\ Write /\ Deliver("Building")
  /\ UNCHANGED <<tableVars, unsent, pc, pageVars, channel, fetched, shown>>

-----------------------------------------------------------------------------
(* The status stream and its client.                                       *)

\* The client opens the socket and sends its token; the API subscribes and
\* does not wait for the answer of Redis.
Connect ==
  /\ pc = "away" /\ pc' = "fetch"
  /\ channel' = "asked" /\ inbox' = <<>>
  /\ UNCHANGED <<tableVars, unsent, pageVars, fetched, shown, deaf, writes, faults>>

Subscribed ==
  /\ channel = "asked" /\ channel' = "active"
  /\ UNCHANGED <<tableVars, unsent, pc, pageVars, inbox, fetched, shown, deaf>>
  /\ UNCHANGED <<writes, faults>>

\* The client hangs up, and will not come back.
See(s) == shown' = s /\ pc' = IF s \in Final THEN "done" ELSE "listen"

\* fetch_initial, in a thread.
Fetch ==
  /\ pc = "fetch" /\ pc' = "send"
  /\ fetched' = state[Subject] /\ deaf' = FALSE
  /\ UNCHANGED <<tableVars, unsent, pageVars, channel, inbox, shown, writes, faults>>

\* Wrong variant: the channel is subscribed to after the row was read.
SendAndSubscribe ==
  /\ pc = "send" /\ See(fetched) /\ fetched' = None
  /\ channel' = "asked" /\ inbox' = <<>>
  /\ UNCHANGED <<tableVars, unsent, pageVars, deaf, writes, faults>>

\* Back on the event loop: the first message is the row as it was read.
SendRow ==
  /\ pc = "send" /\ See(fetched) /\ fetched' = None
  /\ UNCHANGED <<tableVars, unsent, pageVars, channel, inbox, deaf, writes, faults>>

Forward ==
  /\ pc = "listen" /\ inbox # <<>>
  /\ inbox' = Tail(inbox) /\ See(Head(inbox))
  /\ UNCHANGED <<tableVars, unsent, pageVars, channel, fetched, deaf, writes, faults>>

\* Wrong variant: the client opens no other socket.
DropForGood ==
  /\ Streaming /\ Fault /\ pc' = "done"
  /\ channel' = "none" /\ inbox' = <<>> /\ fetched' = None
  /\ UNCHANGED <<tableVars, unsent, pageVars, shown, deaf>>

\* The connection is lost on either side of the API, or the API dies; the
\* client tries again three seconds later.
Drop ==
  /\ Streaming /\ Fault /\ pc' = "away"
  /\ channel' = "none" /\ inbox' = <<>> /\ fetched' = None
  /\ UNCHANGED <<tableVars, unsent, pageVars, shown, deaf>>

\* The client library subscribes again when its connection to Redis breaks.
Resubscribe ==
  /\ Streaming /\ channel = "active" /\ Fault
  /\ channel' = "asked"
  /\ UNCHANGED <<tableVars, unsent, pc, pageVars, inbox, fetched, shown, deaf>>

-----------------------------------------------------------------------------
Next ==
  \/ NextPage \/ Connect \/ Subscribed \/ Fetch \/ SendRow \/ Forward
  \/ Drop \/ Resubscribe
  \/ PublishPending
  \/ \E w \in Writer : Publish(w) \/ PublishFails(w)
  \/ \E w \in Writer, d \in Deployment, s \in State, t \in Time : UpdateState(w, d, s, t)
  \/ \E w \in Writer, d \in Deployment, s \in State : Outcome(w, d, s)
  \/ \E d \in Deployment : FailSilently(d)
  \/ \E d \in Deployment, t \in Time : InsertRow(d, t)

Spec == Init /\ [][Next]_vars

\* The client reconnects, the event loop runs its coroutines, Redis answers,
\* and a thread that committed goes on to publish.
Fairness ==
  /\ WF_vars(Connect) /\ WF_vars(Subscribed) /\ WF_vars(Fetch)
  /\ WF_vars(SendRow) /\ WF_vars(Forward)
  /\ \A w \in Writer : WF_vars(Publish(w))

FairSpec == Spec /\ Fairness

-----------------------------------------------------------------------------
(* Properties.                                                             *)

\* The variables have their types.
TypeOK ==
  /\ rows \subseteq Deployment /\ state \in [Deployment -> State]
  /\ updated \in [Deployment -> Time]
  /\ unsent \in [Writer -> State \cup {None}]
  /\ pc \in {"paging", "paged", "away", "fetch", "send", "listen", "done"}
  /\ cursor \in (Time \X Deployment) \cup {Top}
  /\ times \in [Deployment -> Nat] /\ touched \subseteq rows
  /\ channel \in {"none", "asked", "active"} /\ inbox \in Seq(State)
  /\ fetched \in State \cup {None} /\ (pc = "send" => fetched # None)
  /\ shown \in State \cup {None} /\ deaf \in BOOLEAN
  /\ writes \in 0 .. MaxWrites /\ faults \in 0 .. MaxFaults

\* Whatever is written meanwhile, a row that nobody gave a new updated_at is
\* shown once: on no two pages, and on one of them when the last is read.
\* The controller's outcomes do not count as a new updated_at.
UntouchedShownOnce ==
  \A d \in rows \ touched : times[d] <= 1 /\ (pc = "paged" => times[d] = 1)

\* While the client listens, a final state of the row has a message on its
\* way: forwarded next, or to be published by the thread that wrote it.
\* The exceptions are in deaf: the states written silently, a PUBLISH that
\* failed, and one that outran a SUBSCRIBE.
FinalIsOnItsWay ==
  pc = "listen" /\ state[Subject] \in Final /\ ~deaf =>
    \/ \E i \in DOMAIN inbox : inbox[i] \in Final
    \/ \E w \in Writer : unsent[w] \in Final

\* The client is told in the end, however often it loses the connection.
FinalIsTold ==
  ~Paging /\ state[Subject] \in Final ~>
    shown \in Final \/ state[Subject] \notin Final \/ deaf
=============================================================================
