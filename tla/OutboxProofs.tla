------------------------------ MODULE OutboxProofs ------------------------------
(***************************************************************************)
(* Proofs about Outbox: types, that the outbox loses nothing, that an      *)
(* entry is added again only for a failed call or a crash, and that each   *)
(* step of the outbox is a step of the queue it stands for.                *)
(***************************************************************************)
EXTENDS Outbox, FiniteSetTheorems, TLAPS

\* One deployment of a project is in flight.
OneActive == \A d \in Deployment : IndexAllows(d, state[d])

\* A request that has not come to its end: what it has not written is not
\* there, and only the handlers with an outbox write events.  What has an
\* event or an entry has a row.
FreshInv ==
  \A d \in Deployment :
    /\ req[d] \in {"new", "insert"} => state[d] = "Absent" /\ Positions(d) = {}
    /\ req[d] = "insert" => d \in Outboxed
    /\ req[d] \in {"xadd", "markFailed"} => d \notin Outboxed /\ state[d] # "Absent"
    /\ d \in outbox => d \in Accepted /\ req[d] = "done"
    /\ Positions(d) # {} => state[d] # "Absent"

\* What a relay is about to delete has been sent.
SentInv ==
  \A p \in Proc : relay[p] = "delete" => \A d \in held[p] : Positions(d) # {}

\* A relay has sent the event of d and is about to delete it.
Sent(d) == \E p \in Proc : relay[p] = "delete" /\ d \in held[p]

\* An entry for d is still to come, without any failure.
Pending(d) == req[d] \in {"new", "insert", "xadd"} \/ (d \in outbox /\ ~Sent(d))

Weight(d) == IF Pending(d) THEN 1 ELSE 0

\* The entries a deployment has and the one it expects, together, exceed one
\* only by failures.
CountInv ==
  \A d \in Deployment :
    Cardinality(Positions(d)) + Weight(d) <= 1 + faults + crashes

USE DEF State, InFlight, Handler, ReqPc, RelayPc

-----------------------------------------------------------------------------
(* The stream.                                                             *)

LEMMA PositionsType ==
  ASSUME TypeOK, NEW d \in Deployment
  PROVE  /\ Positions(d) = {i \in 1 .. Len(stream) : stream[i] = d}
         /\ IsFiniteSet(Positions(d)) /\ Cardinality(Positions(d)) \in Nat
  <1>1. Len(stream) \in Nat /\ DOMAIN stream = 1 .. Len(stream) BY DEF TypeOK
  <1>2. Positions(d) = {i \in 1 .. Len(stream) : stream[i] = d} BY <1>1 DEF Positions
  <1>3. IsFiniteSet(1 .. Len(stream)) BY <1>1, FS_Interval
  <1>4. Positions(d) \in SUBSET (1 .. Len(stream)) BY <1>2
  <1>5. IsFiniteSet(Positions(d)) BY <1>3, <1>4, FS_Subset
  <1> QED BY <1>2, <1>5, FS_CardinalityType

\* What XADD leaves of the stream: the old entries, then the new ones.
LEMMA XAddAppends ==
  ASSUME TypeOK, NEW s \in Seq(Deployment), XAdd(s)
  PROVE  /\ stream' \in Seq(Deployment)
         /\ Len(stream') = Len(stream) + Len(s) /\ Len(stream') <= MaxEntries
         /\ \A i \in 1 .. Len(stream) : stream'[i] = stream[i]
         /\ \A i \in 1 .. Len(s) : stream'[Len(stream) + i] = s[i]
         /\ last' \in 0 .. Len(stream') /\ lost' \subseteq 1 .. last'
  <1> DEFINE new == stream \o s
             cut == IF Len(new) > MaxLen THEN Len(new) - MaxLen ELSE 0
  <1>1. /\ Len(stream) \in Nat /\ Len(s) \in Nat /\ last \in Nat /\ last <= Len(stream)
        /\ stream \in Seq(Deployment) /\ lost \subseteq 1 .. last
    BY DEF TypeOK
  <1>2. /\ stream' = new /\ Len(new) <= MaxEntries /\ lost' = lost \cup ((last + 1) .. cut)
        /\ last' = IF cut > last THEN cut ELSE last
    BY DEF XAdd
  <1>3. /\ new \in Seq(Deployment) /\ Len(new) = Len(stream) + Len(s)
        /\ \A i \in 1 .. Len(stream) : new[i] = stream[i]
        /\ \A i \in 1 .. Len(s) : new[Len(stream) + i] = s[i]
    BY <1>1
  <1>4. cut \in Nat /\ cut <= Len(new) BY <1>1, <1>3, SizesAssumption
  <1> HIDE DEF new, cut
  <1>5. last' \in 0 .. Len(new) /\ last' \in Nat /\ last <= last' BY <1>1, <1>2, <1>3, <1>4
  <1>6. lost' \subseteq 1 .. last'
    <2> SUFFICES ASSUME NEW i \in lost' PROVE i \in 1 .. last' OBVIOUS
    <2>1. CASE i \in lost BY <2>1, <1>1, <1>5
    <2>2. CASE i \in (last + 1) .. cut BY <2>2, <1>1, <1>2, <1>4, <1>5
    <2> QED BY <2>1, <2>2, <1>2
  <1> QED BY <1>2, <1>3, <1>5, <1>6

\* A pipeline adds each event of a relay once.
LEMMA PipelineAddsEach ==
  ASSUME TypeOK, NEW p \in Proc, Pipeline(held[p])
  PROVE  \E s \in Seq(Deployment) :
           /\ XAdd(s)
           /\ \A i \in 1 .. Len(s) : s[i] \in held[p]
           /\ \A d \in held[p] : \E i \in 1 .. Len(s) : s[i] = d
           /\ \A i, j \in 1 .. Len(s) : i # j => s[i] # s[j]
  <1> DEFINE S == held[p]
             n == Cardinality(S)
  <1>1. S \in SUBSET Deployment BY DEF TypeOK
  <1>2. IsFiniteSet(S) /\ n \in Nat
    BY <1>1, DeploymentAssumption, FS_Subset, FS_CardinalityType
  <1>3. PICK s \in [1 .. n -> S] :
          /\ \A i, j \in DOMAIN s : i < j => id[s[i]] < id[s[j]]
          /\ XAdd(s)
    BY DEF Pipeline
  <1> HIDE DEF n
  <1>4. \A i \in 1 .. n : s[i] \in S /\ id[s[i]] \in Nat
    BY <1>1, <1>3 DEF TypeOK
  <1>5. \A i, j \in 1 .. n : i # j => s[i] # s[j]
    <2> SUFFICES ASSUME NEW i \in 1 .. n, NEW j \in 1 .. n, i # j PROVE s[i] # s[j] OBVIOUS
    <2>1. i < j \/ j < i BY <1>2
    <2>2. id[s[i]] < id[s[j]] \/ id[s[j]] < id[s[i]] BY <1>3, <2>1
    <2> QED BY <2>2, <1>4
  <1>6. s \in Injection(1 .. n, S) BY <1>3, <1>5 DEF Injection, IsInjective
  <1>7. IsFiniteSet(1 .. n) /\ Cardinality(1 .. n) = n BY <1>2, FS_Interval
  <1>8. s \in Surjection(1 .. n, S) BY <1>2, <1>6, <1>7, FS_Injection DEF n
  <1>9. \A d \in S : \E i \in 1 .. n : s[i] = d BY <1>8 DEF Surjection
  <1>10. s \in Seq(Deployment) /\ Len(s) = n BY <1>1, <1>2, <1>3
  <1> QED BY <1>3, <1>4, <1>5, <1>9, <1>10

-----------------------------------------------------------------------------
(* Types.                                                                  *)

LEMMA InitType == Init => TypeOK
  <1> SUFFICES ASSUME Init PROVE TypeOK OBVIOUS
  <1>1. home \in [Deployment -> Proc] BY DEF Init
  <1>2. stream \in Seq(Deployment) /\ Len(stream) = 0 BY DEF Init
  <1> QED BY <1>1, <1>2, BoundsAssumption DEF Init, TypeOK

\* Calls and crashes use up the bounds.
LEMMA FaultType == ASSUME TypeOK, Fault PROVE faults' \in 0 .. MaxFaults /\ crashes' = crashes
  BY BoundsAssumption DEF TypeOK, Fault

\* What XADD has to do with types.
LEMMA StreamType ==
  ASSUME TypeOK, (\E s \in Seq(Deployment) : XAdd(s)) \/ UNCHANGED streamVars
  PROVE  /\ stream' \in Seq(Deployment) /\ Len(stream') <= MaxEntries
         /\ last' \in 0 .. Len(stream') /\ lost' \subseteq 1 .. last'
  <1>1. CASE \E s \in Seq(Deployment) : XAdd(s) BY <1>1, XAddAppends
  <1>2. CASE UNCHANGED streamVars BY <1>2 DEF streamVars, TypeOK
  <1> QED BY <1>1, <1>2

LEMMA RequestType == ASSUME TypeOK, NEW d \in Deployment, Request(d) PROVE TypeOK'
  <1>1. CASE CheckInFlight(d)
    BY <1>1 DEF CheckInFlight, TypeOK, outboxVars, streamVars, relayVars, budgetVars
  <1>2. CASE FindLastGood(d)
    BY <1>2 DEF FindLastGood, TypeOK, outboxVars, streamVars, relayVars, budgetVars
  <1>3. CASE Insert(d)
    <2>1. faults' \in 0 .. MaxFaults /\ crashes' \in 0 .. MaxCrashes
      BY <1>3, FaultType DEF Insert, NoFault, budgetVars, TypeOK
    <2>2. state' \in [Deployment -> State] BY <1>3 DEF Insert, SetState, TypeOK
    <2>3. /\ outbox' \subseteq Deployment /\ outbox \subseteq outbox'
          /\ id' \in [Deployment -> Nat] /\ nextId' \in Nat
      <3>1. CASE AddEvent(d) BY <3>1 DEF AddEvent, TypeOK
      <3>2. CASE UNCHANGED outboxVars BY <3>2 DEF outboxVars, TypeOK
      <3> QED BY <1>3, <3>1, <3>2 DEF Insert
    <2>4. held' \in [Proc -> SUBSET outbox'] BY <1>3, <2>3 DEF Insert, relayVars, TypeOK
    <2> QED BY <1>3, <2>1, <2>2, <2>3, <2>4 DEF Insert, TypeOK, streamVars, relayVars
  <1>4. CASE \E h \in {"webhook", "app"} : WebhookInsert(d, h)
    BY <1>4 DEF WebhookInsert, SetState, TypeOK, outboxVars, streamVars, relayVars, budgetVars
  <1>5. CASE WebhookXadd(d)
    <2>1. faults' \in 0 .. MaxFaults /\ crashes' \in 0 .. MaxCrashes
      BY <1>5, FaultType DEF WebhookXadd, NoFault, budgetVars, TypeOK
    <2>2. <<d>> \in Seq(Deployment) OBVIOUS
    <2>3. (\E s \in Seq(Deployment) : XAdd(s)) \/ UNCHANGED streamVars
      BY <1>5, <2>2 DEF WebhookXadd
    <2> QED BY <1>5, <2>1, <2>3, StreamType DEF WebhookXadd, TypeOK, outboxVars, relayVars
  <1>6. CASE MarkFailed(d)
    <2>1. faults' \in 0 .. MaxFaults /\ crashes' \in 0 .. MaxCrashes
      BY <1>6, FaultType DEF MarkFailed, NoFault, budgetVars, TypeOK
    <2> QED BY <1>6, <2>1 DEF MarkFailed, SetState, TypeOK, outboxVars, streamVars, relayVars
  <1> QED BY <1>1, <1>2, <1>3, <1>4, <1>5, <1>6 DEF Request

LEMMA RollbackType ==
  ASSUME TypeOK, NEW p \in Proc, Rollback(p), outbox' \in {outbox, outbox \ held[p]}
  PROVE  /\ relay' \in [Proc -> RelayPc] /\ outbox' \subseteq Deployment
         /\ held' \in [Proc -> SUBSET outbox']
         /\ \A q, r \in Proc : q # r => held'[q] \cap held'[r] = {}
  BY DEF Rollback, TypeOK

LEMMA RelayType == ASSUME TypeOK, NEW p \in Proc, RelayStep(p) PROVE TypeOK'
  <1>1. CASE Select(p)
    <2>1. PICK S \in SUBSET outbox :
             FirstOf(S, outbox \ Locked(p)) /\ held' = [held EXCEPT ![p] = S]
      BY <1>1 DEF Select
    <2>2. S \subseteq outbox \ Locked(p) BY <2>1 DEF FirstOf
    <2>3. \A q \in Proc \ {p} : S \cap held[q] = {} BY <2>2 DEF Locked
    <2>4. held' \in [Proc -> SUBSET outbox] BY <2>1 DEF TypeOK
    <2>5. \A q, r \in Proc : q # r => held'[q] \cap held'[r] = {} BY <2>1, <2>3 DEF TypeOK
    <2> QED BY <1>1, <2>4, <2>5
          DEF Select, TypeOK, outboxVars, streamVars, reqVars, budgetVars
  <1>2. CASE Send(p)
    <2>1. (\E s \in Seq(Deployment) : XAdd(s)) \/ UNCHANGED streamVars
      BY <1>2, PipelineAddsEach DEF Send
    <2> QED BY <1>2, <2>1, StreamType DEF Send, TypeOK, outboxVars, reqVars, NoFault, budgetVars
  <1>3. CASE SendFails(p)
    <2>1. (\E s \in Seq(Deployment) : XAdd(s)) \/ UNCHANGED streamVars
      BY <1>3, PipelineAddsEach DEF SendFails
    <2>2. faults' \in 0 .. MaxFaults /\ crashes' \in 0 .. MaxCrashes
      BY <1>3, FaultType DEF SendFails, NoFault, budgetVars, TypeOK
    <2>3. outbox' = outbox /\ Rollback(p) BY <1>3 DEF SendFails, outboxVars
    <2> QED BY <1>3, <2>1, <2>2, <2>3, StreamType, RollbackType
          DEF SendFails, TypeOK, outboxVars, reqVars
  <1>4. CASE Delete(p)
    <2>1. faults' \in 0 .. MaxFaults /\ crashes' \in 0 .. MaxCrashes
      BY <1>4, FaultType DEF Delete, NoFault, budgetVars, TypeOK
    <2>2. outbox' \in {outbox, outbox \ held[p]} /\ Rollback(p) BY <1>4 DEF Delete
    <2> QED BY <1>4, <2>1, <2>2, RollbackType DEF Delete, TypeOK, streamVars, reqVars
  <1> QED BY <1>1, <1>2, <1>3, <1>4 DEF RelayStep

LEMMA ProcessType == ASSUME TypeOK, NEW p \in Proc, Crash(p) \/ Restart(p) PROVE TypeOK'
  <1>1. CASE Crash(p)
    <2>1. crashes' \in 0 .. MaxCrashes BY <1>1, BoundsAssumption DEF Crash, TypeOK
    <2>2. held' \in [Proc -> SUBSET outbox] BY <1>1 DEF Crash, TypeOK
    <2>3. \A q, r \in Proc : q # r => held'[q] \cap held'[r] = {} BY <1>1 DEF Crash, TypeOK
    <2>4. req' \in [Deployment -> ReqPc] BY <1>1 DEF Crash, TypeOK
    <2> QED BY <1>1, <2>1, <2>2, <2>3, <2>4 DEF Crash, TypeOK, outboxVars, streamVars
  <1>2. CASE Restart(p)
    BY <1>2 DEF Restart, TypeOK, outboxVars, streamVars, reqVars, budgetVars
  <1> QED BY <1>1, <1>2

LEMMA TypeStep == TypeOK /\ [Next]_vars => TypeOK'
  <1> SUFFICES ASSUME TypeOK, [Next]_vars PROVE TypeOK' OBVIOUS
  <1>1. ASSUME NEW d \in Deployment, Advance(d) \/ Sweep(d) PROVE TypeOK'
    <2>1. \E s \in State : SetState(d, s) BY <1>1 DEF Advance, Sweep
    <2>2. state' \in [Deployment -> State] BY <2>1 DEF SetState, TypeOK
    <2> QED BY <1>1, <2>2 DEF Advance, Sweep, TypeOK, outboxVars, streamVars, reqVars, relayVars, budgetVars
  <1>2. CASE Deliver
    <2>1. last' \in 0 .. Len(stream) /\ lost \subseteq 1 .. last' BY <1>2 DEF Deliver, TypeOK
    <2> QED BY <1>2, <2>1 DEF Deliver, TypeOK, outboxVars, reqVars, relayVars, budgetVars
  <1>3. CASE UNCHANGED vars
    BY <1>3 DEF vars, TypeOK, outboxVars, streamVars, reqVars, relayVars, budgetVars
  <1> QED BY <1>1, <1>2, <1>3, RequestType, RelayType, ProcessType DEF Next

\* For any number of processes, requests and projects, any sizes and bounds:
\* the state is well typed, and no two relays hold the same event.
THEOREM TypeCorrect == Spec => []TypeOK
  BY InitType, TypeStep, PTL DEF Spec
-----------------------------------------------------------------------------
(* The entries of a deployment.                                            *)

\* A step adds one entry for each deployment of D, and forgets none.
EntriesAdded(D) ==
  \A d \in Deployment :
    /\ Positions(d) \subseteq Positions(d)'
    /\ d \notin D => Positions(d)' = Positions(d)
    /\ Cardinality(Positions(d)') <= Cardinality(Positions(d)) + 1
    /\ d \in D => Positions(d)' # {}

LEMMA NoEntryAdded == ASSUME TypeOK, UNCHANGED stream PROVE EntriesAdded({})
  <1> SUFFICES ASSUME NEW d \in Deployment
               PROVE  /\ Positions(d)' = Positions(d)
                      /\ Cardinality(Positions(d)') <= Cardinality(Positions(d)) + 1
    BY DEF EntriesAdded
  <1>1. Positions(d)' = Positions(d) BY DEF Positions
  <1>2. Cardinality(Positions(d)) \in Nat BY PositionsType
  <1> QED BY <1>1, <1>2

LEMMA EachEntryAdded ==
  ASSUME TypeOK, TypeOK', NEW s \in Seq(Deployment), XAdd(s), NEW D,
         \A i \in 1 .. Len(s) : s[i] \in D,
         \A d \in D : \E i \in 1 .. Len(s) : s[i] = d,
         \A i, j \in 1 .. Len(s) : i # j => s[i] # s[j]
  PROVE  EntriesAdded(D)
  <1> DEFINE n == Len(stream)
             m == Len(s)
  <1>1. /\ n \in Nat /\ m \in Nat /\ Len(stream') = n + m
        /\ \A i \in 1 .. n : stream'[i] = stream[i]
        /\ \A i \in 1 .. m : stream'[n + i] = s[i]
    <2>1. stream \in Seq(Deployment) /\ s \in Seq(Deployment) BY DEF TypeOK
    <2> QED BY <2>1, XAddAppends
  <1> HIDE DEF n, m
  <1> SUFFICES ASSUME NEW d \in Deployment
               PROVE  /\ Positions(d) \subseteq Positions(d)'
                      /\ d \notin D => Positions(d)' = Positions(d)
                      /\ Cardinality(Positions(d)') <= Cardinality(Positions(d)) + 1
                      /\ d \in D => Positions(d)' # {}
    BY DEF EntriesAdded
  <1>2. Positions(d) = {i \in 1 .. n : stream[i] = d} /\ IsFiniteSet(Positions(d))
        /\ Cardinality(Positions(d)) \in Nat
    BY PositionsType DEF n
  <1>3. stream' \in Seq(Deployment) BY DEF TypeOK
  <1>4. DOMAIN stream' = 1 .. n + m BY <1>1, <1>3
  <1>5. Positions(d)' = {i \in 1 .. n + m : stream'[i] = d} BY <1>4 DEF Positions
  <1>6. \A i \in 1 .. n + m : i \in 1 .. n \/ \E k \in 1 .. m : i = n + k
    <2> SUFFICES ASSUME NEW i \in 1 .. n + m, i \notin 1 .. n PROVE i - n \in 1 .. m /\ i = n + (i - n)
      OBVIOUS
    <2> QED BY <1>1
  <1>7. Positions(d)' = Positions(d) \cup {n + k : k \in {k \in 1 .. m : s[k] = d}}
    <2>1. ASSUME NEW i \in Positions(d)'
          PROVE  i \in Positions(d) \cup {n + k : k \in {k \in 1 .. m : s[k] = d}}
      <3>1. i \in 1 .. n + m /\ stream'[i] = d BY <2>1, <1>5
      <3>2. CASE i \in 1 .. n BY <3>1, <3>2, <1>1, <1>2
      <3>3. CASE \E k \in 1 .. m : i = n + k
        <4>1. PICK k \in 1 .. m : i = n + k BY <3>3
        <4>2. s[k] = d BY <4>1, <3>1, <1>1
        <4> QED BY <4>1, <4>2
      <3> QED BY <3>1, <3>2, <3>3, <1>6
    <2>2. \A i \in Positions(d) : i \in Positions(d)'
      BY <1>1, <1>2, <1>5
    <2>3. ASSUME NEW k \in 1 .. m, s[k] = d PROVE n + k \in Positions(d)'
      BY <2>3, <1>1, <1>5
    <2> QED BY <2>1, <2>2, <2>3
  <1>8. Cardinality(Positions(d)') <= Cardinality(Positions(d)) + 1
    <2>1. CASE \E k \in 1 .. m : s[k] = d
      <3>1. PICK k \in 1 .. m : s[k] = d BY <2>1
      <3>2. {j \in 1 .. m : s[j] = d} = {k} BY <3>1 DEF m
      <3>3. Positions(d)' = Positions(d) \cup {n + k}
        <4>1. \A i \in Positions(d)' : i \in Positions(d) \/ i = n + k BY <3>2, <1>7
        <4>2. n + k \in Positions(d)' BY <3>1, <1>7
        <4>3. Positions(d) \subseteq Positions(d)' BY <1>7
        <4> QED BY <4>1, <4>2, <4>3
      <3>4. Cardinality(Positions(d) \cup {n + k}) =
              IF n + k \in Positions(d) THEN Cardinality(Positions(d)) ELSE Cardinality(Positions(d)) + 1
        BY <1>2, FS_AddElement
      <3> QED BY <3>3, <3>4, <1>2
    <2>2. CASE ~ \E k \in 1 .. m : s[k] = d
      <3>1. Positions(d)' = Positions(d) BY <2>2, <1>7
      <3> QED BY <3>1, <1>2
    <2> QED BY <2>1, <2>2
  <1>9. d \notin D => Positions(d)' = Positions(d) BY <1>7 DEF m
  <1>10. d \in D => Positions(d)' # {}
    <2> SUFFICES ASSUME d \in D PROVE Positions(d)' # {} OBVIOUS
    <2>1. PICK k \in 1 .. m : s[k] = d BY DEF m
    <2>2. n + k \in Positions(d)' BY <2>1, <1>7
    <2> QED BY <2>2
  <1> QED BY <1>7, <1>8, <1>9, <1>10

LEMMA PipelineEntries ==
  ASSUME TypeOK, TypeOK', NEW p \in Proc, Pipeline(held[p])
  PROVE  EntriesAdded(held[p])
  BY PipelineAddsEach, EachEntryAdded

LEMMA WebhookEntry ==
  ASSUME TypeOK, TypeOK', NEW d \in Deployment, XAdd(<<d>>)
  PROVE  EntriesAdded({d})
  <1> DEFINE s == <<d>>
  <1>1. s \in Seq(Deployment) /\ Len(s) = 1 /\ s[1] = d OBVIOUS
  <1>2. 1 .. Len(s) = {1} BY <1>1
  <1>3. XAdd(s) OBVIOUS
  <1> HIDE DEF s
  <1> QED BY <1>1, <1>2, <1>3, EachEntryAdded
-----------------------------------------------------------------------------
(* What each step adds to the stream.                                      *)

\* The steps that leave the stream alone.
Quiet == UNCHANGED stream

LEMMA StepAdds ==
  ASSUME TypeOK, TypeOK'
  PROVE  /\ Quiet => EntriesAdded({})
         /\ \A d \in Deployment : WebhookXadd(d) => Quiet \/ EntriesAdded({d})
         /\ \A p \in Proc : Send(p) => EntriesAdded(held[p])
         /\ \A p \in Proc : SendFails(p) => Quiet \/ (Fault /\ EntriesAdded(held[p]))
  <1>1. Quiet => EntriesAdded({}) BY NoEntryAdded DEF Quiet
  <1>2. ASSUME NEW d \in Deployment, WebhookXadd(d) PROVE Quiet \/ EntriesAdded({d})
    BY <1>2, WebhookEntry DEF WebhookXadd, Quiet, streamVars
  <1>3. ASSUME NEW p \in Proc, Send(p) PROVE EntriesAdded(held[p])
    BY <1>3, PipelineEntries DEF Send
  <1>4. ASSUME NEW p \in Proc, SendFails(p) PROVE Quiet \/ (Fault /\ EntriesAdded(held[p]))
    BY <1>4, PipelineEntries DEF SendFails, Quiet, streamVars
  <1> QED BY <1>1, <1>2, <1>3, <1>4

\* The actions that leave the stream alone.
LEMMA QuietSteps ==
  /\ \A d \in Deployment :
       /\ CheckInFlight(d) \/ FindLastGood(d) \/ Insert(d) \/ MarkFailed(d) => Quiet
       /\ \A h \in {"webhook", "app"} : WebhookInsert(d, h) => Quiet
       /\ Advance(d) \/ Sweep(d) => Quiet
  /\ \A p \in Proc : Select(p) \/ Delete(p) \/ Crash(p) \/ Restart(p) => Quiet
  /\ Deliver \/ UNCHANGED vars => Quiet
  BY DEF Deliver, streamVars, CheckInFlight, FindLastGood, Insert, MarkFailed, WebhookInsert, Advance, Sweep,
         Select, Delete, Crash, Restart, Quiet, vars

-----------------------------------------------------------------------------
(* The rows.                                                               *)

LEMMA SetStateKeepsOne ==
  ASSUME TypeOK, OneActive, NEW d \in Deployment, NEW s \in State, SetState(d, s)
  PROVE  OneActive'
  BY DEF TypeOK, OneActive, IndexAllows, SetState

LEMMA OneActiveStep == ASSUME TypeOK, OneActive, [Next]_vars PROVE OneActive'
  <1>1. ASSUME UNCHANGED state PROVE OneActive' BY <1>1 DEF OneActive, IndexAllows
  <1>2. ASSUME NEW d \in Deployment, Request(d) PROVE OneActive'
    BY <1>1, <1>2, SetStateKeepsOne
       DEF Request, CheckInFlight, FindLastGood, Insert, WebhookInsert, WebhookXadd, MarkFailed
  <1>3. ASSUME NEW d \in Deployment, Advance(d) \/ Sweep(d) PROVE OneActive'
    BY <1>3, SetStateKeepsOne DEF Advance, Sweep
  <1>4. CASE Deliver BY <1>1, <1>4 DEF Deliver
  <1>5. ASSUME NEW p \in Proc, RelayStep(p) \/ Crash(p) \/ Restart(p) PROVE OneActive'
    BY <1>1, <1>5 DEF RelayStep, Select, Send, SendFails, Delete, Crash, Restart
  <1>6. CASE UNCHANGED vars BY <1>1, <1>6 DEF vars
  <1> QED BY <1>2, <1>3, <1>4, <1>5, <1>6 DEF Next

-----------------------------------------------------------------------------
(* Requests under way.                                                     *)

\* FreshInv for one deployment.
Fresh(d) ==
  /\ req[d] \in {"new", "insert"} => state[d] = "Absent" /\ Positions(d) = {}
  /\ req[d] = "insert" => d \in Outboxed
  /\ req[d] \in {"xadd", "markFailed"} => d \notin Outboxed /\ state[d] # "Absent"
  /\ d \in outbox => d \in Accepted /\ req[d] = "done"
  /\ Positions(d) # {} => state[d] # "Absent"

\* A step does nothing to the request e, its event and its entries, and does
\* not make its row appear or disappear.
Spared(e) ==
  /\ req'[e] = req[e] /\ via'[e] = via[e]
  /\ (state'[e] = "Absent" <=> state[e] = "Absent")
  /\ e \in outbox' => e \in outbox
  /\ Positions(e)' = Positions(e)

LEMMA SparedIsFresh ==
  ASSUME NEW e \in Deployment, Fresh(e), Spared(e) PROVE Fresh(e)'
  BY DEF Fresh, Spared, Outboxed, Accepted

LEMMA FreshRequest ==
  ASSUME TypeOK, TypeOK', FreshInv, NEW d \in Deployment, Request(d) PROVE FreshInv'
  <1>0. \A e \in Deployment : Fresh(e) BY DEF FreshInv, Fresh
  <1> SUFFICES \A e \in Deployment : Fresh(e)' BY DEF FreshInv, Fresh
  <1>1. ASSUME NEW e \in Deployment \ {d} PROVE Spared(e)
    <2>1. Positions(e)' = Positions(e)
      BY <1>1, StepAdds, QuietSteps DEF Request, EntriesAdded
    <2>2. /\ req'[e] = req[e] /\ via'[e] = via[e]
          /\ state'[e] = state[e] /\ (e \in outbox' => e \in outbox)
      <3>1. CASE Insert(d) BY <1>1, <3>1 DEF Insert, SetState, AddEvent, outboxVars, TypeOK
      <3>2. CASE WebhookXadd(d) BY <1>1, <3>2 DEF WebhookXadd, outboxVars, TypeOK
      <3>3. CASE MarkFailed(d) BY <1>1, <3>3 DEF MarkFailed, SetState, outboxVars, TypeOK
      <3>4. CASE CheckInFlight(d) \/ FindLastGood(d)
        BY <1>1, <3>4 DEF CheckInFlight, FindLastGood, outboxVars, TypeOK
      <3>5. CASE \E h \in {"webhook", "app"} : WebhookInsert(d, h)
        BY <1>1, <3>5 DEF WebhookInsert, SetState, outboxVars, TypeOK
      <3> QED BY <3>1, <3>2, <3>3, <3>4, <3>5 DEF Request
    <2> QED BY <2>1, <2>2 DEF Spared
  <1>2. Fresh(d)'
    <2>1. ~WebhookXadd(d) => Positions(d)' = Positions(d)
      BY StepAdds, QuietSteps DEF Request, EntriesAdded
    <2>2. CASE CheckInFlight(d)
      BY <1>0, <2>1, <2>2 DEF CheckInFlight, WebhookXadd, Fresh, Outboxed, Accepted, outboxVars, TypeOK
    <2>3. CASE FindLastGood(d)
      BY <1>0, <2>1, <2>3 DEF FindLastGood, WebhookXadd, Fresh, Outboxed, Accepted, outboxVars, TypeOK
    <2>4. CASE Insert(d)
      <3>1. d \in Outboxed /\ d \notin outbox /\ via' = via /\ req'[d] = "done"
        BY <1>0, <2>4 DEF Insert, Fresh, TypeOK
      <3>2. d \in outbox' => state'[d] = "Queued"
        BY <3>1, <2>4 DEF Insert, SetState, AddEvent, outboxVars, TypeOK
      <3>3. Positions(d)' = {} BY <1>0, <2>1, <2>4 DEF Insert, WebhookXadd, Fresh
      <3> QED BY <3>1, <3>2, <3>3 DEF Fresh, Outboxed, Accepted
    <2>5. CASE \E h \in {"webhook", "app"} : WebhookInsert(d, h)
      <3>1. Positions(d)' = {} BY <1>0, <2>1, <2>5 DEF WebhookInsert, WebhookXadd, Fresh
      <3> QED BY <1>0, <2>5, <3>1
          DEF WebhookInsert, SetState, Fresh, Outboxed, Accepted, outboxVars, TypeOK
    <2>6. CASE WebhookXadd(d)
      BY <1>0, <2>6 DEF WebhookXadd, Fresh, Outboxed, Accepted, outboxVars, TypeOK
    <2>7. CASE MarkFailed(d)
      BY <1>0, <2>7 DEF MarkFailed, SetState, Fresh, Outboxed, Accepted, outboxVars, TypeOK
    <2> QED BY <2>2, <2>3, <2>4, <2>5, <2>6, <2>7 DEF Request
  <1> QED BY <1>0, <1>1, <1>2, SparedIsFresh

LEMMA FreshStep ==
  ASSUME TypeOK, TypeOK', OneActive, FreshInv, [Next]_vars PROVE FreshInv'
  <1>0. \A e \in Deployment : Fresh(e) BY DEF FreshInv, Fresh
  <1> USE DEF TypeOK
  <1>1. ASSUME \A e \in Deployment : Spared(e) PROVE FreshInv'
    <2>1. \A e \in Deployment : Fresh(e)' BY <1>0, <1>1, SparedIsFresh
    <2> QED BY <2>1 DEF FreshInv, Fresh
  <1>2. ASSUME NEW d \in Deployment, Advance(d) \/ Sweep(d) PROVE FreshInv'
    <2>1. \A e \in Deployment : Positions(e)' = Positions(e)
      BY <1>2, StepAdds, QuietSteps DEF EntriesAdded
    <2>2. state[d] # "Absent" BY <1>0, <1>2 DEF Advance, Sweep, Fresh
    <2> QED BY <1>1, <1>2, <2>1, <2>2 DEF Advance, Sweep, SetState, Spared, reqVars, outboxVars
  <1>3. CASE Deliver
    <2>1. \A e \in Deployment : Positions(e)' = Positions(e) BY <1>3 DEF Deliver, Positions
    <2> QED BY <1>1, <1>3, <2>1 DEF Deliver, Spared, reqVars, outboxVars
  <1>4. ASSUME NEW p \in Proc, Select(p) \/ Restart(p) \/ Delete(p) PROVE FreshInv'
    <2>1. \A e \in Deployment : Positions(e)' = Positions(e)
      BY <1>4, StepAdds, QuietSteps DEF EntriesAdded
    <2> QED BY <1>1, <1>4, <2>1 DEF Select, Restart, Delete, Spared, reqVars, outboxVars
  <1>5. ASSUME NEW p \in Proc, Send(p) \/ SendFails(p) PROVE FreshInv'
    <2>1. \A e \in Deployment \ held[p] : Spared(e)
      <3>1. \A e \in Deployment \ held[p] : Positions(e)' = Positions(e)
        BY <1>5, StepAdds DEF EntriesAdded
      <3> QED BY <3>1, <1>5 DEF Send, SendFails, Spared, reqVars, outboxVars
    <2>2. \A e \in held[p] : Fresh(e)'
      BY <1>0, <1>5 DEF Send, SendFails, Fresh, Outboxed, Accepted, reqVars, outboxVars
    <2>3. \A e \in Deployment : Fresh(e)' BY <1>0, <2>1, <2>2, SparedIsFresh
    <2> QED BY <2>3 DEF FreshInv, Fresh
  <1>6. ASSUME NEW p \in Proc, Crash(p) PROVE FreshInv'
    <2>1. \A e \in Deployment : Positions(e)' = Positions(e)
      BY <1>6, StepAdds, QuietSteps DEF EntriesAdded
    <2>2. \A e \in Deployment : req'[e] \in {req[e], "done"} BY <1>6 DEF Crash
    <2>3. \A e \in Deployment : Fresh(e)'
      BY <1>0, <1>6, <2>1, <2>2 DEF Crash, Fresh, Outboxed, Accepted, outboxVars
    <2> QED BY <2>3 DEF FreshInv, Fresh
  <1>7. CASE UNCHANGED vars
    <2>1. \A e \in Deployment : Positions(e)' = Positions(e)
      BY <1>7, StepAdds, QuietSteps DEF EntriesAdded
    <2> QED BY <1>1, <1>7, <2>1 DEF vars, Spared, reqVars, outboxVars
  <1> HIDE DEF TypeOK
  <1> QED BY <1>2, <1>3, <1>4, <1>5, <1>6, <1>7, FreshRequest DEF Next, RelayStep
-----------------------------------------------------------------------------
(* Nothing is lost.                                                        *)

\* Entries are never forgotten.
LEMMA StreamGrows ==
  ASSUME TypeOK, TypeOK', [Next]_vars PROVE \E D : EntriesAdded(D)
  <1>1. Quiet => \E D : EntriesAdded(D) BY StepAdds
  <1>2. ASSUME NEW d \in Deployment, Request(d) PROVE \E D : EntriesAdded(D)
    BY <1>1, <1>2, StepAdds, QuietSteps DEF Request
  <1>3. ASSUME NEW p \in Proc, RelayStep(p) PROVE \E D : EntriesAdded(D)
    BY <1>1, <1>3, StepAdds, QuietSteps DEF RelayStep
  <1> QED BY <1>1, <1>2, <1>3, QuietSteps DEF Next

\* A row of the outbox is inserted together with its event.
LEMMA InsertedStep ==
  ASSUME TypeOK, FreshInv, [Next]_vars,
         NEW d \in Deployment, state[d] = "Absent", state'[d] # "Absent"
  PROVE  d \in Outboxed' => d \in outbox'
  <1> USE DEF TypeOK
  <1>1. ASSUME NEW e \in Deployment, Insert(e) PROVE d \in outbox'
    BY <1>1 DEF Insert, SetState, AddEvent
  <1>2. ASSUME NEW e \in Deployment, NEW h \in {"webhook", "app"}, WebhookInsert(e, h)
        PROVE  d \notin Outboxed'
    BY <1>2 DEF WebhookInsert, SetState, Outboxed
  <1>3. ASSUME NEW e \in Deployment, Advance(e) \/ Sweep(e) \/ MarkFailed(e) PROVE FALSE
    <2>1. state[e] # "Absent" BY <1>3 DEF Advance, Sweep, MarkFailed, FreshInv
    <2> QED BY <1>3, <2>1 DEF Advance, Sweep, MarkFailed, SetState
  <1>4. ASSUME NEW e \in Deployment, CheckInFlight(e) \/ FindLastGood(e) \/ WebhookXadd(e)
        PROVE  FALSE
    BY <1>4 DEF CheckInFlight, FindLastGood, WebhookXadd
  <1>5. ASSUME NEW p \in Proc, RelayStep(p) \/ Crash(p) \/ Restart(p) PROVE FALSE
    BY <1>5 DEF RelayStep, Select, Send, SendFails, Delete, Crash, Restart
  <1>6. ASSUME Deliver \/ UNCHANGED vars PROVE FALSE BY <1>6 DEF Deliver, vars
  <1> QED BY <1>1, <1>2, <1>3, <1>4, <1>5, <1>6 DEF Next, Request

\* A relay that is about to delete its events was so before, or has just sent
\* them.
LEMMA DeletingStep ==
  ASSUME TypeOK, [Next]_vars, NEW p \in Proc, relay'[p] = "delete"
  PROVE  held'[p] = held[p] /\ (relay[p] = "delete" \/ Send(p))
  <1> USE DEF TypeOK
  <1>1. ASSUME UNCHANGED relayVars PROVE held'[p] = held[p] /\ relay[p] = "delete"
    BY <1>1 DEF relayVars
  <1>2. ASSUME NEW d \in Deployment, Request(d) PROVE UNCHANGED relayVars
    BY <1>2 DEF Request, CheckInFlight, FindLastGood, Insert, WebhookInsert, WebhookXadd, MarkFailed
  <1>3. ASSUME NEW d \in Deployment, Advance(d) \/ Sweep(d) PROVE UNCHANGED relayVars
    BY <1>3 DEF Advance, Sweep
  <1>4. ASSUME NEW q \in Proc, Select(q) \/ SendFails(q) \/ Delete(q) \/ Crash(q) \/ Restart(q)
        PROVE  q # p /\ held'[p] = held[p] /\ relay'[p] = relay[p]
    BY <1>4 DEF Select, SendFails, Delete, Rollback, Crash, Restart
  <1>5. ASSUME NEW q \in Proc, Send(q)
        PROVE  held'[p] = held[p] /\ (q = p \/ relay'[p] = relay[p])
    BY <1>5 DEF Send
  <1> QED BY <1>1, <1>2, <1>3, <1>4, <1>5 DEF Next, RelayStep, Deliver, vars

LEMMA SentStep ==
  ASSUME TypeOK, TypeOK', SentInv, [Next]_vars PROVE SentInv'
  <1> SUFFICES ASSUME NEW p \in Proc, relay'[p] = "delete", NEW d \in held'[p]
               PROVE  Positions(d)' # {}
    BY DEF SentInv
  <1>1. d \in held[p] /\ (relay[p] = "delete" \/ Send(p)) BY DeletingStep
  <1>2. d \in Deployment BY <1>1 DEF TypeOK
  <1>3. CASE relay[p] = "delete"
    <2>1. Positions(d) # {} BY <1>1, <1>3 DEF SentInv
    <2> QED BY <1>2, <2>1, StreamGrows DEF EntriesAdded
  <1>4. CASE Send(p) BY <1>1, <1>2, <1>4, StepAdds DEF EntriesAdded
  <1> QED BY <1>1, <1>3, <1>4

\* An event leaves the outbox by the hand of the relay that has sent it, and
\* a request keeps its handler once it has written a row.
LEMMA LeavingStep ==
  ASSUME TypeOK, FreshInv, [Next]_vars, NEW d \in Deployment
  PROVE  /\ d \in outbox \ outbox' => Sent(d)
         /\ state[d] # "Absent" => via'[d] = via[d]
  <1> USE DEF TypeOK
  <1>1. ASSUME NEW e \in Deployment, Request(e)
        PROVE  /\ outbox \subseteq outbox' /\ (state[d] # "Absent" => via'[d] = via[d])
    <2>1. req[e] = "new" => state[e] = "Absent" BY DEF FreshInv
    <2>2. CASE CheckInFlight(e) \/ FindLastGood(e)
      BY <2>1, <2>2 DEF CheckInFlight, FindLastGood, outboxVars
    <2>3. CASE Insert(e) BY <2>3 DEF Insert, AddEvent, outboxVars
    <2>4. CASE \E h \in {"webhook", "app"} : WebhookInsert(e, h)
      BY <2>1, <2>4 DEF WebhookInsert, outboxVars
    <2>5. CASE WebhookXadd(e) \/ MarkFailed(e) BY <2>5 DEF WebhookXadd, MarkFailed, outboxVars
    <2> QED BY <1>1, <2>2, <2>3, <2>4, <2>5 DEF Request
  <1>2. ASSUME NEW e \in Deployment, Advance(e) \/ Sweep(e) PROVE UNCHANGED <<outbox, via>>
    BY <1>2 DEF Advance, Sweep, outboxVars, reqVars
  <1>3. ASSUME NEW p \in Proc, Select(p) \/ Send(p) \/ SendFails(p) \/ Crash(p) \/ Restart(p)
        PROVE  UNCHANGED <<outbox, via>>
    BY <1>3 DEF Select, Send, SendFails, Crash, Restart, outboxVars, reqVars
  <1>4. ASSUME NEW p \in Proc, Delete(p)
        PROVE  via' = via /\ (d \in outbox \ outbox' => Sent(d))
    BY <1>4 DEF Delete, Sent, reqVars
  <1>5. CASE Deliver \/ UNCHANGED vars BY <1>5 DEF Deliver, vars, outboxVars, reqVars
  <1> QED BY <1>1, <1>2, <1>3, <1>4, <1>5 DEF Next, RelayStep

LEMMA LosesStep ==
  ASSUME TypeOK, TypeOK', FreshInv, SentInv, OutboxLosesNothing, [Next]_vars
  PROVE  OutboxLosesNothing'
  <1> SUFFICES ASSUME NEW d \in Deployment, d \in Outboxed', state'[d] # "Absent"
               PROVE  d \in outbox' \/ Positions(d)' # {}
    BY DEF OutboxLosesNothing, Outboxed
  <1>1. CASE state[d] = "Absent" BY <1>1, InsertedStep
  <1>2. CASE state[d] # "Absent"
    <2>1. d \in Outboxed BY <1>2, LeavingStep DEF Outboxed
    <2>2. d \in outbox \/ Positions(d) # {} BY <1>2, <2>1 DEF OutboxLosesNothing
    <2>3. Positions(d) # {} => Positions(d)' # {} BY StreamGrows DEF EntriesAdded
    <2>4. d \in outbox \ outbox' => Positions(d) # {} BY LeavingStep DEF Sent, SentInv
    <2> QED BY <2>2, <2>3, <2>4
  <1> QED BY <1>1, <1>2

KeepInv == OneActive /\ FreshInv /\ SentInv /\ OutboxLosesNothing

LEMMA InitKeep == Init => KeepInv
  <1> SUFFICES ASSUME Init PROVE KeepInv OBVIOUS
  <1>1. OneActive BY DEF Init, OneActive, IndexAllows
  <1>2. \A d \in Deployment : Positions(d) = {} BY DEF Init, Positions
  <1>3. FreshInv BY <1>2 DEF Init, FreshInv, Accepted, Outboxed
  <1>4. SentInv BY DEF Init, SentInv
  <1>5. OutboxLosesNothing BY DEF Init, OutboxLosesNothing, Outboxed
  <1> QED BY <1>1, <1>3, <1>4, <1>5 DEF KeepInv

LEMMA KeepStep == TypeOK /\ TypeOK' /\ KeepInv /\ [Next]_vars => KeepInv'
  BY OneActiveStep, FreshStep, SentStep, LosesStep DEF KeepInv

LEMMA KeepHolds == Spec => []KeepInv
  BY InitKeep, KeepStep, TypeCorrect, PTL DEF Spec

\* For any number of processes, requests, faults and crashes, any size of the
\* batches and of the stream: a deployment that was written with its event
\* has its event or an entry.
THEOREM OutboxLosesNothingHolds == Spec => []OutboxLosesNothing
  <1>1. KeepInv => OutboxLosesNothing BY DEF KeepInv
  <1> QED BY <1>1, KeepHolds, PTL
-----------------------------------------------------------------------------
(* Duplicates.                                                             *)

\* The step is a failure that somebody pays for.
Spent == faults' + crashes' >= faults + crashes + 1

LEMMA BudgetStep ==
  ASSUME TypeOK, [Next]_vars PROVE faults' + crashes' >= faults + crashes
  <1>1. faults \in Nat /\ crashes \in Nat BY DEF TypeOK
  <1>2. NoFault => faults' = faults /\ crashes' = crashes BY DEF NoFault, budgetVars
  <1>3. Fault => faults' = faults + 1 /\ crashes' = crashes BY DEF Fault
  <1>4. ASSUME NEW d \in Deployment, Request(d) \/ Advance(d) \/ Sweep(d)
        PROVE  NoFault \/ Fault
    BY <1>4 DEF Request, CheckInFlight, FindLastGood, Insert, WebhookInsert, WebhookXadd,
       MarkFailed, Advance, Sweep, NoFault
  <1>5. ASSUME NEW p \in Proc, RelayStep(p) \/ Restart(p) PROVE NoFault \/ Fault
    BY <1>5 DEF RelayStep, Select, Send, SendFails, Delete, Restart, NoFault
  <1>6. ASSUME NEW p \in Proc, Crash(p) PROVE faults' = faults /\ crashes' = crashes + 1
    BY <1>6 DEF Crash
  <1>7. Deliver \/ UNCHANGED vars => NoFault BY DEF Deliver, vars, NoFault
  <1> QED BY <1>1, <1>2, <1>3, <1>4, <1>5, <1>6, <1>7 DEF Next

\* What a failure costs.
LEMMA FaultIsSpent == TypeOK /\ (Fault \/ \E p \in Proc : Crash(p)) => Spent
  BY DEF TypeOK, Fault, Crash, Spent

\* A second entry is to be expected after a failure only.
LEMMA PendingStep ==
  ASSUME TypeOK, FreshInv, [Next]_vars, NEW e \in Deployment, Pending(e)'
  PROVE  Pending(e) \/ Spent
  <1> USE DEF TypeOK
  <1>1. ASSUME req'[e] = req[e], e \in outbox' => e \in outbox, Sent(e) => Sent(e)'
        PROVE  Pending(e)
    BY <1>1 DEF Pending
  <1>2. ASSUME UNCHANGED relayVars PROVE Sent(e) => Sent(e)' BY <1>2 DEF relayVars, Sent
  <1>3. ASSUME NEW d \in Deployment, Request(d) PROVE Pending(e)
    <2>1. UNCHANGED relayVars
      BY <1>3 DEF Request, CheckInFlight, FindLastGood, Insert, WebhookInsert, WebhookXadd, MarkFailed
    <2>2. CASE CheckInFlight(d) \/ FindLastGood(d)
      BY <1>1, <1>2, <2>1, <2>2 DEF CheckInFlight, FindLastGood, outboxVars, Pending
    <2>3. CASE Insert(d)
      BY <1>1, <1>2, <2>1, <2>3 DEF Insert, AddEvent, outboxVars, Pending
    <2>4. CASE \E h \in {"webhook", "app"} : WebhookInsert(d, h)
      BY <1>1, <1>2, <2>1, <2>4 DEF WebhookInsert, outboxVars, Pending
    <2>5. CASE WebhookXadd(d) \/ MarkFailed(d)
      BY <1>1, <1>2, <2>1, <2>5 DEF WebhookXadd, MarkFailed, outboxVars, Pending
    <2> QED BY <1>3, <2>2, <2>3, <2>4, <2>5 DEF Request
  <1>4. ASSUME NEW d \in Deployment, Advance(d) \/ Sweep(d) PROVE Pending(e)
    BY <1>1, <1>2, <1>4 DEF Advance, Sweep, outboxVars, reqVars
  <1>5. ASSUME NEW p \in Proc, Select(p) \/ Restart(p) \/ Send(p) PROVE Pending(e)
    <2>1. Sent(e) => Sent(e)' BY <1>5 DEF Select, Restart, Send, relayVars, Sent
    <2> QED BY <1>1, <1>5, <2>1 DEF Select, Restart, Send, outboxVars, reqVars
  <1>6. ASSUME NEW p \in Proc, SendFails(p) PROVE Pending(e)
    <2>1. Sent(e) => Sent(e)' BY <1>6 DEF SendFails, Rollback, Sent
    <2> QED BY <1>1, <1>6, <2>1 DEF SendFails, outboxVars, reqVars
  <1>7. ASSUME NEW p \in Proc, Delete(p) PROVE Pending(e) \/ Spent
    <2>1. CASE Fault BY <2>1, FaultIsSpent
    <2>2. CASE outbox' = outbox \ held[p]
      <3>1. CASE e \in outbox'
        <4>1. Sent(e) => Sent(e)' BY <1>7, <2>2, <3>1 DEF Delete, Rollback, Sent
        <4> QED BY <1>1, <1>7, <2>2, <4>1 DEF Delete, reqVars
      <3>2. CASE e \notin outbox' BY <1>7, <3>2 DEF Delete, Pending, reqVars
      <3> QED BY <3>1, <3>2
    <2> QED BY <1>7, <2>1, <2>2 DEF Delete
  <1>8. ASSUME NEW p \in Proc, Crash(p) PROVE Spent BY <1>8, FaultIsSpent
  <1>9. CASE Deliver \/ UNCHANGED vars
    BY <1>1, <1>2, <1>9 DEF Deliver, vars, outboxVars, reqVars
  <1> QED BY <1>3, <1>4, <1>5, <1>6, <1>7, <1>8, <1>9 DEF Next, RelayStep

\* An entry is added where one was to be expected; then none is, or the step
\* was a failure.
LEMMA AddingStep ==
  ASSUME TypeOK, TypeOK', FreshInv, [Next]_vars, NEW e \in Deployment,
         Positions(e)' # Positions(e)
  PROVE  /\ Pending(e) /\ (Pending(e)' => Spent)
         /\ Cardinality(Positions(e)') <= Cardinality(Positions(e)) + 1
  <1>1. ~Quiet BY StepAdds DEF EntriesAdded
  <1>2. ~Deliver BY DEF Deliver, Positions
  <1>3. CASE \E d \in Deployment : WebhookXadd(d)
    <2>1. PICK d \in Deployment : WebhookXadd(d) BY <1>3
    <2>2. EntriesAdded({d}) BY <1>1, <2>1, StepAdds
    <2>3. d = e BY <2>2 DEF EntriesAdded
    <2>4. req[e] = "xadd" /\ e \notin outbox BY <2>1, <2>3 DEF WebhookXadd, FreshInv
    <2>5. e \notin outbox' /\ (Fault \/ req'[e] = "done")
      BY <2>1, <2>3, <2>4 DEF WebhookXadd, outboxVars, TypeOK
    <2> QED BY <2>2, <2>4, <2>5, FaultIsSpent DEF EntriesAdded, Pending
  <1>4. CASE \E p \in Proc : Send(p) \/ SendFails(p)
    <2>1. PICK p \in Proc : Send(p) \/ SendFails(p) BY <1>4
    <2>2. relay[p] = "send" BY <2>1 DEF Send, SendFails
    <2>3. EntriesAdded(held[p]) /\ (Send(p) \/ Fault) BY <1>1, <2>1, StepAdds
    <2>4. e \in held[p] BY <2>3 DEF EntriesAdded
    <2>5. e \in outbox /\ ~Sent(e) BY <2>2, <2>4 DEF TypeOK, Sent
    <2>6. req[e] = "done" BY <2>5 DEF FreshInv
    <2>7. Send(p) => req'[e] = "done" /\ Sent(e)'
      BY <2>4, <2>6 DEF Send, Sent, reqVars, TypeOK
    <2> QED BY <2>3, <2>5, <2>7, FaultIsSpent DEF EntriesAdded, Pending
  <1> QED BY <1>1, <1>2, <1>3, <1>4, QuietSteps DEF Next, Request, RelayStep

\* The sum: n entries and u expected before, m and v after; f and g are spent.
LEMMA Sum ==
  ASSUME NEW n \in Nat, NEW m \in Nat, NEW u \in 0 .. 1, NEW v \in 0 .. 1,
         NEW f \in Nat, NEW f2 \in Nat, NEW g \in Nat, NEW g2 \in Nat,
         n + u <= 1 + f + g, f2 + g2 >= f + g,
         \/ m = n /\ (v <= u \/ f2 + g2 >= f + g + 1)
         \/ m <= n + 1 /\ u = 1 /\ (v = 0 \/ f2 + g2 >= f + g + 1)
  PROVE  m + v <= 1 + f2 + g2
  OBVIOUS

LEMMA CountStep ==
  ASSUME TypeOK, TypeOK', FreshInv, CountInv, [Next]_vars PROVE CountInv'
  <1> SUFFICES ASSUME NEW e \in Deployment
               PROVE  Cardinality(Positions(e)') + Weight(e)' <= 1 + faults' + crashes'
    BY DEF CountInv
  <1>1. Cardinality(Positions(e)) + Weight(e) <= 1 + faults + crashes BY DEF CountInv
  <1>2. Cardinality(Positions(e)) \in Nat BY PositionsType
  <1>3. Cardinality(Positions(e)') \in Nat
    <2>1. IsFiniteSet(1 .. Len(stream')) BY FS_Interval DEF TypeOK
    <2>2. Positions(e)' \subseteq 1 .. Len(stream') BY DEF Positions, TypeOK
    <2> QED BY <2>1, <2>2, FS_Subset, FS_CardinalityType
  <1>4. faults \in Nat /\ crashes \in Nat /\ faults' \in Nat /\ crashes' \in Nat
    BY DEF TypeOK
  <1>5. /\ Weight(e) \in 0 .. 1 /\ Weight(e)' \in 0 .. 1
        /\ Pending(e) => Weight(e) = 1
        /\ ~Pending(e)' => Weight(e)' = 0
    BY DEF Weight
  <1>6. faults' + crashes' >= faults + crashes BY BudgetStep
  <1>7. ASSUME Positions(e)' = Positions(e)
        PROVE  Weight(e)' <= Weight(e) \/ Spent
    <2>1. CASE Pending(e)'
      <3>1. Pending(e) \/ Spent BY <2>1, PendingStep
      <3> QED BY <1>5, <3>1
    <2>2. CASE ~Pending(e)' BY <1>5, <2>2
    <2> QED BY <2>1, <2>2
  <1>8. ASSUME Positions(e)' # Positions(e)
        PROVE  /\ Cardinality(Positions(e)') <= Cardinality(Positions(e)) + 1
               /\ Weight(e) = 1 /\ (Weight(e)' = 0 \/ Spent)
    <2>1. /\ Cardinality(Positions(e)') <= Cardinality(Positions(e)) + 1
          /\ Pending(e) /\ (Pending(e)' => Spent)
      BY <1>8, AddingStep
    <2> QED BY <1>5, <2>1
  <1>9. \/ /\ Cardinality(Positions(e)') = Cardinality(Positions(e))
           /\ Weight(e)' <= Weight(e) \/ faults' + crashes' >= faults + crashes + 1
        \/ /\ Cardinality(Positions(e)') <= Cardinality(Positions(e)) + 1
           /\ Weight(e) = 1
           /\ Weight(e)' = 0 \/ faults' + crashes' >= faults + crashes + 1
    <2>1. CASE Positions(e)' = Positions(e)
      <3>1. Cardinality(Positions(e)') = Cardinality(Positions(e)) BY <2>1
      <3>2. Weight(e)' <= Weight(e) \/ Spent BY <2>1, <1>7
      <3> QED BY <3>1, <3>2 DEF Spent
    <2>2. CASE Positions(e)' # Positions(e) BY <2>2, <1>8 DEF Spent
    <2> QED BY <2>1, <2>2
  \* The same with names for the terms that arithmetic is to take as they are.
  <1> DEFINE n == Cardinality(Positions(e))
             m == Cardinality(Positions(e)')
             u == Weight(e)
             v == Weight(e)'
             f2 == faults'
             g2 == crashes'
  <1>10. n \in Nat /\ m \in Nat BY <1>2, <1>3
  <1>11. u \in 0 .. 1 /\ v \in 0 .. 1 BY <1>5
  <1>12. f2 \in Nat /\ g2 \in Nat BY <1>4
  <1>13. n + u <= 1 + faults + crashes BY <1>1
  <1>14. f2 + g2 >= faults + crashes BY <1>6
  <1>15. \/ m = n /\ (v <= u \/ f2 + g2 >= faults + crashes + 1)
         \/ m <= n + 1 /\ u = 1 /\ (v = 0 \/ f2 + g2 >= faults + crashes + 1)
    BY <1>9
  <1> HIDE DEF n, m, u, v, f2, g2
  <1>16. m + v <= 1 + f2 + g2 BY <1>4, <1>10, <1>11, <1>12, <1>13, <1>14, <1>15, Sum
  <1> QED BY <1>16 DEF m, v, f2, g2

LEMMA InitCount == Init => CountInv
  <1> SUFFICES ASSUME Init, NEW d \in Deployment
               PROVE  Cardinality(Positions(d)) + Weight(d) <= 1 + faults + crashes
    BY DEF CountInv
  <1>1. Positions(d) = {} BY DEF Init, Positions
  <1>2. Cardinality(Positions(d)) = 0 BY <1>1, FS_EmptySet
  <1> QED BY <1>2 DEF Init, Weight

\* For any number of relays, requests and events: a deployment gets a second
\* entry only for a call that failed or a process that crashed, one for each.
THEOREM DuplicatesNeedFaultsHolds == Spec => []DuplicatesNeedFaults
  <1>1. TypeOK /\ TypeOK' /\ KeepInv /\ CountInv /\ [Next]_vars => CountInv'
    BY CountStep DEF KeepInv
  <1>2. TypeOK /\ CountInv => DuplicatesNeedFaults
    <2> SUFFICES ASSUME TypeOK, CountInv, NEW d \in Deployment
                 PROVE  Cardinality(Positions(d)) <= 1 + faults + crashes
      BY DEF DuplicatesNeedFaults
    <2>1. Cardinality(Positions(d)) \in Nat /\ faults \in Nat /\ crashes \in Nat
      BY PositionsType DEF TypeOK
    <2>2. Cardinality(Positions(d)) + Weight(d) <= 1 + faults + crashes
      BY DEF CountInv
    <2>3. Weight(d) \in 0 .. 1 BY DEF Weight
    <2> QED BY <2>1, <2>2, <2>3
  <1> QED BY <1>1, <1>2, InitCount, TypeCorrect, KeepHolds, PTL DEF Spec

-----------------------------------------------------------------------------
(* The queue.                                                              *)

Delivered == {d \in Accepted : Positions(d) # {}}

\* More entries for what is accepted are deliveries.
LEMMA MoreIsDelivered ==
  ASSUME Accepted' = Accepted, \A d \in Accepted : Positions(d) \subseteq Positions(d)'
  PROVE  [Queue!Next]_(Queue!vars)
  <1>1. Delivered \subseteq Delivered' /\ Delivered' \subseteq Accepted
        /\ Accepted \subseteq Deployment
    BY DEF Delivered, Accepted, Outboxed
  <1>2. CASE Delivered' = Delivered BY <1>2 DEF Queue!vars, Delivered
  <1>3. CASE Delivered' # Delivered
    <2>1. PICK m \in Delivered' \ Delivered : TRUE BY <1>1, <1>3
    <2>2. Delivered' = Delivered \cup Delivered' BY <1>1
    <2>3. Queue!DeliverBatch(Delivered') BY <1>1, <2>2 DEF Queue!DeliverBatch, Delivered
    <2>4. Queue!Deliver(m) BY <1>1, <2>1, <2>3 DEF Queue!Deliver, Delivered
    <2> QED BY <1>1, <2>1, <2>4 DEF Queue!Next
  <1> QED BY <1>2, <1>3

LEMMA InsertAccepts ==
  ASSUME TypeOK, TypeOK', FreshInv, NEW d \in Deployment, Insert(d)
  PROVE  [Queue!Next]_(Queue!vars)
  <1> USE DEF TypeOK
  <1>1. \A e \in Deployment : Positions(e)' = Positions(e)
    BY StepAdds, QuietSteps DEF EntriesAdded
  <1>2. via' = via /\ req[d] = "insert" BY DEF Insert
  <1>3. CASE UNCHANGED state
    <2>1. Accepted' = Accepted BY <1>2, <1>3 DEF Accepted, Outboxed
    <2> QED BY <1>1, <2>1, MoreIsDelivered DEF Accepted, Outboxed
  <1>4. CASE SetState(d, "Queued")
    <2>1. d \in Outboxed /\ d \notin Accepted /\ Positions(d) = {}
      BY <1>2 DEF FreshInv, Accepted
    <2>2. Accepted' = Accepted \cup {d}
      BY <1>2, <1>4, <2>1 DEF Accepted, Outboxed, SetState
    <2>3. Delivered' = Delivered BY <1>1, <2>1, <2>2 DEF Delivered, Accepted, Outboxed
    <2>4. Queue!Accept(d) BY <2>1, <2>2, <2>3 DEF Queue!Accept, Delivered
    <2> QED BY <2>4 DEF Queue!Next
  <1> QED BY <1>3, <1>4 DEF Insert

LEMMA QueueStep ==
  ASSUME TypeOK, TypeOK', OneActive, FreshInv, [Next]_vars
  PROVE  [Queue!Next]_(Queue!vars)
  <1> USE DEF TypeOK
  <1>1. \A d \in Deployment : Positions(d) \subseteq Positions(d)'
    BY StreamGrows DEF EntriesAdded
  <1>2. ASSUME NEW d \in Deployment, Insert(d) PROVE [Queue!Next]_(Queue!vars)
    BY <1>2, InsertAccepts
  <1>3. ASSUME Accepted' = Accepted PROVE [Queue!Next]_(Queue!vars)
    BY <1>1, <1>3, MoreIsDelivered DEF Accepted, Outboxed
  <1>4. ASSUME NEW d \in Deployment,
               CheckInFlight(d) \/ FindLastGood(d) \/ \E h \in {"webhook", "app"} : WebhookInsert(d, h)
        PROVE  Accepted' = Accepted
    <2>1. state[d] = "Absent" BY <1>4 DEF CheckInFlight, FindLastGood, WebhookInsert, FreshInv
    <2>2. CASE CheckInFlight(d) \/ FindLastGood(d)
      BY <2>1, <2>2 DEF CheckInFlight, FindLastGood, Accepted, Outboxed
    <2>3. CASE \E h \in {"webhook", "app"} : WebhookInsert(d, h)
      BY <2>1, <2>3 DEF WebhookInsert, SetState, Accepted, Outboxed
    <2> QED BY <1>4, <2>2, <2>3
  <1>5. ASSUME NEW d \in Deployment, WebhookXadd(d) \/ MarkFailed(d) PROVE Accepted' = Accepted
    <2>1. d \notin Outboxed BY <1>5 DEF WebhookXadd, MarkFailed, FreshInv
    <2> QED BY <1>5, <2>1 DEF WebhookXadd, MarkFailed, SetState, Accepted, Outboxed
  <1>6. ASSUME NEW d \in Deployment, Advance(d) \/ Sweep(d) PROVE Accepted' = Accepted
    <2>1. state[d] # "Absent" BY <1>6 DEF Advance, Sweep, FreshInv
    <2>2. (\E s \in State \ {"Absent"} : SetState(d, s)) /\ via' = via
      BY <1>6 DEF Advance, Sweep, reqVars
    <2> QED BY <2>1, <2>2 DEF SetState, Accepted, Outboxed
  <1>7. ASSUME NEW p \in Proc, RelayStep(p) \/ Crash(p) \/ Restart(p) PROVE Accepted' = Accepted
    <2>1. state' = state /\ via' = via
      BY <1>7 DEF RelayStep, Select, Send, SendFails, Delete, Crash, Restart, reqVars
    <2> QED BY <2>1 DEF Accepted, Outboxed
  <1>8. CASE Deliver BY <1>3, <1>8 DEF Deliver, reqVars, Accepted, Outboxed
  <1>9. CASE UNCHANGED vars BY <1>3, <1>9 DEF vars, reqVars, Accepted, Outboxed
  <1> QED BY <1>2, <1>3, <1>4, <1>5, <1>6, <1>7, <1>8, <1>9 DEF Next, Request

\* The outbox implements the queue, but for its liveness: whatever fails, each
\* of its steps accepts a message, delivers accepted ones, or shows nothing.
THEOREM OutboxImplementsQueue == Spec => Queue!Init /\ [][Queue!Next]_(Queue!vars)
  <1>1. Init => Queue!Init BY DEF Init, Queue!Init, Accepted, Outboxed
  <1>2. TypeOK /\ TypeOK' /\ KeepInv /\ [Next]_vars => [Queue!Next]_(Queue!vars)
    BY QueueStep DEF KeepInv
  <1> QED BY <1>1, <1>2, TypeCorrect, KeepHolds, PTL DEF Spec
=============================================================================
