------------------------------- MODULE ViewsProofs -------------------------------
(***************************************************************************)
(* Theorems about Views, for every number of deployments and writers,      *)
(* every size of a page, and without the bounds on time mattering.         *)
(***************************************************************************)
EXTENDS Views, FiniteSetTheorems, WellFoundedInduction, TLAPS

USE DeploymentAssumption, SubjectAssumption, LimitAssumption, BoundsAssumption
USE DEF State, Final, Time, None, Paging, Streaming

-----------------------------------------------------------------------------
(* Types.                                                                  *)

LEMMA InitType == Init => TypeOK
<1> SUFFICES ASSUME Init PROVE TypeOK
  OBVIOUS
<1> USE DEF Init, TypeOK
<1>1. rows \subseteq Deployment /\ touched \subseteq rows
  OBVIOUS
<1>2. state \in [Deployment -> State] /\ updated \in [Deployment -> Time]
  OBVIOUS
<1>3. unsent \in [Writer -> State \cup {None}] /\ times \in [Deployment -> Nat]
  OBVIOUS
<1>4. cursor \in (Time \X Deployment) \cup {Top}
  OBVIOUS
<1>5. inbox \in Seq(State)
  OBVIOUS
<1>6. writes \in 0 .. MaxWrites /\ faults \in 0 .. MaxFaults
  OBVIOUS
<1>7. pc # "send" /\ pc \in {"paging", "away"}
  OBVIOUS
<1> QED BY <1>1, <1>2, <1>3, <1>4, <1>5, <1>6, <1>7

LEMMA WriteType ==
  ASSUME TypeOK, Write
  PROVE  writes' \in 0 .. MaxWrites /\ faults' \in 0 .. MaxFaults
  BY DEF TypeOK, Write

LEMMA FaultType ==
  ASSUME TypeOK, Fault
  PROVE  writes' \in 0 .. MaxWrites /\ faults' \in 0 .. MaxFaults
  BY DEF TypeOK, Fault

LEMMA PageType == ASSUME TypeOK, NextPage PROVE TypeOK'
<1> USE DEF TypeOK, NextPage, tableVars, streamVars
<1>1. Page \subseteq Deployment
  BY DEF Page, Below
<1>2. cursor' \in (Time \X Deployment) \cup {Top}
  <2>1. CASE UNCHANGED cursor
    BY <2>1
  <2>2. ASSUME NEW d \in Page, cursor' = Key(d)
        PROVE  cursor' \in Time \X Deployment
    <3>1. d \in Deployment /\ updated[d] \in Time
      BY <1>1
    <3> QED BY <2>2, <3>1 DEF Key
  <2> QED BY <2>1, <2>2
<1>3. times' \in [Deployment -> Nat]
  OBVIOUS
<1>4. pc' \in {"paging", "paged"}
  OBVIOUS
<1> QED BY <1>2, <1>3, <1>4

LEMMA WriterType ==
  ASSUME TypeOK, NEW d \in Deployment,
         \/ \E w \in Writer, s \in State, t \in Time : UpdateState(w, d, s, t)
         \/ \E w \in Writer, s \in State : Outcome(w, d, s)
         \/ FailSilently(d)
         \/ \E t \in Time : InsertRow(d, t)
  PROVE  TypeOK'
<1> USE DEF TypeOK, tableVars, pageVars, streamVars
<1>1. ASSUME NEW w \in Writer, NEW s \in State, NEW t \in Time, UpdateState(w, d, s, t)
      PROVE  TypeOK'
  <2>1. unsent' \in [Writer -> State \cup {None}]
    BY <1>1 DEF UpdateState, ToPublish
  <2>2. touched' \subseteq rows'
    BY <1>1 DEF UpdateState, Touch
  <2>3. state' \in [Deployment -> State] /\ updated' \in [Deployment -> Time]
    BY <1>1 DEF UpdateState
  <2>4. UNCHANGED <<rows, pc, cursor, times, streamVars>>
    BY <1>1 DEF UpdateState
  <2>5. writes' \in 0 .. MaxWrites /\ faults' \in 0 .. MaxFaults
    BY <1>1, WriteType DEF UpdateState
  <2> QED BY <2>1, <2>2, <2>3, <2>4, <2>5
<1>2. ASSUME NEW w \in Writer, NEW s \in State, Outcome(w, d, s)
      PROVE  TypeOK'
  <2>1. unsent' \in [Writer -> State \cup {None}]
    BY <1>2 DEF Outcome, ToPublish
  <2>2. state' \in [Deployment -> State]
    BY <1>2 DEF Outcome
  <2>3. UNCHANGED <<rows, updated, pc, pageVars, streamVars>>
    BY <1>2 DEF Outcome
  <2>4. writes' \in 0 .. MaxWrites /\ faults' \in 0 .. MaxFaults
    BY <1>2, WriteType DEF Outcome
  <2> QED BY <2>1, <2>2, <2>3, <2>4
<1>3. CASE FailSilently(d)
  <2>1. state' \in [Deployment -> State] /\ deaf' \in BOOLEAN
    BY <1>3 DEF FailSilently
  <2>2. UNCHANGED <<rows, updated, unsent, pc, pageVars, channel, inbox, fetched, shown>>
    BY <1>3 DEF FailSilently
  <2>3. writes' \in 0 .. MaxWrites /\ faults' \in 0 .. MaxFaults
    BY <1>3, WriteType DEF FailSilently
  <2> QED BY <2>1, <2>2, <2>3
<1>4. ASSUME NEW t \in Time, InsertRow(d, t)
      PROVE  TypeOK'
  <2>1. rows' \subseteq Deployment /\ touched' \subseteq rows'
    BY <1>4 DEF InsertRow, Touch
  <2>2. updated' \in [Deployment -> Time]
    BY <1>4 DEF InsertRow
  <2>3. UNCHANGED <<state, unsent, pc, cursor, times, streamVars>>
    BY <1>4 DEF InsertRow
  <2>4. writes' \in 0 .. MaxWrites /\ faults' \in 0 .. MaxFaults
    BY <1>4, WriteType DEF InsertRow
  <2> QED BY <2>1, <2>2, <2>3, <2>4
<1> QED BY <1>1, <1>2, <1>3, <1>4

LEMMA DeliverType ==
  ASSUME TypeOK, NEW s \in State, Deliver(s)
  PROVE  inbox' \in Seq(State) /\ deaf' \in BOOLEAN
  BY DEF TypeOK, Deliver

LEMMA PublishType ==
  ASSUME TypeOK,
         PublishPending \/ \E w \in Writer : Publish(w) \/ PublishFails(w)
  PROVE  TypeOK'
<1> USE DEF TypeOK, tableVars, pageVars
<1>1. CASE PublishPending
  BY <1>1, WriteType, DeliverType DEF PublishPending
<1>2. ASSUME NEW w \in Writer, Publish(w) PROVE TypeOK'
  <2>1. unsent[w] \in State
    BY <1>2 DEF Publish
  <2> QED BY <1>2, <2>1, DeliverType DEF Publish
<1>3. ASSUME NEW w \in Writer, PublishFails(w) PROVE TypeOK'
  <2>1. unsent' \in [Writer -> State \cup {None}] /\ deaf' \in BOOLEAN
    BY <1>3 DEF PublishFails
  <2>2. UNCHANGED <<tableVars, pc, pageVars, channel, inbox, fetched, shown>>
    BY <1>3 DEF PublishFails
  <2>3. writes' \in 0 .. MaxWrites /\ faults' \in 0 .. MaxFaults
    BY <1>3, FaultType DEF PublishFails
  <2> QED BY <2>1, <2>2, <2>3
<1> QED BY <1>1, <1>2, <1>3

LEMMA StreamType ==
  ASSUME TypeOK,
         Connect \/ Subscribed \/ Fetch \/ SendRow \/ Forward \/ Drop \/ Resubscribe
  PROVE  TypeOK'
<1> USE DEF TypeOK, tableVars, pageVars, See
<1>1. CASE Connect
  BY <1>1 DEF Connect
<1>2. CASE Subscribed
  BY <1>2 DEF Subscribed
<1>3. CASE Fetch
  BY <1>3 DEF Fetch
<1>4. CASE SendRow
  BY <1>4 DEF SendRow
<1>5. CASE Forward
  <2>1. Head(inbox) \in State /\ Tail(inbox) \in Seq(State)
    BY <1>5 DEF Forward
  <2> QED BY <1>5, <2>1 DEF Forward
<1>6. CASE Drop
  <2>1. writes' \in 0 .. MaxWrites /\ faults' \in 0 .. MaxFaults
    BY <1>6, FaultType DEF Drop
  <2>2. /\ pc' = "away" /\ channel' = "none" /\ inbox' = <<>> /\ fetched' = None
        /\ UNCHANGED <<tableVars, unsent, pageVars, shown, deaf>>
    BY <1>6 DEF Drop
  <2> QED BY <2>1, <2>2
<1>7. CASE Resubscribe
  BY <1>7, FaultType DEF Resubscribe
<1> QED BY <1>1, <1>2, <1>3, <1>4, <1>5, <1>6, <1>7

LEMMA TypeStep == TypeOK /\ [Next]_vars => TypeOK'
<1> SUFFICES ASSUME TypeOK, [Next]_vars PROVE TypeOK'
  OBVIOUS
<1>1. CASE UNCHANGED vars
  BY <1>1 DEF TypeOK, vars, tableVars, pageVars, streamVars
<1>2. CASE Next
  BY <1>2, PageType, WriterType, PublishType, StreamType DEF Next
<1> QED BY <1>1, <1>2

\* The variables of Views have their types.
THEOREM TypeCorrect == Spec => []TypeOK
<1>1. Init => TypeOK
  BY InitType
<1>2. TypeOK /\ [Next]_vars => TypeOK'
  BY TypeStep
<1> QED BY <1>1, <1>2, PTL DEF Spec

-----------------------------------------------------------------------------
(* The order of the rows.                                                  *)

LEMMA KeyType ==
  ASSUME TypeOK
  PROVE  /\ cursor \in Nat \X Nat
         /\ \A d \in Deployment :
              Key(d) \in Nat \X Nat /\ Key(d)[1] = updated[d] /\ Key(d)[2] = d
<1>1. Top \in Nat \X Nat /\ Time \subseteq Nat
  BY DEF Top
<1>2. cursor \in Nat \X Nat
  BY <1>1 DEF TypeOK
<1>3. ASSUME NEW d \in Deployment
      PROVE  Key(d) \in Nat \X Nat /\ Key(d)[1] = updated[d] /\ Key(d)[2] = d
  <2>1. updated[d] \in Nat /\ d \in Nat
    BY <1>1 DEF TypeOK
  <2> QED BY <2>1 DEF Key
<1> QED BY <1>2, <1>3

LEMMA LessIsTotal ==
  ASSUME NEW a \in Nat \X Nat, NEW b \in Nat \X Nat
  PROVE  /\ ~Less(a, a)
         /\ Less(a, b) => ~Less(b, a)
         /\ a[2] # b[2] => Less(a, b) \/ Less(b, a)
  BY DEF Less

LEMMA LessIsTransitive ==
  ASSUME NEW a \in Nat \X Nat, NEW b \in Nat \X Nat, NEW c \in Nat \X Nat,
         Less(a, b), Less(b, c)
  PROVE  Less(a, c)
  BY DEF Less

\* The rows before a row on the pages to come.
Before(d) == {e \in Below(cursor) : Less(Key(d), Key(e))}

LEMMA BeforeType ==
  ASSUME TypeOK, NEW d
  PROVE  /\ Below(cursor) \subseteq Deployment /\ Page \subseteq Below(cursor)
         /\ d \in Page <=> d \in Below(cursor) /\ Cardinality(Before(d)) < Limit
         /\ IsFiniteSet(Before(d)) /\ Cardinality(Before(d)) \in Nat
         /\ IsFiniteSet(Page) /\ Cardinality(Page) \in Nat
<1>1. Below(cursor) \subseteq Deployment /\ Page \subseteq Below(cursor)
  BY DEF TypeOK, Below, Page
<1>2. Before(d) \in SUBSET Deployment /\ Page \in SUBSET Deployment
  BY <1>1 DEF Before
<1>3. IsFiniteSet(Before(d)) /\ IsFiniteSet(Page)
  BY <1>2, FS_Subset
<1>4. Cardinality(Before(d)) \in Nat /\ Cardinality(Page) \in Nat
  BY <1>3, FS_CardinalityType
<1>5. d \in Page <=> d \in Below(cursor) /\ Cardinality(Before(d)) < Limit
  BY DEF Page, Before
<1> QED BY <1>1, <1>3, <1>4, <1>5

\* Fewer rows precede a row that comes earlier.
LEMMA BeforeShrinks ==
  ASSUME TypeOK, NEW d \in Below(cursor), NEW e \in Below(cursor), Less(Key(d), Key(e))
  PROVE  Cardinality(Before(e)) < Cardinality(Before(d))
<1>1. d \in Deployment /\ e \in Deployment
  BY BeforeType
<1>2. Before(e) \in SUBSET Before(d)
  <2> SUFFICES ASSUME NEW x \in Before(e) PROVE x \in Before(d)
    OBVIOUS
  <2>1. x \in Below(cursor) /\ x \in Deployment /\ Less(Key(e), Key(x))
    BY BeforeType DEF Before
  <2>2. Less(Key(d), Key(x))
    BY <1>1, <2>1, KeyType, LessIsTransitive
  <2> QED BY <2>1, <2>2 DEF Before
<1>3. e \in Before(d) /\ e \notin Before(e)
  BY <1>1, KeyType, LessIsTotal DEF Before
<1>4. /\ IsFiniteSet(Before(d))
      /\ Cardinality(Before(d)) \in Nat /\ Cardinality(Before(e)) \in Nat
  BY BeforeType
<1>5. /\ Cardinality(Before(e)) <= Cardinality(Before(d))
      /\ Cardinality(Before(d)) = Cardinality(Before(e)) => Before(d) = Before(e)
  BY <1>2, <1>4, FS_Subset
<1> QED BY <1>3, <1>4, <1>5

\* A row left for later comes after all rows of the page.
LEMMA PageComesFirst ==
  ASSUME TypeOK, NEW d \in Below(cursor) \ Page, NEW m \in Page
  PROVE  Less(Key(d), Key(m))
<1>1. d \in Deployment /\ m \in Deployment /\ m \in Below(cursor) /\ d # m
  BY BeforeType
<1>2. CASE Less(Key(m), Key(d))
  <2>1. Cardinality(Before(d)) < Cardinality(Before(m))
    BY <1>1, <1>2, BeforeShrinks
  <2>2. /\ Cardinality(Before(m)) < Limit /\ ~(Cardinality(Before(d)) < Limit)
        /\ Cardinality(Before(d)) \in Nat /\ Cardinality(Before(m)) \in Nat
    BY BeforeType
  <2> QED BY <2>1, <2>2
<1> QED BY <1>1, <1>2, KeyType, LessIsTotal

\* The relation < on the natural numbers, and what is least in a set of them.
LEMMA LeastNatural ==
  ASSUME NEW T \in SUBSET Nat, T # {}
  PROVE  \E n \in T : \A k \in T : n <= k
<1> DEFINE R == OpToRel(<, Nat)
<1>1. PICK n \in T : \A k \in T : ~ (<<k, n>> \in R)
  BY NatLessThanWellFounded, WFMin
<1>2. \A k \in T : ~(k < n)
  BY <1>1 DEF OpToRel
<1> QED BY <1>2

\* A page that is not full is the last: nothing is left for later.
LEMMA LastPage ==
  ASSUME TypeOK, Cardinality(Page) < Limit
  PROVE  Below(cursor) \subseteq Page
<1> SUFFICES ASSUME Below(cursor) \ Page # {} PROVE FALSE
  OBVIOUS
<1> DEFINE T == {Cardinality(Before(d)) : d \in Below(cursor) \ Page}
<1>1. T \in SUBSET Nat /\ T # {}
  BY BeforeType
<1>2. PICK n \in T : \A k \in T : n <= k
  BY <1>1, LeastNatural
<1>3. PICK d \in Below(cursor) \ Page : n = Cardinality(Before(d))
  BY <1>2
<1>4. Before(d) \in SUBSET Page
  <2> SUFFICES ASSUME NEW e \in Before(d), e \notin Page PROVE FALSE
    OBVIOUS
  <2>1. e \in Below(cursor) \ Page /\ Less(Key(d), Key(e))
    BY DEF Before
  <2>2. Cardinality(Before(e)) < Cardinality(Before(d))
    BY <2>1, BeforeShrinks
  <2>3. Cardinality(Before(d)) <= Cardinality(Before(e))
    BY <1>2, <1>3, <2>1
  <2>4. Cardinality(Before(d)) \in Nat /\ Cardinality(Before(e)) \in Nat
    BY BeforeType
  <2> QED BY <2>2, <2>3, <2>4
<1>5. Cardinality(Before(d)) <= Cardinality(Page)
  BY <1>4, BeforeType, FS_Subset
<1>6. Cardinality(Before(d)) \in Nat /\ Cardinality(Page) \in Nat
  BY BeforeType
<1>7. d \in Page
  BY <1>5, <1>6, BeforeType
<1> QED BY <1>7

-----------------------------------------------------------------------------
(* Pages.                                                                  *)

\* An untouched row has been shown once if the cursor is past it, and not at
\* all if it lies ahead.
PageInv ==
  /\ ~Paging => \A d \in Deployment : times[d] = 0
  /\ Paging => \A d \in rows \ touched :
       times[d] = IF pc = "paging" /\ Less(Key(d), cursor) THEN 0 ELSE 1

LEMMA InitPage == Init => PageInv
<1> SUFFICES ASSUME Init PROVE PageInv
  OBVIOUS
<1>1. ASSUME NEW d \in Deployment PROVE Less(Key(d), cursor)
  <2>1. updated[d] \in 0 .. MaxTime
    BY DEF Init
  <2> QED BY <2>1 DEF Init, Less, Key, Top
<1> QED BY <1>1 DEF Init, PageInv

LEMMA NextPageStep == ASSUME TypeOK, PageInv, NextPage PROVE PageInv'
<1> USE DEF NextPage
<1>1. /\ pc = "paging" /\ pc' \in {"paging", "paged"}
      /\ UNCHANGED <<rows, updated, touched>>
  BY DEF tableVars
<1> SUFFICES ASSUME NEW d \in rows \ touched
             PROVE  times'[d] = IF pc' = "paging" /\ Less(Key(d), cursor') THEN 0 ELSE 1
  BY <1>1 DEF PageInv, Key
<1>2. d \in Deployment /\ times[d] = IF Less(Key(d), cursor) THEN 0 ELSE 1
  BY <1>1 DEF PageInv, TypeOK
<1>3. times'[d] = IF d \in Page THEN times[d] + 1 ELSE times[d]
  BY <1>2
<1>4. Page \subseteq Below(cursor) /\ Page \subseteq Deployment
  BY BeforeType
<1>5. d \in Below(cursor) <=> Less(Key(d), cursor)
  BY DEF Below
<1>6. CASE d \in Page
  <2>1. PICK m \in Page : cursor' = Key(m) /\ ~Less(Key(d), Key(m))
    BY <1>6
  <2> QED BY <1>2, <1>3, <1>4, <1>5, <1>6, <2>1
<1>7. CASE d \in Below(cursor) \ Page
  <2>1. Cardinality(Page) = Limit /\ pc' = "paging"
    BY <1>1, <1>7, LastPage
  <2>2. Page # {}
    BY <2>1, FS_EmptySet
  <2>3. PICK m \in Page : cursor' = Key(m)
    BY <2>2
  <2>4. Less(Key(d), cursor')
    BY <1>7, <2>3, PageComesFirst
  <2> QED BY <1>2, <1>3, <1>5, <1>7, <2>1, <2>4
<1>8. CASE d \notin Below(cursor)
  <2>1. CASE UNCHANGED cursor
    BY <1>2, <1>3, <1>4, <1>5, <1>8, <2>1
  <2>2. ASSUME NEW m \in Page, cursor' = Key(m)
        PROVE  ~Less(Key(d), cursor')
    <3>1. Less(Key(m), cursor) /\ m \in Deployment
      BY <1>4 DEF Below
    <3> QED BY <1>2, <1>5, <1>8, <2>2, <3>1, KeyType, LessIsTransitive
  <2> QED BY <1>2, <1>3, <1>4, <1>5, <1>8, <2>1, <2>2
<1> QED BY <1>6, <1>7, <1>8

\* Steps that leave the reader's place and the keys of untouched rows alone.
LEMMA PageKept ==
  ASSUME TypeOK, PageInv, UNCHANGED <<cursor, times>>,
         Paging' <=> Paging, pc = "paging" <=> pc' = "paging",
         Paging => \A d \in rows' \ touched' : d \in rows \ touched /\ updated'[d] = updated[d]
  PROVE  PageInv'
<1>1. CASE Paging
  <2> SUFFICES ASSUME NEW d \in rows' \ touched'
               PROVE  times'[d] = IF pc' = "paging" /\ Less(Key(d)', cursor') THEN 0 ELSE 1
    BY <1>1 DEF PageInv
  <2>1. d \in rows \ touched /\ Key(d)' = Key(d)
    BY <1>1 DEF Key
  <2> QED BY <1>1, <2>1 DEF PageInv
<1>2. CASE ~Paging
  BY <1>2 DEF PageInv
<1> QED BY <1>1, <1>2

LEMMA PageStep == TypeOK /\ PageInv /\ [Next]_vars => PageInv'
<1> SUFFICES ASSUME TypeOK, PageInv, [Next]_vars PROVE PageInv'
  OBVIOUS
<1> USE DEF tableVars, pageVars, streamVars
<1>1. CASE NextPage
  BY <1>1, NextPageStep
<1>2. ASSUME NEW w \in Writer, NEW d \in Deployment, NEW s \in State, NEW t \in Time,
             UpdateState(w, d, s, t)
      PROVE  PageInv'
  <2>1. /\ UNCHANGED <<rows, pc, cursor, times>>
        /\ \A e \in Deployment \ {d} : updated'[e] = updated[e]
        /\ Paging => touched' = touched \cup {d}
    BY <1>2 DEF UpdateState, Touch, TypeOK
  <2>2. Paging => \A e \in rows' \ touched' : e \in rows \ touched /\ updated'[e] = updated[e]
    BY <2>1 DEF TypeOK
  <2> QED BY <2>1, <2>2, PageKept
<1>3. ASSUME NEW d \in Deployment, NEW t \in Time, InsertRow(d, t)
      PROVE  PageInv'
  <2>1. /\ UNCHANGED <<pc, cursor, times>> /\ rows' = rows \cup {d}
        /\ \A e \in Deployment \ {d} : updated'[e] = updated[e]
        /\ Paging => touched' = touched \cup {d}
    BY <1>3 DEF InsertRow, Touch, TypeOK
  <2>2. Paging => \A e \in rows' \ touched' : e \in rows \ touched /\ updated'[e] = updated[e]
    BY <2>1 DEF TypeOK
  <2> QED BY <2>1, <2>2, PageKept
<1>4. CASE \/ \E w \in Writer, d \in Deployment, s \in State : Outcome(w, d, s)
           \/ \E d \in Deployment : FailSilently(d)
           \/ \E w \in Writer : Publish(w) \/ PublishFails(w)
           \/ PublishPending \/ Subscribed \/ Resubscribe
  <2>1. UNCHANGED <<rows, updated, pc, pageVars>>
    BY <1>4
    DEF Outcome, FailSilently, Publish, PublishFails, PublishPending, Subscribed, Resubscribe
  <2> QED BY <2>1, PageKept
<1>5. CASE Connect \/ Fetch \/ SendRow \/ Forward \/ Drop
  <2>1. ~Paging /\ ~Paging' /\ UNCHANGED <<rows, updated, pageVars>>
    BY <1>5 DEF Connect, Fetch, SendRow, Forward, Drop, See
  <2> QED BY <2>1, PageKept
<1>6. CASE UNCHANGED vars
  BY <1>6, PageKept DEF vars
<1> QED BY <1>1, <1>2, <1>3, <1>4, <1>5, <1>6 DEF Next

\* However many rows workers and users write while somebody turns the pages:
\* a row that was given no new updated_at is shown exactly once.
THEOREM UntouchedShownOnceHolds == Spec => []UntouchedShownOnce
<1>1. Init => TypeOK /\ PageInv
  BY InitType, InitPage
<1>2. TypeOK /\ PageInv /\ [Next]_vars => TypeOK' /\ PageInv'
  BY TypeStep, PageStep
<1>3. TypeOK /\ PageInv => UntouchedShownOnce
  BY DEF TypeOK, PageInv, UntouchedShownOnce
<1> QED BY <1>1, <1>2, <1>3, PTL DEF Spec

-----------------------------------------------------------------------------
(* The status stream.                                                      *)

\* What is going to tell the client of a final state.
OnItsWay ==
  \/ pc = "send" /\ fetched \in Final
  \/ \E i \in 1 .. Len(inbox) : inbox[i] \in Final
  \/ \E w \in Writer : unsent[w] \in Final

\* A message finds the channel subscribed to, or is counted in deaf.
StreamInv ==
  /\ Streaming => channel # "none"
  /\ pc \in {"send", "listen"} /\ state[Subject] \in Final /\ ~deaf => OnItsWay

LEMMA StreamStep == TypeOK /\ StreamInv /\ [Next]_vars => StreamInv'
<1> SUFFICES ASSUME TypeOK, StreamInv, [Next]_vars PROVE StreamInv'
  OBVIOUS
<1> USE DEF tableVars, pageVars, StreamInv
<1>1. ASSUME UNCHANGED <<pc, channel, fetched, inbox, unsent>>, deaf => deaf',
             deaf' \/ state'[Subject] \notin Final \/ state'[Subject] = state[Subject]
      PROVE  StreamInv'
  BY <1>1 DEF OnItsWay
<1>2. ASSUME NEW w \in Writer, NEW d \in Deployment, NEW s \in State,
             unsent[w] = None, state' = [state EXCEPT ![d] = s],
             ToPublish(w, d, s), UNCHANGED <<pc, streamVars>>
      PROVE  StreamInv'
  <2>1. CASE d = Subject /\ ~Paging
    <3>1. /\ state'[Subject] = s /\ unsent'[w] = s
          /\ \A v \in Writer \ {w} : unsent'[v] = unsent[v]
      BY <1>2, <2>1 DEF ToPublish, TypeOK
    <3> QED BY <1>2, <3>1 DEF OnItsWay, streamVars
  <2>2. CASE d # Subject /\ ~Paging
    <3>1. state'[Subject] = state[Subject] /\ unsent' = unsent
      BY <1>2, <2>2 DEF ToPublish, TypeOK
    <3> QED BY <1>1, <1>2, <3>1 DEF streamVars
  <2>3. CASE Paging
    BY <1>2, <2>3 DEF streamVars
  <2> QED BY <2>1, <2>2, <2>3
<1>3. ASSUME NEW s \in State, Deliver(s), UNCHANGED <<state, pc, channel, fetched>>,
             \A v \in Writer : unsent[v] \in Final => unsent'[v] \in Final \/ s \in Final
      PROVE  StreamInv'
  <2> SUFFICES ASSUME pc \in {"send", "listen"}, state[Subject] \in Final, ~deaf'
               PROVE  OnItsWay'
    BY <1>3
  <2>1. ~deaf /\ channel \in {"asked", "active"} /\ (channel = "asked" => s \notin Final)
    BY <1>3 DEF Deliver, TypeOK
  <2>2. CASE channel = "asked"
    BY <1>3, <2>1, <2>2 DEF Deliver, OnItsWay
  <2>3. CASE channel = "active"
    <3>1. inbox' = Append(inbox, s) /\ inbox \in Seq(State)
      BY <1>3, <2>3 DEF Deliver, TypeOK
    <3>2. /\ Len(inbox') = Len(inbox) + 1 /\ inbox'[Len(inbox) + 1] = s
          /\ Len(inbox) \in Nat
          /\ \A i \in 1 .. Len(inbox) : inbox'[i] = inbox[i]
      BY <3>1
    <3>3. CASE s \in Final
      BY <3>2, <3>3 DEF OnItsWay
    <3>4. CASE s \notin Final
      BY <1>3, <2>1, <3>2, <3>4 DEF OnItsWay
    <3> QED BY <3>3, <3>4
  <2> QED BY <2>1, <2>2, <2>3
<1>4. CASE NextPage
  BY <1>4 DEF NextPage, streamVars
<1>5. ASSUME NEW w \in Writer, NEW d \in Deployment, NEW s \in State, NEW t \in Time,
             UpdateState(w, d, s, t)
      PROVE  StreamInv'
  BY <1>2, <1>5 DEF UpdateState
<1>6. ASSUME NEW w \in Writer, NEW d \in Deployment, NEW s \in State, Outcome(w, d, s)
      PROVE  StreamInv'
  BY <1>2, <1>6 DEF Outcome
<1>7. ASSUME NEW d \in Deployment, FailSilently(d)
      PROVE  StreamInv'
  <2>1. CASE d = Subject /\ ~Paging
    BY <1>1, <1>7, <2>1 DEF FailSilently
  <2>2. CASE d # Subject
    BY <1>1, <1>7, <2>2 DEF FailSilently, TypeOK
  <2>3. CASE Paging
    BY <1>7, <2>3 DEF FailSilently
  <2> QED BY <2>1, <2>2, <2>3
<1>8. ASSUME NEW d \in Deployment, NEW t \in Time, InsertRow(d, t)
      PROVE  StreamInv'
  BY <1>1, <1>8 DEF InsertRow, streamVars
<1>9. CASE PublishPending
  BY <1>3, <1>9 DEF PublishPending
<1>10. ASSUME NEW w \in Writer, Publish(w)
       PROVE  StreamInv'
  <2>1. /\ unsent[w] \in State /\ Deliver(unsent[w])
        /\ \A v \in Writer \ {w} : unsent'[v] = unsent[v]
        /\ UNCHANGED <<state, pc, channel, fetched>>
    BY <1>10 DEF Publish, TypeOK
  <2> QED BY <1>3, <2>1
<1>11. ASSUME NEW w \in Writer, PublishFails(w)
       PROVE  StreamInv'
  <2>1. /\ \A v \in Writer \ {w} : unsent'[v] = unsent[v]
        /\ UNCHANGED <<state, pc, channel, fetched, inbox>>
        /\ ~deaf' => ~deaf /\ unsent[w] \notin Final
    BY <1>11 DEF PublishFails, TypeOK
  <2> QED BY <2>1 DEF OnItsWay
<1>12. CASE Connect \/ Drop
  BY <1>12 DEF Connect, Drop
<1>13. CASE Subscribed \/ Resubscribe
  BY <1>13 DEF Subscribed, Resubscribe, OnItsWay
<1>14. CASE Fetch
  BY <1>14 DEF Fetch, OnItsWay
<1>15. CASE SendRow
  <2>1. /\ UNCHANGED <<state, unsent, inbox, channel, deaf>> /\ pc = "send"
        /\ pc' = IF fetched \in Final THEN "done" ELSE "listen"
    BY <1>15 DEF SendRow, See
  <2> QED BY <2>1 DEF OnItsWay
<1>16. CASE Forward
  <2>1. /\ UNCHANGED <<state, unsent, channel, deaf>>
        /\ pc = "listen" /\ inbox \in Seq(State) /\ inbox # <<>> /\ inbox' = Tail(inbox)
        /\ pc' = IF Head(inbox) \in Final THEN "done" ELSE "listen"
    BY <1>16 DEF Forward, See, TypeOK
  <2>2. /\ Len(inbox) \in Nat \ {0} /\ Head(inbox) = inbox[1]
        /\ Len(inbox') = Len(inbox) - 1
        /\ \A i \in 1 .. Len(inbox') : inbox'[i] = inbox[i + 1]
    BY <2>1
  <2>3. CASE Head(inbox) \notin Final
    <3>1. ASSUME NEW i \in 1 .. Len(inbox), inbox[i] \in Final
          PROVE  \E j \in 1 .. Len(inbox') : inbox'[j] \in Final
      <4>1. i # 1
        BY <2>2, <2>3, <3>1
      <4>2. i - 1 \in 1 .. Len(inbox') /\ inbox'[i - 1] = inbox[i]
        BY <2>2, <4>1
      <4> QED BY <3>1, <4>2
    <3> QED BY <2>1, <3>1 DEF OnItsWay
  <2>4. CASE Head(inbox) \in Final
    BY <2>1, <2>4
  <2> QED BY <2>3, <2>4
<1>17. CASE UNCHANGED vars
  BY <1>17 DEF vars, streamVars, OnItsWay
<1> QED
  BY <1>4, <1>5, <1>6, <1>7, <1>8, <1>9, <1>10, <1>11, <1>12, <1>13, <1>14, <1>15,
     <1>16, <1>17
  DEF Next

\* While a client listens, a final state of its deployment is on its way to
\* it, unless it was written silently, its PUBLISH failed or it outran the
\* SUBSCRIBE.
THEOREM FinalIsOnItsWayHolds == Spec => []FinalIsOnItsWay
<1>1. Init => TypeOK /\ StreamInv
  <2>1. Init => StreamInv
    BY DEF Init, StreamInv
  <2> QED BY <2>1, InitType
<1>2. TypeOK /\ StreamInv /\ [Next]_vars => TypeOK' /\ StreamInv'
  BY TypeStep, StreamStep
<1>3. TypeOK /\ StreamInv => FinalIsOnItsWay
  BY DEF TypeOK, StreamInv, OnItsWay, FinalIsOnItsWay
<1> QED BY <1>1, <1>2, <1>3, PTL DEF Spec
=============================================================================
