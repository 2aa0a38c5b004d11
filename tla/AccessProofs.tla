------------------------------ MODULE AccessProofs ------------------------------
(***************************************************************************)
(* Theorems about Access, for every number of processes, requests and      *)
(* users.                                                                  *)
(***************************************************************************)
EXTENDS Access, TLAPS

USE DEF Role, Pc, Querying

-----------------------------------------------------------------------------
(* Types.                                                                  *)

LEMMA InitType == Init => TypeOK
  BY BoundsAssumption DEF Init, TypeOK

LEMMA ArrivalType ==
  ASSUME TypeOK, NEW r \in Request, NEW u \in User, NEW p \in Process,
         Hit(r, u, p) \/ Miss(r, u, p)
  PROVE  TypeOK'
<1>1. CASE Hit(r, u, p)
  BY <1>1 DEF TypeOK, Hit, Arrive, Hold, cacheVars, breakerVars, budgetVars
<1>2. CASE Miss(r, u, p)
  BY <1>2 DEF TypeOK, Miss, Arrive, Hold, cacheVars, budgetVars
<1> QED BY <1>1, <1>2

LEMMA AnswerType ==
  ASSUME TypeOK, NEW r \in Request, Accepted(r) \/ Refused(r) \/ Unreachable(r)
  PROVE  TypeOK'
<1>1. CASE Accepted(r)
  <2>1. 0 \in 0 .. faults
    BY BoundsAssumption DEF TypeOK
  <2>2. held' \in [Request -> Role]
    BY <1>1 DEF TypeOK, Accepted
  <2> QED
    BY <1>1, <2>1, <2>2 DEF TypeOK, Accepted, Goto, cacheVars, budgetVars
<1>2. CASE Refused(r)
  BY <1>2 DEF TypeOK, Refused, Leave, Goto, Hold, cacheVars, breakerVars, budgetVars
<1>3. CASE Unreachable(r)
  <2>1. faults' = faults + 1 /\ faults' \in 0 .. MaxFaults
    BY <1>3, BoundsAssumption DEF TypeOK, Unreachable, Fault
  <2>2. failures' \in [Process -> 0 .. faults']
    BY <1>3, <2>1, BoundsAssumption DEF TypeOK, Unreachable
  <2> QED
    BY <1>3, <2>1, <2>2 DEF TypeOK, Unreachable, Fault, Leave, Goto, Hold, cacheVars
<1> QED BY <1>1, <1>2, <1>3

LEMMA UserType ==
  ASSUME TypeOK, NEW r \in Request,
         Lookup(r) \/ Promote(r) \/ Count(r) \/ Insert(r) \/ StoreToken(r) \/ QueryFails(r)
  PROVE  TypeOK'
<1>1. CASE Lookup(r)
  BY <1>1 DEF TypeOK, Lookup, Find, Goto, Hold, cacheVars, breakerVars, budgetVars
<1>2. CASE Promote(r)
  BY <1>2 DEF TypeOK, Promote, Find, Goto, Hold, cacheVars, breakerVars, budgetVars
<1>3. CASE Count(r)
  BY <1>3 DEF TypeOK, Count, Goto, Hold, cacheVars, breakerVars, budgetVars
<1>4. CASE Insert(r)
  BY <1>4 DEF TypeOK, Insert, Find, Goto, Hold, cacheVars, breakerVars, budgetVars
<1>5. CASE StoreToken(r)
  BY <1>5 DEF TypeOK, StoreToken, Goto, breakerVars, budgetVars
<1>6. CASE QueryFails(r)
  <2>1. faults' = faults + 1 /\ faults' \in 0 .. MaxFaults
    BY <1>6, BoundsAssumption DEF TypeOK, QueryFails, Fault
  <2>2. failures' \in [Process -> 0 .. faults']
    BY <1>6, <2>1, BoundsAssumption DEF TypeOK, QueryFails, breakerVars
  <2> QED
    BY <1>6, <2>1, <2>2
    DEF TypeOK, QueryFails, Fault, Leave, Goto, Hold, cacheVars, breakerVars
<1> QED BY <1>1, <1>2, <1>3, <1>4, <1>5, <1>6

LEMMA HandlerType ==
  ASSUME TypeOK, NEW r \in Request,
         Finish(r) \/ \E u \in User, v \in Role : UpdateRole(r, u, v)
  PROVE  TypeOK'
<1>1. CASE Finish(r)
  BY <1>1 DEF TypeOK, Finish, Leave, Goto, Hold, cacheVars, breakerVars, budgetVars
<1>2. CASE \E u \in User, v \in Role : UpdateRole(r, u, v)
  <2>1. PICK u \in User, v \in Role : UpdateRole(r, u, v)
    BY <1>2
  <2>2. changes' \in 0 .. MaxChanges
    BY <2>1, BoundsAssumption DEF TypeOK, UpdateRole
  <2> QED
    BY <2>1, <2>2 DEF TypeOK, UpdateRole, Leave, Goto, Hold, cacheVars, breakerVars
<1> QED BY <1>1, <1>2

LEMMA TimeType ==
  ASSUME TypeOK, NEW p \in Process,
         \/ \E u \in User : Age(p, u) \/ Drop(p, u)
         \/ Rest(p) \/ Restart(p)
  PROVE  TypeOK'
<1>1. CASE \E u \in User : Age(p, u)
  BY <1>1 DEF TypeOK, Age, breakerVars, requestVars, budgetVars
<1>2. CASE \E u \in User : Drop(p, u)
  BY <1>2 DEF TypeOK, Drop, breakerVars, requestVars, budgetVars
<1>3. CASE Rest(p)
  BY <1>3 DEF TypeOK, Rest, cacheVars, requestVars, budgetVars
<1>4. CASE Restart(p)
  <2>1. faults' = faults + 1 /\ faults' \in 0 .. MaxFaults
    BY <1>4, BoundsAssumption DEF TypeOK, Restart, Fault
  <2>2. failures' \in [Process -> 0 .. faults']
    BY <1>4, <2>1, BoundsAssumption DEF TypeOK, Restart
  <2> QED
    BY <1>4, <2>1, <2>2 DEF TypeOK, Restart, Fault
<1> QED BY <1>1, <1>2, <1>3, <1>4

\* Every step keeps the types.
LEMMA TypeStep == TypeOK /\ [Next]_vars => TypeOK'
<1> SUFFICES ASSUME TypeOK, [Next]_vars PROVE TypeOK'
  OBVIOUS
<1>1. CASE UNCHANGED vars
  BY <1>1 DEF TypeOK, vars, cacheVars, breakerVars, requestVars, budgetVars
<1>2. CASE Next
  BY <1>2, ArrivalType, AnswerType, UserType, HandlerType, TimeType DEF Next, Handle
<1> QED BY <1>1, <1>2

\* The variables of Access have their types, and the breaker of a process
\* counts nothing but calls that failed.
THEOREM TypeCorrect == Spec => []TypeOK
<1>1. Init => TypeOK
  BY InitType
<1>2. TypeOK /\ [Next]_vars => TypeOK'
  BY TypeStep
<1> QED BY <1>1, <1>2, PTL DEF Spec
-----------------------------------------------------------------------------
(* The breaker.                                                            *)

\* A process whose calls failed Threshold times, the last of them less than
\* 30 seconds ago, has its breaker open.
BreakerInv ==
  \A p \in Process : failures[p] >= Threshold /\ ~rested[p] => open[p]

LEMMA InitBreaker == Init => BreakerInv
  BY DEF Init, BreakerInv

\* A request begins to call GitHub in Miss only, which an open breaker stops.
LEMMA BreakerStep ==
  ASSUME TypeOK, BreakerInv, [Next]_vars
  PROVE  /\ BreakerInv'
         /\ \A r \in Request :
              pc[r] = "idle" /\ pc'[r] = "github" =>
                failures[home'[r]] < Threshold \/ rested[home'[r]]
<1> DEFINE Spared ==
      \A r \in Request :
        pc[r] = "idle" /\ pc'[r] = "github" =>
          failures[home'[r]] < Threshold \/ rested[home'[r]]
<1> SUFFICES BreakerInv' /\ Spared
  OBVIOUS
<1> USE ThresholdAssumption DEF breakerVars, Goto, Leave
<1>1. ASSUME NEW r \in Request, NEW u \in User, NEW p \in Process, Miss(r, u, p)
      PROVE  BreakerInv' /\ Spared
  <2>1. failures[p] \in Nat
    BY DEF TypeOK
  <2>2. failures[p] < Threshold \/ rested[p]
    BY <1>1, <2>1 DEF Miss, BreakerInv
  <2>3. \A q \in Process : open'[q] = IF q = p THEN FALSE ELSE open[q]
    BY <1>1 DEF Miss, TypeOK
  <2>4. UNCHANGED <<failures, rested>>
    BY <1>1 DEF Miss
  <2>5. BreakerInv'
    <3>1. ~(failures[p] >= Threshold /\ ~rested[p])
      BY <2>1, <2>2
    <3> QED BY <2>3, <2>4, <3>1 DEF BreakerInv
  <2>6. home'[r] = p /\ \A q \in Request \ {r} : pc'[q] = pc[q]
    BY <1>1 DEF Miss, Arrive, Hold, TypeOK
  <2>7. \A q \in Request : pc[q] = "idle" /\ pc'[q] = "github" => q = r
    BY <2>6
  <2>8. Spared
    BY <2>2, <2>6, <2>7
  <2> QED BY <2>5, <2>8
<1>2. ASSUME NEW r \in Request, NEW u \in User, NEW p \in Process, Hit(r, u, p)
      PROVE  BreakerInv' /\ Spared
  BY <1>2 DEF Hit, Arrive, BreakerInv, TypeOK
<1>3. ASSUME NEW r \in Request, Accepted(r)
      PROVE  BreakerInv' /\ Spared
  <2>1. \A q \in Process :
          failures'[q] = IF q = home[r] THEN 0 ELSE failures[q]
    BY <1>3 DEF Accepted, TypeOK
  <2>2. \A q \in Process : q # home[r] => open'[q] = open[q]
    BY <1>3 DEF Accepted, TypeOK
  <2>3. BreakerInv'
    BY <1>3, <2>1, <2>2 DEF Accepted, BreakerInv
  <2>4. Spared
    BY <1>3 DEF Accepted, TypeOK
  <2> QED BY <2>3, <2>4
<1>4. ASSUME NEW r \in Request, Unreachable(r)
      PROVE  BreakerInv' /\ Spared
  <2>1. \A q \in Process : q # home[r] =>
          UNCHANGED <<failures[q], open[q], rested[q]>>
    BY <1>4 DEF Unreachable, TypeOK
  <2>2. home[r] \in Process /\ failures[home[r]] \in Nat
    BY DEF TypeOK
  <2>3. /\ failures'[home[r]] = failures[home[r]] + 1
        /\ open'[home[r]] = (open[home[r]] \/ failures[home[r]] + 1 >= Threshold)
    BY <1>4, <2>2 DEF Unreachable, TypeOK
  <2>4. BreakerInv'
    BY <2>1, <2>2, <2>3 DEF BreakerInv
  <2>5. Spared
    BY <1>4 DEF Unreachable, TypeOK
  <2> QED BY <2>4, <2>5
<1>5. ASSUME NEW r \in Request, Refused(r) \/ QueryFails(r)
      PROVE  BreakerInv' /\ Spared
  BY <1>5 DEF Refused, QueryFails, BreakerInv, TypeOK
<1>6. ASSUME NEW r \in Request,
             Lookup(r) \/ Promote(r) \/ Count(r) \/ Insert(r)
      PROVE  BreakerInv' /\ Spared
  BY <1>6 DEF Lookup, Promote, Count, Insert, Find, BreakerInv, TypeOK
<1>7. ASSUME NEW r \in Request,
             \/ StoreToken(r) \/ Finish(r)
             \/ \E u \in User, v \in Role : UpdateRole(r, u, v)
      PROVE  BreakerInv' /\ Spared
  BY <1>7 DEF StoreToken, Finish, UpdateRole, BreakerInv, TypeOK
<1>8. ASSUME NEW p \in Process, \E u \in User : Age(p, u) \/ Drop(p, u)
      PROVE  BreakerInv' /\ Spared
  BY <1>8 DEF Age, Drop, requestVars, BreakerInv, TypeOK
<1>9. ASSUME NEW p \in Process, Rest(p)
      PROVE  BreakerInv' /\ Spared
  BY <1>9 DEF Rest, requestVars, BreakerInv, TypeOK
<1>10. ASSUME NEW p \in Process, Restart(p)
       PROVE  BreakerInv' /\ Spared
  <2>1. \A q \in Process :
          /\ failures'[q] = IF q = p THEN 0 ELSE failures[q]
          /\ q # p => UNCHANGED <<open[q], rested[q]>>
    BY <1>10 DEF Restart, TypeOK
  <2>2. BreakerInv'
    BY <2>1 DEF BreakerInv
  <2>3. Spared
    BY <1>10 DEF Restart, TypeOK
  <2> QED BY <2>2, <2>3
<1>11. CASE UNCHANGED vars
  BY <1>11 DEF vars, requestVars, BreakerInv, TypeOK
<1> QED
  BY <1>1, <1>2, <1>3, <1>4, <1>5, <1>6, <1>7, <1>8, <1>9, <1>10, <1>11
  DEF Next, Handle

\* GitHub is left alone: no process begins a call when Threshold of its calls
\* failed, until 30 seconds after the last of them.
THEOREM BreakerSparesHolds == Spec => BreakerSpares
<1>1. Init => TypeOK /\ BreakerInv
  BY InitType, InitBreaker
<1>2. TypeOK /\ BreakerInv /\ [Next]_vars => TypeOK' /\ BreakerInv'
  BY TypeStep, BreakerStep
<1>3. TypeOK /\ BreakerInv /\ [Next]_vars =>
        [\A r \in Request :
           pc[r] = "idle" /\ pc'[r] = "github" =>
             failures[home'[r]] < Threshold \/ rested[home'[r]]]_vars
  BY BreakerStep
<1> QED BY <1>1, <1>2, <1>3, PTL DEF Spec, BreakerSpares

-----------------------------------------------------------------------------
(* Administrators, until somebody changes a role.                          *)

HasAdmin == \E u \in User : role[u] = "admin"

\* A row inserted with the role user is not the first: its request counted
\* another, which is still there.
AdminInv ==
  changes = 0 =>
    /\ ~NoUsers => HasAdmin
    /\ \A r \in Request : pc[r] = "insert" => held[r] # "none"
    /\ \A r \in Request : pc[r] = "insert" /\ held[r] = "user" => ~NoUsers

\* Whoever acts as an administrator is one.
ActInv == AdminsAreAdmins

LEMMA InitAdmin == Init => AdminInv /\ ActInv
  BY DEF Init, AdminInv, ActInv, AdminsAreAdmins, ActsAdmin, NoUsers

\* Steps that leave users and caches alone, and do not bring a request to
\* insert or to act.
LEMMA QuietStep ==
  ASSUME TypeOK, AdminInv, ActInv,
         UNCHANGED role, changes' = changes,
         \A p \in Process, u \in User : cache'[p][u] = "admin" => cache[p][u] = "admin",
         \A r \in Request :
           \/ pc'[r] \notin {"insert", "cache", "act"}
           \/ UNCHANGED <<pc[r], who[r], held[r]>>
  PROVE  AdminInv' /\ ActInv'
<1>1. NoUsers' = NoUsers /\ HasAdmin' = HasAdmin
  BY DEF NoUsers, HasAdmin
<1>2. AdminInv'
  BY <1>1 DEF AdminInv
<1>3. \A u \in User : ActsAdmin(u)' => ActsAdmin(u)
  BY DEF ActsAdmin
<1>4. ActInv'
  BY <1>3 DEF ActInv, AdminsAreAdmins
<1> QED BY <1>2, <1>4

\* Steps of one request that bring it to act with the role of its user's row.
LEMMA FoundStep ==
  ASSUME TypeOK, AdminInv, ActInv, NEW r \in Request,
         pc'[r] \in {"cache", "act"},
         held'[r] = "admin" => role'[who'[r]] = "admin",
         \A q \in Request \ {r} : UNCHANGED <<pc[q], who[q], held[q]>>,
         changes' = changes, ~NoUsers => ~NoUsers', ~NoUsers' => HasAdmin',
         \A u \in User : role[u] = "admin" => role'[u] = "admin",
         \A p \in Process, u \in User :
           cache'[p][u] = "admin" => cache[p][u] = "admin" \/ role'[u] = "admin"
  PROVE  AdminInv' /\ ActInv'
<1>1. AdminInv'
  <2>1. \A q \in Request : pc'[q] = "insert" => q # r /\ pc[q] = "insert" /\ held'[q] = held[q]
    OBVIOUS
  <2> QED BY <2>1 DEF AdminInv
<1>2. ASSUME changes' = 0, NEW u \in User, ActsAdmin(u)'
      PROVE  role'[u] = "admin"
  <2>1. CASE \E p \in Process : cache'[p][u] = "admin"
    BY <1>2, <2>1 DEF ActInv, AdminsAreAdmins, ActsAdmin
  <2>2. CASE \E q \in Request :
               who'[q] = u /\ held'[q] = "admin" /\ pc'[q] \in {"cache", "act"}
    <3>1. PICK q \in Request :
            who'[q] = u /\ held'[q] = "admin" /\ pc'[q] \in {"cache", "act"}
      BY <2>2
    <3>2. CASE q = r
      BY <3>1, <3>2
    <3>3. CASE q # r
      BY <1>2, <3>1, <3>3 DEF ActInv, AdminsAreAdmins, ActsAdmin
    <3> QED BY <3>2, <3>3
  <2> QED BY <1>2, <2>1, <2>2 DEF ActsAdmin
<1> QED BY <1>1, <1>2 DEF ActInv, AdminsAreAdmins

LEMMA AdminStep ==
  ASSUME TypeOK, AdminInv, ActInv, [Next]_vars
  PROVE  AdminInv' /\ ActInv'
<1> USE DEF Goto, Hold, Leave, Fault, cacheVars, requestVars, budgetVars
<1>1. ASSUME NEW r \in Request, NEW u \in User, NEW p \in Process, Hit(r, u, p)
      PROVE  AdminInv' /\ ActInv'
  <2>1. /\ pc'[r] = "act" /\ who'[r] = u /\ held'[r] = cache[p][u]
        /\ \A q \in Request \ {r} : UNCHANGED <<pc[q], who[q], held[q]>>
        /\ UNCHANGED <<role, cache, changes>>
    BY <1>1 DEF Hit, Arrive, TypeOK
  <2>2. CASE changes = 0
    <3>1. held'[r] = "admin" => role'[who'[r]] = "admin"
      BY <2>1, <2>2 DEF ActInv, AdminsAreAdmins, ActsAdmin
    <3>2. NoUsers' = NoUsers /\ HasAdmin' = HasAdmin
      BY <2>1 DEF NoUsers, HasAdmin
    <3>3. ~NoUsers' => HasAdmin'
      BY <2>2, <3>2 DEF AdminInv
    <3> QED BY <2>1, <3>1, <3>2, <3>3, FoundStep
  <2>3. CASE changes # 0
    BY <2>1, <2>3 DEF AdminInv, ActInv, AdminsAreAdmins
  <2> QED BY <2>2, <2>3
<1>2. ASSUME NEW r \in Request, NEW u \in User, NEW p \in Process, Miss(r, u, p)
      PROVE  AdminInv' /\ ActInv'
  <2>1. /\ pc'[r] = "github"
        /\ \A q \in Request \ {r} : UNCHANGED <<pc[q], who[q], held[q]>>
        /\ UNCHANGED <<role, cache, changes>>
    BY <1>2 DEF Miss, Arrive, TypeOK
  <2> QED BY <2>1, QuietStep
<1>3. ASSUME NEW r \in Request,
             Accepted(r) \/ Refused(r) \/ Unreachable(r) \/ QueryFails(r) \/ Finish(r)
      PROVE  AdminInv' /\ ActInv'
  <2>1. /\ pc'[r] \in {"lookup", "idle"}
        /\ \A q \in Request \ {r} : UNCHANGED <<pc[q], who[q], held[q]>>
        /\ UNCHANGED <<role, cache, changes>>
    BY <1>3 DEF Accepted, Refused, Unreachable, QueryFails, Finish, TypeOK
  <2> QED BY <2>1, QuietStep
<1>4. ASSUME NEW r \in Request, Lookup(r)
      PROVE  AdminInv' /\ ActInv'
  <2>1. /\ \A q \in Request \ {r} : UNCHANGED <<pc[q], who[q], held[q]>>
        /\ UNCHANGED <<role, cache, changes>> /\ who'[r] = who[r]
    BY <1>4 DEF Lookup, Find, TypeOK
  <2>2. CASE pc'[r] \in {"count", "promote"}
    BY <2>1, <2>2, QuietStep
  <2>3. CASE pc'[r] \notin {"count", "promote"}
    <3>1. pc'[r] = "cache" /\ held'[r] = role[who[r]]
      BY <1>4, <2>3 DEF Lookup, Find, TypeOK
    <3>2. NoUsers' = NoUsers /\ HasAdmin' = HasAdmin
      BY <2>1 DEF NoUsers, HasAdmin
    <3>3. CASE changes = 0
      BY <2>1, <3>1, <3>2, <3>3, FoundStep DEF AdminInv
    <3>4. CASE changes # 0
      BY <2>1, <3>4 DEF AdminInv, ActInv, AdminsAreAdmins
    <3> QED BY <3>3, <3>4
  <2> QED BY <2>2, <2>3
<1>5. ASSUME NEW r \in Request, Promote(r)
      PROVE  AdminInv' /\ ActInv'
  <2>1. /\ \A q \in Request \ {r} : UNCHANGED <<pc[q], who[q], held[q]>>
        /\ UNCHANGED <<cache, changes>> /\ who'[r] = who[r] /\ who[r] \in User
        /\ pc'[r] = "cache"
    BY <1>5 DEF Promote, Find, TypeOK
  <2>2. role'[who[r]] = "admin" /\ \A u \in User \ {who[r]} : role'[u] = role[u]
    BY <1>5 DEF Promote, TypeOK
  <2>3. HasAdmin' /\ ~NoUsers'
    BY <2>1, <2>2 DEF HasAdmin, NoUsers
  <2> QED BY <2>1, <2>2, <2>3, FoundStep
<1>6. ASSUME NEW r \in Request, Count(r)
      PROVE  AdminInv' /\ ActInv'
  <2>1. /\ \A q \in Request \ {r} : UNCHANGED <<pc[q], who[q], held[q]>>
        /\ UNCHANGED <<role, cache, changes, who>> /\ pc'[r] = "insert"
    BY <1>6 DEF Count, TypeOK
  <2>2. held'[r] # "none" /\ (held'[r] = "user" => ~NoUsers)
    BY <1>6 DEF Count, TypeOK
  <2>3. NoUsers' = NoUsers /\ HasAdmin' = HasAdmin
    BY <2>1 DEF NoUsers, HasAdmin
  <2>4. AdminInv'
    BY <2>1, <2>2, <2>3 DEF AdminInv
  <2>5. \A u \in User : ActsAdmin(u)' => ActsAdmin(u)
    BY <2>1 DEF ActsAdmin
  <2> QED BY <2>1, <2>4, <2>5 DEF ActInv, AdminsAreAdmins
<1>7. ASSUME NEW r \in Request, Insert(r)
      PROVE  AdminInv' /\ ActInv'
  <2>1. /\ \A q \in Request \ {r} : UNCHANGED <<pc[q], who[q], held[q]>>
        /\ UNCHANGED <<cache, changes>> /\ who'[r] = who[r] /\ who[r] \in User
        /\ pc[r] = "insert" /\ pc'[r] = "cache" /\ held'[r] = role'[who[r]]
    BY <1>7 DEF Insert, Find, TypeOK
  <2>2. /\ role'[who[r]] = IF role[who[r]] = "none" THEN held[r] ELSE role[who[r]]
        /\ \A u \in User \ {who[r]} : role'[u] = role[u]
    BY <1>7 DEF Insert, TypeOK
  <2>3. CASE changes = 0
    <3>1. held[r] # "none" /\ (held[r] = "user" => ~NoUsers)
      BY <2>1, <2>3 DEF AdminInv
    <3>2. ~NoUsers'
      BY <2>1, <2>2, <3>1 DEF NoUsers
    <3>3. HasAdmin'
      <4>1. CASE NoUsers
        <5>1. role[who[r]] = "none" /\ held[r] = "admin"
          BY <2>1, <3>1, <4>1 DEF NoUsers, TypeOK
        <5> QED BY <2>1, <2>2, <5>1 DEF HasAdmin
      <4>2. CASE ~NoUsers
        <5>1. PICK u \in User : role[u] = "admin"
          BY <2>3, <4>2 DEF AdminInv, HasAdmin
        <5>2. role'[u] = "admin"
          BY <2>2, <5>1
        <5> QED BY <5>2 DEF HasAdmin
      <4> QED BY <4>1, <4>2
    <3>4. \A u \in User : role[u] = "admin" => role'[u] = "admin"
      BY <2>2
    <3> QED BY <2>1, <3>2, <3>3, <3>4, FoundStep
  <2>4. CASE changes # 0
    BY <2>1, <2>4 DEF AdminInv, ActInv, AdminsAreAdmins
  <2> QED BY <2>3, <2>4
<1>8. ASSUME NEW r \in Request, StoreToken(r)
      PROVE  AdminInv' /\ ActInv'
  <2>1. /\ \A q \in Request : UNCHANGED <<who[q], held[q]>>
        /\ \A q \in Request \ {r} : UNCHANGED pc[q]
        /\ UNCHANGED <<role, changes>>
        /\ pc[r] = "cache" /\ pc'[r] = "act"
    BY <1>8 DEF StoreToken, TypeOK
  <2>2. \A p \in Process, u \in User :
          cache'[p][u] = "admin" =>
            cache[p][u] = "admin" \/ (u = who[r] /\ held[r] = "admin")
    BY <1>8 DEF StoreToken, TypeOK
  <2>3. NoUsers' = NoUsers /\ HasAdmin' = HasAdmin
    BY <2>1 DEF NoUsers, HasAdmin
  <2>4. CASE changes = 0
    <3>1. held[r] = "admin" => role[who[r]] = "admin"
      BY <2>1, <2>4 DEF ActInv, AdminsAreAdmins, ActsAdmin, TypeOK
    <3>2. ~NoUsers' => HasAdmin'
      BY <2>3, <2>4 DEF AdminInv
    <3>3. \A p \in Process, u \in User :
            cache'[p][u] = "admin" => cache[p][u] = "admin" \/ role'[u] = "admin"
      BY <2>1, <2>2, <3>1
    <3> QED BY <2>1, <2>3, <3>1, <3>2, <3>3, FoundStep
  <2>5. CASE changes # 0
    BY <2>1, <2>5 DEF AdminInv, ActInv, AdminsAreAdmins
  <2> QED BY <2>4, <2>5
<1>9. ASSUME NEW r \in Request, \E u \in User, v \in Role : UpdateRole(r, u, v)
      PROVE  AdminInv' /\ ActInv'
  <2>1. changes' # 0
    BY <1>9 DEF UpdateRole, TypeOK
  <2> QED BY <2>1 DEF AdminInv, ActInv, AdminsAreAdmins
<1>10. ASSUME NEW p \in Process,
              (\E u \in User : Age(p, u) \/ Drop(p, u)) \/ Rest(p)
       PROVE  AdminInv' /\ ActInv'
  <2>1. /\ UNCHANGED <<role, changes, pc, who, held>>
        /\ \A q \in Process, u \in User : cache'[q][u] = "admin" => cache[q][u] = "admin"
    <3>1. CASE \E u \in User : Age(p, u)
      BY <3>1 DEF Age
    <3>2. CASE \E u \in User : Drop(p, u)
      BY <3>2 DEF Drop, TypeOK
    <3>3. CASE Rest(p)
      BY <3>3 DEF Rest
    <3> QED BY <1>10, <3>1, <3>2, <3>3
  <2> QED BY <2>1, QuietStep
<1>11. ASSUME NEW p \in Process, Restart(p)
       PROVE  AdminInv' /\ ActInv'
  <2>1. /\ UNCHANGED <<role, changes, who>>
        /\ \A q \in Process, u \in User : cache'[q][u] = "admin" => cache[q][u] = "admin"
    BY <1>11 DEF Restart, TypeOK
  <2>2. \A r \in Request :
          pc'[r] = "idle" \/ (pc'[r] = pc[r] /\ held'[r] = held[r])
    BY <1>11 DEF Restart, TypeOK
  <2> QED BY <2>1, <2>2, QuietStep
<1>12. CASE UNCHANGED vars
  BY <1>12, QuietStep DEF vars
<1> QED
  BY <1>1, <1>2, <1>3, <1>4, <1>5, <1>6, <1>7, <1>8, <1>9, <1>10, <1>11, <1>12
  DEF Next, Handle

LEMMA AdminHolds == Spec => [](AdminInv /\ ActInv)
<1>1. Init => TypeOK /\ AdminInv /\ ActInv
  BY InitType, InitAdmin
<1>2. TypeOK /\ AdminInv /\ ActInv /\ [Next]_vars => (TypeOK /\ AdminInv /\ ActInv)'
  BY TypeStep, AdminStep
<1> QED BY <1>1, <1>2, PTL DEF Spec

\* Until somebody changes a role, a platform with users has an administrator,
\* however many first users arrive at once.
THEOREM SomebodyIsAdminHolds == Spec => []SomebodyIsAdmin
<1>1. AdminInv => SomebodyIsAdmin
  BY DEF AdminInv, SomebodyIsAdmin, HasAdmin
<1> QED BY <1>1, AdminHolds, PTL

\* Until somebody changes a role, whoever acts as an administrator, from a
\* cache or from a row just read or written, is one in the table of users.
THEOREM AdminsAreAdminsHolds == Spec => []AdminsAreAdmins
<1>1. ActInv => AdminsAreAdmins
  BY DEF ActInv
<1> QED BY <1>1, AdminHolds, PTL
=============================================================================
