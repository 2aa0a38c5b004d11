--------------------------------- MODULE Access ---------------------------------
(***************************************************************************)
(* Who a request acts for: get_current_user in src/api/auth.py, with the   *)
(* token cache and the circuit breaker that each process of the API keeps, *)
(* get_or_create_user in src/api/database.py, and update_user_role in      *)
(* src/api/main.py.                                                        *)
(*                                                                         *)
(* A user has one token.  Requests of a process share its event loop and   *)
(* give way to each other while they wait for GitHub or the database.      *)
(***************************************************************************)
EXTENDS Naturals

CONSTANTS
  Process,      \* processes of the API, on all its replicas
  Request,      \* requests that may be under way at a time
  User,         \* users, known by their token
  AdminEmail,   \* users whose e-mail address is in ADMIN_EMAILS
  Threshold,    \* failures that open the breaker: 5
  MaxChanges,   \* bound: changes of a role by an administrator
  MaxFaults     \* bound: calls that fail, and restarts of a process

ASSUME AdminEmailAssumption == AdminEmail \subseteq User
ASSUME ThresholdAssumption == Threshold \in Nat \ {0}
ASSUME BoundsAssumption == MaxChanges \in Nat /\ MaxFaults \in Nat

VARIABLES
  role,                   \* PostgreSQL: users.role, "none" without a row
  cache, aged,            \* _token_cache: roles; entries older than 60 seconds
  failures, open, rested, \* the breaker; 30 seconds have passed since a failure
  pc, who, home, held,    \* requests: step, user, process, role it will act with
  changes, faults         \* how much of the bounds is used

cacheVars   == <<cache, aged>>
breakerVars == <<failures, open, rested>>
requestVars == <<pc, who, home, held>>
budgetVars  == <<changes, faults>>
vars == <<role, cacheVars, breakerVars, requestVars, budgetVars>>

Role == {"none", "user", "admin"}
Querying == {"lookup", "promote", "count", "insert"}
Pc == {"idle", "github", "cache", "act"} \cup Querying

Init ==
  /\ role = [u \in User |-> "none"]
  /\ cache = [p \in Process |-> [u \in User |-> "none"]]
  /\ aged = [p \in Process |-> {}]
  /\ failures = [p \in Process |-> 0] /\ open = [p \in Process |-> FALSE]
  /\ rested = [p \in Process |-> TRUE]
  /\ pc = [r \in Request |-> "idle"]
  /\ who \in [Request -> User] /\ home \in [Request -> Process]
  /\ held = [r \in Request |-> "none"]
  /\ changes = 0 /\ faults = 0

Fault == faults < MaxFaults /\ faults' = faults + 1 /\ UNCHANGED changes

Goto(r, l) == pc' = [pc EXCEPT ![r] = l] /\ UNCHANGED <<who, home>>
Hold(r, v) == held' = [held EXCEPT ![r] = v]
Leave(r) == Goto(r, "idle") /\ Hold(r, "none")

-----------------------------------------------------------------------------
(* get_current_user, up to the call to GitHub.                             *)

Arrive(r, u, p, l, v) ==
  /\ pc[r] = "idle"
  /\ pc' = [pc EXCEPT ![r] = l]
  /\ who' = [who EXCEPT ![r] = u] /\ home' = [home EXCEPT ![r] = p]
  /\ Hold(r, v)

\* Wrong variant: a hit makes the entry young again.
HitRenews(r, u, p) ==
  /\ cache[p][u] # "none" /\ Arrive(r, u, p, "act", cache[p][u])
  /\ aged' = [aged EXCEPT ![p] = @ \ {u}]
  /\ UNCHANGED <<role, cache, breakerVars, budgetVars>>

Hit(r, u, p) ==
  /\ cache[p][u] # "none" /\ Arrive(r, u, p, "act", cache[p][u])
  /\ UNCHANGED <<role, cacheVars, breakerVars, budgetVars>>

\* An open breaker answers 503 for 30 seconds after the last failure; then
\* the next request closes it and goes through, with all that follow.
Miss(r, u, p) ==
  /\ cache[p][u] = "none" /\ (open[p] => rested[p])
  /\ Arrive(r, u, p, "github", "none")
  /\ open' = [open EXCEPT ![p] = FALSE]
  /\ UNCHANGED <<role, cacheVars, failures, rested, budgetVars>>

-----------------------------------------------------------------------------
(* The answer of GitHub.                                                   *)

\* 200: the breaker forgets its failures.  GitHub names the user's address or
\* keeps it private; until get_or_create_user decides on a role, held says
\* whether an address in ADMIN_EMAILS was named.
Accepted(r) ==
  /\ pc[r] = "github" /\ Goto(r, "lookup")
  /\ held' \in {held, [held EXCEPT ![r] = IF who[r] \in AdminEmail THEN "admin" ELSE @]}
  /\ failures' = [failures EXCEPT ![home[r]] = 0]
  /\ open' = [open EXCEPT ![home[r]] = FALSE]
  /\ UNCHANGED <<role, cacheVars, rested, budgetVars>>

\* Wrong variant: the breaker counts a token that GitHub refuses.
RefusedCounts(r) ==
  /\ pc[r] = "github" /\ Leave(r)
  /\ failures' = [failures EXCEPT ![home[r]] = @ + 1]
  /\ rested' = [rested EXCEPT ![home[r]] = FALSE]
  /\ open' = [open EXCEPT ![home[r]] = @ \/ failures[home[r]] + 1 >= Threshold]
  /\ UNCHANGED <<role, cacheVars, budgetVars>>

\* Any other status, or an answer that cannot be read: 401 or 500, and nothing
\* for the breaker to count.
Refused(r) ==
  /\ pc[r] = "github" /\ Leave(r)
  /\ UNCHANGED <<role, cacheVars, breakerVars, budgetVars>>

\* Wrong variant: the breaker opens at the threshold only, not beyond it.
OpensOnce(r) ==
  /\ pc[r] = "github" /\ Leave(r) /\ Fault
  /\ failures' = [failures EXCEPT ![home[r]] = @ + 1]
  /\ rested' = [rested EXCEPT ![home[r]] = FALSE]
  /\ open' = [open EXCEPT ![home[r]] = @ \/ failures[home[r]] + 1 = Threshold]
  /\ UNCHANGED <<role, cacheVars>>

\* httpx.RequestError
Unreachable(r) ==
  /\ pc[r] = "github" /\ Leave(r) /\ Fault
  /\ failures' = [failures EXCEPT ![home[r]] = @ + 1]
  /\ rested' = [rested EXCEPT ![home[r]] = FALSE]
  /\ open' = [open EXCEPT ![home[r]] = @ \/ failures[home[r]] + 1 >= Threshold]
  /\ UNCHANGED <<role, cacheVars>>

-----------------------------------------------------------------------------
(* get_or_create_user, in a thread.                                        *)

Find(r, v) == Hold(r, v) /\ Goto(r, "cache")

Named(r) == held[r] = "admin"

\* The row is there: a user in ADMIN_EMAILS becomes an administrator, if
\* GitHub named the address or the row has it.
Lookup(r) ==
  /\ pc[r] = "lookup"
  /\ LET known == role[who[r]]
     IN  \/ known = "none" /\ Goto(r, "count") /\ UNCHANGED held
         \/ known = "user" /\ who[r] \in AdminEmail /\ Goto(r, "promote") /\ UNCHANGED held
         \/ /\ known = "admin" \/ (known = "user" /\ ~Named(r))
            /\ Find(r, known)
  /\ UNCHANGED <<role, cacheVars, breakerVars, budgetVars>>

Promote(r) ==
  /\ pc[r] = "promote"
  /\ role' = [role EXCEPT ![who[r]] = "admin"]
  /\ Find(r, "admin")
  /\ UNCHANGED <<cacheVars, breakerVars, budgetVars>>

NoUsers == \A u \in User : role[u] = "none"

\* Wrong variant: a request that finds the table empty is not believed, so
\* that two first users cannot both become administrators.
CountTwice(r) ==
  /\ pc[r] = "count"
  /\ Hold(r, IF Named(r) \/ (NoUsers /\ \A q \in Request \ {r} : pc[q] # "insert")
             THEN "admin" ELSE "user")
  /\ Goto(r, "insert")
  /\ UNCHANGED <<role, cacheVars, breakerVars, budgetVars>>

\* SELECT COUNT(*): the first user is to be an administrator.
Count(r) ==
  /\ pc[r] = "count"
  /\ Hold(r, IF NoUsers \/ Named(r) THEN "admin" ELSE "user")
  /\ Goto(r, "insert")
  /\ UNCHANGED <<role, cacheVars, breakerVars, budgetVars>>

\* Wrong variant: after a UniqueViolation the role is not read again.
InsertKeepsRole(r) ==
  /\ pc[r] = "insert"
  /\ role' = [role EXCEPT ![who[r]] = IF @ = "none" THEN held[r] ELSE @]
  /\ Find(r, held[r])
  /\ UNCHANGED <<cacheVars, breakerVars, budgetVars>>

\* INSERT and COMMIT; after a UniqueViolation the row of the other request
\* is read.
Insert(r) ==
  /\ pc[r] = "insert"
  /\ role' = [role EXCEPT ![who[r]] = IF @ = "none" THEN held[r] ELSE @]
  /\ Find(r, role'[who[r]])
  /\ UNCHANGED <<cacheVars, breakerVars, budgetVars>>

\* Back on the event loop.
StoreToken(r) ==
  /\ pc[r] = "cache" /\ Goto(r, "act")
  /\ cache' = [cache EXCEPT ![home[r]][who[r]] = held[r]]
  /\ aged' = [aged EXCEPT ![home[r]] = @ \ {who[r]}]
  /\ UNCHANGED <<role, breakerVars, held, budgetVars>>

\* A statement or a COMMIT fails, the latter perhaps after its effect.
QueryFails(r) ==
  /\ pc[r] \in Querying \cup {"cache"} /\ Leave(r) /\ Fault
  /\ UNCHANGED <<role, cacheVars, breakerVars>>

-----------------------------------------------------------------------------
(* Handlers: update_user_role, and all others, which change no role.       *)

UpdateRole(r, u, v) ==
  /\ pc[r] = "act" /\ held[r] = "admin"
  /\ role[u] # "none" /\ v # "none" /\ changes < MaxChanges
  /\ role' = [role EXCEPT ![u] = v]
  /\ Leave(r) /\ changes' = changes + 1
  /\ UNCHANGED <<cacheVars, breakerVars, faults>>

Finish(r) ==
  /\ pc[r] = "act" /\ Leave(r)
  /\ UNCHANGED <<role, cacheVars, breakerVars, budgetVars>>

-----------------------------------------------------------------------------
(* Time, and restarts.                                                     *)

Age(p, u) ==
  /\ cache[p][u] # "none" /\ u \notin aged[p]
  /\ aged' = [aged EXCEPT ![p] = @ \cup {u}]
  /\ UNCHANGED <<role, cache, breakerVars, requestVars, budgetVars>>

\* The entry is 60 seconds old, or it gives way in a full cache.
Drop(p, u) ==
  /\ cache[p][u] # "none"
  /\ cache' = [cache EXCEPT ![p][u] = "none"]
  /\ aged' = [aged EXCEPT ![p] = @ \ {u}]
  /\ UNCHANGED <<role, breakerVars, requestVars, budgetVars>>

Expire(p, u) == u \in aged[p] /\ Drop(p, u)

Rest(p) ==
  /\ ~rested[p] /\ rested' = [rested EXCEPT ![p] = TRUE]
  /\ UNCHANGED <<role, cacheVars, failures, open, requestVars, budgetVars>>

\* A process dies with its requests and starts again.
Restart(p) ==
  /\ Fault
  /\ cache' = [cache EXCEPT ![p] = [u \in User |-> "none"]]
  /\ aged' = [aged EXCEPT ![p] = {}]
  /\ failures' = [failures EXCEPT ![p] = 0]
  /\ open' = [open EXCEPT ![p] = FALSE] /\ rested' = [rested EXCEPT ![p] = TRUE]
  /\ pc' = [r \in Request |-> IF home[r] = p THEN "idle" ELSE pc[r]]
  /\ held' = [r \in Request |-> IF home[r] = p THEN "none" ELSE held[r]]
  /\ UNCHANGED <<role, who, home>>

-----------------------------------------------------------------------------
Handle(r) ==
  \/ Accepted(r) \/ Refused(r) \/ Lookup(r) \/ Promote(r) \/ Count(r)
  \/ Insert(r) \/ StoreToken(r) \/ Finish(r)

Next ==
  \/ \E r \in Request, u \in User, p \in Process : Hit(r, u, p) \/ Miss(r, u, p)
  \/ \E r \in Request : Handle(r) \/ Unreachable(r) \/ QueryFails(r)
  \/ \E r \in Request, u \in User, v \in Role : UpdateRole(r, u, v)
  \/ \E p \in Process, u \in User : Age(p, u) \/ Drop(p, u)
  \/ \E p \in Process : Rest(p) \/ Restart(p)

Spec == Init /\ [][Next]_vars

\* Calls return: httpx has a timeout, PostgreSQL answers.  Time passes.
Fairness ==
  /\ \A r \in Request : WF_vars(Handle(r))
  /\ \A p \in Process, u \in User : WF_vars(Age(p, u)) /\ WF_vars(Expire(p, u))

FairSpec == Spec /\ Fairness

-----------------------------------------------------------------------------
(* Properties.                                                             *)

\* The variables have their types, and the breaker counts nothing but calls
\* that failed.
TypeOK ==
  /\ role \in [User -> Role]
  /\ cache \in [Process -> [User -> Role]] /\ aged \in [Process -> SUBSET User]
  /\ failures \in [Process -> 0 .. faults]
  /\ open \in [Process -> BOOLEAN] /\ rested \in [Process -> BOOLEAN]
  /\ pc \in [Request -> Pc] /\ held \in [Request -> Role]
  /\ who \in [Request -> User] /\ home \in [Request -> Process]
  /\ changes \in 0 .. MaxChanges /\ faults \in 0 .. MaxFaults

\* However many first users arrive at once, and whichever of their INSERTs
\* fail: until somebody changes a role, a platform with users has an
\* administrator.
SomebodyIsAdmin ==
  changes = 0 /\ ~NoUsers => \E u \in User : role[u] = "admin"

\* Until somebody changes a role, nobody acts as an administrator whose row
\* does not say so, though rows are inserted by several requests at once.
ActsAdmin(u) ==
  \/ \E p \in Process : cache[p][u] = "admin"
  \/ \E r \in Request : who[r] = u /\ held[r] = "admin" /\ pc[r] \in {"cache", "act"}
AdminsAreAdmins ==
  changes = 0 => \A u \in User : ActsAdmin(u) => role[u] = "admin"

\* GitHub is left alone: no request calls it from a process whose calls have
\* failed Threshold times, until 30 seconds after the last of them.
BreakerSpares ==
  [][\A r \in Request :
       pc[r] = "idle" /\ pc'[r] = "github" =>
         failures[home'[r]] < Threshold \/ rested[home'[r]]]_vars

\* A role that was taken away is forgotten: in the end no process and no
\* request acts on it, unless it is given back, as it is to users in
\* ADMIN_EMAILS at their next request that no cache answers.
RevokedRoleExpires ==
  \A u \in User : role[u] = "user" ~> role[u] = "admin" \/ ~ActsAdmin(u)
=============================================================================
