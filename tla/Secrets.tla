-------------------------------- MODULE Secrets --------------------------------
(***************************************************************************)
(* The secret of a project in AWS Secrets Manager: a dictionary that four  *)
(* handlers of src/api/main.py read, change in one key and write back      *)
(* (put_env_var, delete_env_var, put_secret, delete_secret).  Every        *)
(* handler runs in a thread of its own in one of several processes, and    *)
(* every call to AWS is a step.                                            *)
(***************************************************************************)

CONSTANTS
  Request,    \* handlers that may run at a time
  Key, Value  \* names and values of variables

VARIABLES
  exists, secret,   \* AWS: whether the secret exists, and its dictionary
  pc, op, key,      \* what each request does, and to which key
  known, copy,      \* whether its read found the secret; what it will write
  stale             \* whether the secret was written since its read

awsVars == <<exists, secret>>
argVars == <<op, key, known, copy>>
vars == <<awsVars, pc, argVars, stale>>

Op == {"putEnv", "deleteEnv", "putSecret", "deleteSecret"}
Puts == {"putEnv", "putSecret"}
Dictionary == UNION {[S -> Value] : S \in SUBSET Key}
Empty == [k \in {} |-> k]

With(d, k, v) == [x \in DOMAIN d \cup {k} |-> IF x = k THEN v ELSE d[x]]
Without(d, k) == [x \in DOMAIN d \ {k} |-> d[x]]

Init ==
  /\ exists = FALSE /\ secret = Empty
  /\ pc = [r \in Request |-> "idle"]
  /\ op = [r \in Request |-> "putEnv"]
  /\ key \in [Request -> Key]
  /\ known = [r \in Request |-> FALSE]
  /\ copy = [r \in Request |-> Empty]
  /\ stale = [r \in Request |-> FALSE]

Goto(r, l) == pc' = [pc EXCEPT ![r] = l]

-----------------------------------------------------------------------------
(* get_secret_value, and the change of one key in the dictionary that was  *)
(* read; a secret that does not exist is read as an empty one.             *)

Read(r, o, k, d) ==
  /\ pc[r] = "idle"
  /\ Goto(r, "write")
  /\ op' = [op EXCEPT ![r] = o] /\ key' = [key EXCEPT ![r] = k]
  /\ known' = [known EXCEPT ![r] = exists] /\ copy' = [copy EXCEPT ![r] = d]
  /\ stale' = [stale EXCEPT ![r] = FALSE]
  /\ UNCHANGED awsVars

ReadToPut(r, o, k, v) == o \in Puts /\ Read(r, o, k, With(secret, k, v))

\* A key that is not there is not deleted, and nothing is written then.
ReadToDelete(r, o, k) ==
  /\ o \in Op \ Puts /\ k \in DOMAIN secret
  /\ Read(r, o, k, Without(secret, k))

-----------------------------------------------------------------------------
(* The write.  AWS overwrites the whole dictionary; no handler passes the  *)
(* version that it has read.                                               *)

Store(r) == /\ exists' = TRUE /\ secret' = copy[r]
            /\ stale' = [q \in Request |-> q # r]
            /\ Goto(r, "idle")
            /\ UNCHANGED argVars

\* put_env_var creates a secret that it did not find; the others, and it
\* too when it did, put or update.
CreatesFirst(r) == op[r] = "putEnv" /\ ~known[r]

Write(r) == pc[r] = "write" /\ exists /\ ~CreatesFirst(r) /\ Store(r)

\* ResourceNotFoundException: a put goes on to create the secret.
WriteNotFound(r) ==
  /\ pc[r] = "write" /\ ~exists /\ ~CreatesFirst(r)
  /\ Goto(r, IF op[r] \in Puts THEN "create" ELSE "idle")
  /\ UNCHANGED <<awsVars, argVars, stale>>

Creating(r) == pc[r] = "create" \/ (pc[r] = "write" /\ CreatesFirst(r))

Create(r) == Creating(r) /\ ~exists /\ Store(r)

\* ResourceExistsException: the request fails and its change is not made.
CreateExists(r) ==
  /\ Creating(r) /\ exists /\ Goto(r, "idle")
  /\ UNCHANGED <<awsVars, argVars, stale>>

\* A call fails, or the process dies; a write that was applied and then
\* answered by an error is Write.
Fail(r) == /\ pc[r] # "idle" /\ Goto(r, "idle")
           /\ UNCHANGED <<awsVars, argVars, stale>>

\* The secret is deleted in AWS; no code of the repository does that.
DeleteByHand ==
  /\ exists /\ exists' = FALSE /\ secret' = Empty
  /\ stale' = [r \in Request |-> TRUE]
  /\ UNCHANGED <<pc, argVars>>

Step(r) == \/ \E o \in Op, k \in Key : ReadToDelete(r, o, k)
           \/ \E o \in Op, k \in Key, v \in Value : ReadToPut(r, o, k, v)
           \/ Write(r) \/ WriteNotFound(r) \/ Create(r) \/ CreateExists(r)
           \/ Fail(r)

Next == DeleteByHand \/ \E r \in Request : Step(r)

Spec == Init /\ [][Next]_vars

-----------------------------------------------------------------------------
(* Properties.                                                             *)

TypeOK ==
  /\ exists \in BOOLEAN /\ secret \in Dictionary
  /\ pc \in [Request -> {"idle", "write", "create"}]
  /\ op \in [Request -> Op] /\ key \in [Request -> Key]
  /\ known \in [Request -> BOOLEAN] /\ copy \in [Request -> Dictionary]
  /\ stale \in [Request -> BOOLEAN]

\* The dictionaries d and e agree on key k.
Same(d, e, k) == (k \in DOMAIN d <=> k \in DOMAIN e) /\ (k \in DOMAIN d => d[k] = e[k])

Stores(r) == Write(r) \/ Create(r)

\* A request that no other write came between changes the key it names and
\* leaves all other variables as they are.
SerialRequestsKeepOthers ==
  [][\A r \in Request :
       Stores(r) /\ ~stale[r] => \A k \in Key \ {key[r]} : Same(secret', secret, k)]_vars

-----------------------------------------------------------------------------
(* What the documentation says and the code does not keep.                 *)

\* "CRIT-02 Fix: Use VersionId-based optimistic locking to prevent
\* read-modify-write races" (put_env_var, api/main.py:1141): setting a variable
\* does not undo the change another request made to a different one.
NoUpdateIsLost ==
  [][\A r \in Request :
       Write(r) /\ op[r] = "putEnv" => \A k \in Key \ {key[r]} : Same(secret', secret, k)]_vars
=============================================================================
