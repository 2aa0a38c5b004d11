----------------------------- MODULE SecretsProofs -----------------------------
(* Proofs about Secrets, for any number of requests, keys and values.        *)
EXTENDS Secrets, TLAPS

LEMMA WithKeeps ==
  ASSUME NEW d \in Dictionary, NEW k \in Key, NEW v \in Value
  PROVE  /\ With(d, k, v) \in Dictionary
         /\ \A x \in Key \ {k} : Same(With(d, k, v), d, x)
<1> PICK S \in SUBSET Key : d \in [S -> Value] BY DEF Dictionary
<1>1. S \cup {k} \in SUBSET Key OBVIOUS
<1>2. With(d, k, v) \in [S \cup {k} -> Value] BY DEF With
<1>3. With(d, k, v) \in Dictionary BY <1>1, <1>2 DEF Dictionary
<1>4. \A x \in Key \ {k} : Same(With(d, k, v), d, x) BY DEF With, Same
<1> QED BY <1>3, <1>4

LEMMA WithoutKeeps ==
  ASSUME NEW d \in Dictionary, NEW k \in Key
  PROVE  /\ Without(d, k) \in Dictionary
         /\ \A x \in Key \ {k} : Same(Without(d, k), d, x)
<1> PICK S \in SUBSET Key : d \in [S -> Value] BY DEF Dictionary
<1>1. S \ {k} \in SUBSET Key OBVIOUS
<1>2. Without(d, k) \in [S \ {k} -> Value] BY DEF Without
<1>3. Without(d, k) \in Dictionary BY <1>1, <1>2 DEF Dictionary
<1>4. \A x \in Key \ {k} : Same(Without(d, k), d, x) BY DEF Without, Same
<1> QED BY <1>3, <1>4

LEMMA EmptyDictionary == Empty \in Dictionary
<1>1. Empty \in [{} -> Value] BY DEF Empty
<1>2. {} \in SUBSET Key OBVIOUS
<1> QED BY <1>1, <1>2 DEF Dictionary

\* While nobody else has written, what a request will write differs from the
\* secret in the key of the request alone.
FreshInv ==
  \A r \in Request :
     pc[r] # "idle" /\ ~stale[r] => \A k \in Key \ {key[r]} : Same(copy[r], secret, k)

-----------------------------------------------------------------------------
LEMMA ReadStep ==
  ASSUME TypeOK, FreshInv, NEW r \in Request, NEW o \in Op, NEW k \in Key,
         NEW d \in Dictionary, \A x \in Key \ {k} : Same(d, secret, x),
         Read(r, o, k, d)
  PROVE  TypeOK' /\ FreshInv'
<1> USE DEF Read, Goto, awsVars
<1>1. TypeOK' BY DEF TypeOK
<1>2. ASSUME NEW q \in Request, pc'[q] # "idle", ~stale'[q]
      PROVE  \A x \in Key \ {key'[q]} : Same(copy'[q], secret', x)
  <2>1. CASE q = r BY <2>1 DEF TypeOK
  <2>2. CASE q # r BY <1>2, <2>2 DEF TypeOK, FreshInv
  <2> QED BY <2>1, <2>2
<1> QED BY <1>1, <1>2 DEF FreshInv

LEMMA StepKeeps ==
  ASSUME TypeOK, FreshInv, NEW r \in Request, Step(r)
  PROVE  TypeOK' /\ FreshInv'
<1> USE DEF TypeOK, Goto, awsVars, argVars
<1>1. ASSUME NEW o \in Op, NEW k \in Key, NEW v \in Value, ReadToPut(r, o, k, v)
      PROVE  TypeOK' /\ FreshInv'
  BY <1>1, WithKeeps, ReadStep DEF ReadToPut
<1>2. ASSUME NEW o \in Op, NEW k \in Key, ReadToDelete(r, o, k)
      PROVE  TypeOK' /\ FreshInv'
  BY <1>2, WithoutKeeps, ReadStep DEF ReadToDelete
<1>3. ASSUME Store(r) PROVE TypeOK' /\ FreshInv'
  BY <1>3 DEF Store, FreshInv
<1>4. CASE WriteNotFound(r) BY <1>4 DEF WriteNotFound, FreshInv
<1>5. CASE CreateExists(r) BY <1>5 DEF CreateExists, FreshInv
<1>6. CASE Fail(r) BY <1>6 DEF Fail, FreshInv
<1> QED BY <1>1, <1>2, <1>3, <1>4, <1>5, <1>6 DEF Step, Write, Create

LEMMA FreshHolds == Spec => [](TypeOK /\ FreshInv)
<1>1. Init => TypeOK /\ FreshInv BY EmptyDictionary DEF Init, TypeOK, FreshInv, Op
<1>2. TypeOK /\ FreshInv /\ [Next]_vars => (TypeOK /\ FreshInv)'
  <2>1. TypeOK /\ FreshInv /\ UNCHANGED vars => (TypeOK /\ FreshInv)'
    BY DEF TypeOK, FreshInv, vars, awsVars, argVars
  <2>2. TypeOK /\ FreshInv /\ DeleteByHand => (TypeOK /\ FreshInv)'
    BY EmptyDictionary DEF TypeOK, FreshInv, DeleteByHand, argVars
  <2> QED BY <2>1, <2>2, StepKeeps DEF Next
<1> QED BY <1>1, <1>2, PTL DEF Spec

\* Every dictionary that is stored or about to be stored is one of the keys
\* and values that were given.
THEOREM TypeCorrect == Spec => []TypeOK
  BY FreshHolds, PTL

\* put_env_var, delete_env_var, put_secret and delete_secret: a request that
\* runs without another write between its read and its own changes one key
\* and keeps all others, whatever calls fail and whichever call stores it.
THEOREM SerialRequestsKeepOthersHolds == Spec => SerialRequestsKeepOthers
<1> DEFINE Kept == \A r \in Request :
                     Stores(r) /\ ~stale[r] =>
                       \A k \in Key \ {key[r]} : Same(secret', secret, k)
<1>1. TypeOK /\ FreshInv => Kept
  BY DEF FreshInv, Stores, Write, Create, Creating, Store
<1>2. TypeOK /\ FreshInv /\ [Next]_vars => [Kept]_vars
  BY <1>1
<1> QED BY <1>2, FreshHolds, PTL DEF Spec, SerialRequestsKeepOthers
=============================================================================
