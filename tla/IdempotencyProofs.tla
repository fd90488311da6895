-------------------------- MODULE IdempotencyProofs --------------------------
(***************************************************************************)
(* Proofs about Idempotency, for any number of requests, processes, keys   *)
(* and bodies, and any set of faults.                                      *)
(***************************************************************************)
EXTENDS Idempotency, TLAPS

\* Every reachable state is well typed.
THEOREM TypeCorrect == Spec => []TypeOK
<1> USE IdempotencyAssumption
<1>1. Init => TypeOK
  BY DEF Init, TypeOK, Phase
<1>2. TypeOK /\ [Next]_vars => TypeOK'
  <2> SUFFICES ASSUME TypeOK, [Next]_vars PROVE TypeOK'
    OBVIOUS
  <2> USE DEF TypeOK, Phase
  <2>1. ASSUME NEW q \in Requests, Get(q) \/ GetFails(q) PROVE TypeOK'
    BY <2>1 DEF Get, GetFails
  <2>2. ASSUME NEW q \in Requests, Conflict(q) \/ Replay(q) \/ Busy(q) PROVE TypeOK'
    BY <2>2 DEF Conflict, Replay, Busy, Hit
  <2>3. ASSUME NEW q \in Requests, Start(q) PROVE TypeOK'
    BY <2>3 DEF Start
  <2>4. ASSUME NEW q \in Requests, HandlerReturns(q) \/ HandlerThrows(q)
        PROVE TypeOK'
    BY <2>4 DEF HandlerReturns, HandlerThrows
  <2>5. ASSUME NEW q \in Requests, Put(q) \/ PutFails(q) PROVE TypeOK'
    BY <2>5 DEF Put, PutFails
  <2>6. ASSUME NEW q \in Requests, Release(q) PROVE TypeOK'
    BY <2>6 DEF Release
  <2>7. ASSUME NEW q \in Requests, Expire(q) PROVE TypeOK'
    BY <2>7 DEF Expire
  <2>8. CASE Cleanup
    BY <2>8 DEF Cleanup, DeleteOlderThan
  <2>9. ASSUME NEW p \in Processes, Crash(p) PROVE TypeOK'
    BY <2>9 DEF Crash
  <2>10. CASE UNCHANGED vars
    BY <2>10 DEF vars
  <2> QED
    BY <2>1, <2>2, <2>3, <2>4, <2>5, <2>6, <2>7, <2>8, <2>9, <2>10 DEF Next, Step
<1> QED
  BY <1>1, <1>2, PTL DEF Spec

-----------------------------------------------------------------------------
(* The inflight set.                                                       *)

\* InflightIsMutex without a set of keys: a key is locked in a process
\* exactly when some request of that process and key is in the try block.
MutexInv ==
  \A p \in Processes :
    /\ \A k \in Keys : k \in inflight[p] <=> \E q \in Running(p) : KeyOf[q] = k
    /\ \A q, w \in Running(p) : KeyOf[q] = KeyOf[w] => q = w

\* Locks and try blocks stay in step.
LEMMA MutexStep == TypeOK /\ MutexInv /\ [Next]_vars => MutexInv'
<1> SUFFICES ASSUME TypeOK, MutexInv, [Next]_vars PROVE MutexInv'
  OBVIOUS
<1> USE IdempotencyAssumption DEF TypeOK, MutexInv, Running
<1>1. ASSUME NEW q \in Requests,
             Get(q) \/ GetFails(q) \/ Conflict(q) \/ Replay(q) \/ Busy(q)
      PROVE MutexInv'
  <2>1. \A p \in Processes : Running(p)' = Running(p)
    BY <1>1 DEF Get, GetFails, Conflict, Replay, Busy
  <2>2. inflight' = inflight
    BY <1>1 DEF Get, GetFails, Conflict, Replay, Busy
  <2> HIDE DEF Running
  <2> QED
    BY <2>1, <2>2
<1>2. ASSUME NEW q \in Requests, Start(q) PROVE MutexInv'
  <2>1. Running(ProcOf[q])' = Running(ProcOf[q]) \cup {q}
    BY <1>2 DEF Start
  <2>2. \A p \in Processes : p # ProcOf[q] => Running(p)' = Running(p)
    BY <1>2 DEF Start
  <2>3. /\ inflight' = [inflight EXCEPT ![ProcOf[q]] = inflight[ProcOf[q]] \cup {KeyOf[q]}]
        /\ KeyOf[q] \notin inflight[ProcOf[q]]
    BY <1>2 DEF Start
  <2>4. \A p \in Processes : Running(p) \subseteq Requests
    OBVIOUS
  <2> HIDE DEF Running
  <2> QED
    BY <2>1, <2>2, <2>3, <2>4
<1>3. ASSUME NEW q \in Requests,
             HandlerReturns(q) \/ HandlerThrows(q) \/ Put(q) \/ PutFails(q)
      PROVE MutexInv'
  <2>1. \A p \in Processes : Running(p)' = Running(p)
    BY <1>3 DEF HandlerReturns, HandlerThrows, Put, PutFails
  <2>2. inflight' = inflight
    BY <1>3 DEF HandlerReturns, HandlerThrows, Put, PutFails
  <2> HIDE DEF Running
  <2> QED
    BY <2>1, <2>2
<1>4. ASSUME NEW q \in Requests, Release(q) PROVE MutexInv'
  <2>1. q \in Running(ProcOf[q])
    BY <1>4 DEF Release
  <2>2. Running(ProcOf[q])' = Running(ProcOf[q]) \ {q}
    BY <1>4 DEF Release
  <2>3. \A p \in Processes : p # ProcOf[q] => Running(p)' = Running(p)
    BY <1>4 DEF Release
  <2>4. inflight' = [inflight EXCEPT ![ProcOf[q]] = inflight[ProcOf[q]] \ {KeyOf[q]}]
    BY <1>4 DEF Release
  <2>5. \A p \in Processes : Running(p) \subseteq Requests
    OBVIOUS
  <2> HIDE DEF Running
  <2> QED
    BY <2>1, <2>2, <2>3, <2>4, <2>5
<1>5. CASE Cleanup \/ (\E q \in Requests : Expire(q)) \/ UNCHANGED vars
  BY <1>5 DEF Cleanup, DeleteOlderThan, Expire, vars
<1>6. ASSUME NEW p \in Processes, Crash(p) PROVE MutexInv'
  <2>1. Running(p)' = {}
    BY <1>6 DEF Crash
  <2>2. \A r \in Processes : r # p => Running(r)' = Running(r)
    BY <1>6 DEF Crash
  <2>3. inflight' = [inflight EXCEPT ![p] = {}]
    BY <1>6 DEF Crash
  <2> HIDE DEF Running
  <2> QED
    BY <2>1, <2>2, <2>3
<1> QED
  BY <1>1, <1>2, <1>3, <1>4, <1>5, <1>6 DEF Next, Step

\* Within a process the inflight set is a mutex per key that is never left
\* locked, for any number of concurrent requests.
THEOREM Mutex == Spec => []InflightIsMutex
<1>1. Init => MutexInv
  BY DEF Init, MutexInv, Running
<1>2. TypeOK /\ MutexInv => InflightIsMutex
  BY IdempotencyAssumption DEF TypeOK, MutexInv, InflightIsMutex, Running
<1> QED
  BY <1>1, <1>2, MutexStep, TypeCorrect, PTL DEF Spec

-----------------------------------------------------------------------------
(* Responses.                                                              *)

\* Records and snapshots belong to their key and to completed handlers.
RecordInv ==
  /\ \A k \in Keys : rec[k] # NoRequest => rec[k] \in ranOk /\ KeyOf[rec[k]] = k
  /\ \A q \in Requests :
       /\ snap[q] # NoRequest => snap[q] \in ranOk /\ KeyOf[snap[q]] = KeyOf[q]
       /\ pc[q] \in {"put", "release"} => q \in ranOk

\* Everything that is stored and read keeps its key.
LEMMA RecordStep == TypeOK /\ RecordInv /\ [Next]_vars => RecordInv'
<1> SUFFICES ASSUME TypeOK, RecordInv, [Next]_vars PROVE RecordInv'
  OBVIOUS
<1> USE IdempotencyAssumption DEF TypeOK, RecordInv
<1>1. ASSUME NEW q \in Requests, Get(q) \/ GetFails(q) PROVE RecordInv'
  BY <1>1 DEF Get, GetFails
<1>2. ASSUME NEW q \in Requests, Conflict(q) \/ Replay(q) \/ Busy(q) \/ Start(q)
      PROVE RecordInv'
  BY <1>2 DEF Conflict, Replay, Busy, Start
<1>3. ASSUME NEW q \in Requests, HandlerReturns(q) \/ HandlerThrows(q)
      PROVE RecordInv'
  BY <1>3 DEF HandlerReturns, HandlerThrows
<1>4. ASSUME NEW q \in Requests, Put(q) \/ PutFails(q) \/ Release(q)
      PROVE RecordInv'
  BY <1>4 DEF Put, PutFails, Release
<1>5. CASE Cleanup \/ (\E q \in Requests : Expire(q)) \/ UNCHANGED vars
  BY <1>5 DEF Cleanup, DeleteOlderThan, Expire, vars
<1>6. ASSUME NEW p \in Processes, Crash(p) PROVE RecordInv'
  BY <1>6 DEF Crash
<1> QED
  BY <1>1, <1>2, <1>3, <1>4, <1>5, <1>6 DEF Next, Step

\* RecordInv holds of every reachable state.
LEMMA RecordInvariant == Spec => [](TypeOK /\ RecordInv)
<1>1. Init => RecordInv
  BY DEF Init, RecordInv
<1> QED
  BY <1>1, RecordStep, TypeCorrect, PTL DEF Spec

\* A response, replayed or not, comes from a completed handler of a request
\* with the same user, key and body.
THEOREM Faithful == Spec => []AnswerIsFaithful
<1>1. Init => AnswerIsFaithful
  BY DEF Init, AnswerIsFaithful
<1>2. TypeOK /\ RecordInv /\ AnswerIsFaithful /\ [Next]_vars => AnswerIsFaithful'
  <2> SUFFICES ASSUME TypeOK, RecordInv, AnswerIsFaithful, [Next]_vars
               PROVE AnswerIsFaithful'
    OBVIOUS
  <2> USE IdempotencyAssumption DEF TypeOK, RecordInv, AnswerIsFaithful
  <2>1. ASSUME NEW q \in Requests, Replay(q) PROVE AnswerIsFaithful'
    BY <2>1 DEF Replay, Hit
  <2>2. ASSUME NEW q \in Requests, Release(q) PROVE AnswerIsFaithful'
    BY <2>2 DEF Release
  <2>3. ASSUME NEW q \in Requests,
               \/ Get(q) \/ GetFails(q) \/ Conflict(q) \/ Busy(q) \/ Start(q)
               \/ HandlerReturns(q) \/ HandlerThrows(q) \/ Put(q) \/ PutFails(q)
               \/ Expire(q)
        PROVE AnswerIsFaithful'
    BY <2>3 DEF Get, GetFails, Conflict, Busy, Start, HandlerReturns,
                HandlerThrows, Put, PutFails, Expire
  <2>4. CASE Cleanup \/ (\E p \in Processes : Crash(p)) \/ UNCHANGED vars
    BY <2>4 DEF Cleanup, DeleteOlderThan, Crash, vars
  <2> QED
    BY <2>1, <2>2, <2>3, <2>4 DEF Next, Step
<1> QED
  BY <1>1, <1>2, RecordInvariant, PTL DEF Spec

-----------------------------------------------------------------------------
(* Retries.                                                                *)

\* Some record of key k has expired.
SomeExpired(k) == \E w \in expired : KeyOf[w] = k

\* A stored response stays in the table, and a later lookup sees one, until
\* something of that key expires.
RetryInv ==
  \A q \in Requests :
    /\ pc[q] \in {"release", "ran"} => rec[KeyOf[q]] # NoRequest \/ SomeExpired(KeyOf[q])
    /\ (pc[q] = "got" /\ before[q] # {}) => snap[q] # NoRequest \/ SomeExpired(KeyOf[q])
    /\ (pc[q] \in {"handler", "put", "release", "threw", "ran"} /\ before[q] # {})
         => SomeExpired(KeyOf[q])

\* RetryInv is inductive relative to RecordInv.
LEMMA RetryStep ==
  TypeOK /\ RecordInv /\ RetryInv /\ [Next]_vars => RetryInv'
<1> SUFFICES ASSUME TypeOK, RecordInv, RetryInv, [Next]_vars PROVE RetryInv'
  OBVIOUS
<1> USE IdempotencyAssumption DEF TypeOK, RecordInv, RetryInv, SomeExpired
<1>1. ASSUME NEW q \in Requests, Get(q) PROVE RetryInv'
  BY <1>1 DEF Get
<1>2. ASSUME NEW q \in Requests,
             GetFails(q) \/ Conflict(q) \/ Replay(q) \/ Busy(q)
      PROVE RetryInv'
  BY <1>2 DEF GetFails, Conflict, Replay, Busy
<1>3. ASSUME NEW q \in Requests, Start(q) PROVE RetryInv'
  BY <1>3 DEF Start, Hit
<1>4. ASSUME NEW q \in Requests, HandlerReturns(q) \/ HandlerThrows(q)
      PROVE RetryInv'
  BY <1>4 DEF HandlerReturns, HandlerThrows
<1>5. ASSUME NEW q \in Requests, Put(q) PROVE RetryInv'
  BY <1>5 DEF Put
<1>6. ASSUME NEW q \in Requests, PutFails(q) \/ Release(q) PROVE RetryInv'
  BY <1>6 DEF PutFails, Release
<1>7. ASSUME NEW q \in Requests, Expire(q) PROVE RetryInv'
  BY <1>7 DEF Expire
<1>8. CASE Cleanup
  BY <1>8 DEF Cleanup, DeleteOlderThan
<1>9. ASSUME NEW p \in Processes, Crash(p) PROVE RetryInv'
  BY <1>9 DEF Crash
<1>10. CASE UNCHANGED vars
  BY <1>10 DEF vars
<1> QED
  BY <1>1, <1>2, <1>3, <1>4, <1>5, <1>6, <1>7, <1>8, <1>9, <1>10 DEF Next, Step

\* A request that is looked up after a response of its key was stored does
\* not run its handler, on any process, until a record of the key expires.
THEOREM RetriesReplay == Spec => []RetryReplays
<1>1. Init => RetryInv
  BY DEF Init, RetryInv
<1>2. RetryInv => RetryReplays
  BY DEF RetryInv, RetryReplays, SomeExpired
<1> QED
  BY <1>1, <1>2, RetryStep, RecordInvariant, PTL DEF Spec

=============================================================================
