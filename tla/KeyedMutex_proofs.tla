-------------------------- MODULE KeyedMutex_proofs --------------------------
(***************************************************************************)
(* For any number of goroutines, keys and mutex objects: KeyedMutex keeps  *)
(* its types, and no entry of the map is left behind.                      *)
(*                                                                         *)
(* NoOrphanEntry is not inductive.  When TryLock fails in the clean-up the *)
(* entry stays, and somebody else must be there to remove it: a locked     *)
(* mutex must have a holder (HeldHasHolder), and that holder must be in a  *)
(* call for the same key (OneKeyPerMutex).                                 *)
(*                                                                         *)
(* Exclusion does not hold; KMExcludes says what it depends on.            *)
(***************************************************************************)
EXTENDS KeyedMutex, TLAPS

(* A goroutine that is in a call has a key and a mutex, and no other has.  *)
CallersRefer ==
    \A t \in Threads :
        IF at[t] = "idle" THEN want[t] = NoKey /\ mref[t] = NoMutex
                          ELSE want[t] \in Keys /\ mref[t] \in Mutexes

(* Goroutines that captured one mutex object did so under one key.         *)
OneKeyPerMutex ==
    \A t, u \in Threads :
        (mref[t] = mref[u] /\ mref[t] # NoMutex) => want[t] = want[u]

(* A locked mutex is locked by a goroutine that will unlock it.            *)
HeldHasHolder ==
    \A m \in held : \E t \in Threads : at[t] = "holding" /\ mref[t] = m

KMInv ==
    /\ KMTypeOK
    /\ CallersRefer
    /\ OneKeyPerMutex
    /\ HeldHasHolder
    /\ NoOrphanEntry

-----------------------------------------------------------------------------

(* Each step keeps the types: what Lock stores in the map and in m is a    *)
(* mutex object (keyed_mutex.go, Lock).  CallersRefer is what makes it so: *)
(* only a goroutine that has captured a mutex locks and unlocks one.       *)
LEMMA KMTypeStep == ASSUME KMTypeOK, CallersRefer, [KMNext]_kmVars
                    PROVE  KMTypeOK'
<1> USE DEF KMTypeOK
<1>1. ASSUME NEW t \in Threads, NEW k \in Keys, Lookup(t, k)
      PROVE  KMTypeOK'
  BY <1>1 DEF Lookup, Unreferenced
<1>2. ASSUME NEW t \in Threads, Acquire(t) PROVE KMTypeOK'
  BY <1>2 DEF Acquire, CallersRefer
<1>3. ASSUME NEW t \in Threads, Unlock(t) PROVE KMTypeOK'
  BY <1>3 DEF Unlock
<1>4. ASSUME NEW t \in Threads, Cleanup(t) PROVE KMTypeOK'
  BY <1>4 DEF Cleanup, CallersRefer
<1>5. CASE UNCHANGED kmVars
  BY <1>5 DEF kmVars
<1> QED BY <1>1, <1>2, <1>3, <1>4, <1>5 DEF KMNext

(* Lock's first part keeps the invariant: it captures the mutex its key    *)
(* already has, or one that nobody else refers to.                         *)
LEMMA LookupKeepsInv ==
  ASSUME KMInv, NEW t \in Threads, NEW k \in Keys, Lookup(t, k)
  PROVE  KMInv'
<1> USE KeyedMutexAssumption DEF Lookup, KMInv, KMTypeOK
<1>1. KMTypeOK'
  BY KMTypeStep DEF KMNext
<1>2. CallersRefer'
  BY DEF CallersRefer, Unreferenced
<1>3. \A u \in Threads \ {t} : mref'[u] = mref[u] /\ want'[u] = want[u]
  OBVIOUS
<1>4. want[t] = NoKey /\ mref[t] = NoMutex
  BY DEF CallersRefer
<1>5. OneKeyPerMutex'
  <2>1. ASSUME NEW u \in Threads \ {t}, mref[u] = mref'[t]
        PROVE  want[u] = k
    <3>1. CASE locks[k] # NoMutex
      <4>1. PICK v \in Threads : want[v] = k /\ mref[v] = locks[k]
        BY <3>1 DEF NoOrphanEntry
      <4> QED BY <2>1, <3>1, <4>1 DEF OneKeyPerMutex
    <3>2. CASE locks[k] = NoMutex
      BY <2>1, <3>2 DEF Unreferenced
    <3> QED BY <3>1, <3>2
  <2> QED BY <1>3, <2>1 DEF OneKeyPerMutex
<1>6. HeldHasHolder'
  BY DEF HeldHasHolder
<1>7. NoOrphanEntry'
  <2>1. ASSUME NEW i \in Keys, locks'[i] # NoMutex
        PROVE  \E u \in Threads : want'[u] = i /\ mref'[u] = locks'[i]
    <3>1. CASE i = k
      BY <2>1, <3>1 DEF Unreferenced
    <3>2. CASE i # k
      <4>1. locks'[i] = locks[i]
        BY <3>2
      <4>2. PICK u \in Threads : want[u] = i /\ mref[u] = locks[i]
        BY <2>1, <4>1 DEF NoOrphanEntry
      <4>3. u # t
        BY <1>4, <4>2
      <4> QED BY <1>3, <4>1, <4>2, <4>3
    <3> QED BY <3>1, <3>2
  <2> QED BY <2>1 DEF NoOrphanEntry
<1> QED BY <1>1, <1>2, <1>5, <1>6, <1>7

(* The clean-up keeps the invariant: an entry that stays is the business of*)
(* whoever made TryLock fail.                                              *)
LEMMA CleanupKeepsInv ==
  ASSUME KMInv, NEW t \in Threads, Cleanup(t)
  PROVE  KMInv'
<1> USE KeyedMutexAssumption DEF Cleanup, KMInv, KMTypeOK
<1>1. KMTypeOK'
  BY KMTypeStep DEF KMNext
<1>2. CallersRefer'
  BY DEF CallersRefer
<1>3. \A u \in Threads \ {t} :
          mref'[u] = mref[u] /\ want'[u] = want[u] /\ at'[u] = at[u]
  OBVIOUS
<1>4. want'[t] = NoKey /\ mref'[t] = NoMutex /\ want[t] \in Keys
  BY DEF CallersRefer
<1>5. OneKeyPerMutex'
  BY <1>3, <1>4 DEF OneKeyPerMutex
<1>6. HeldHasHolder'
  BY <1>3 DEF HeldHasHolder
<1>7. NoOrphanEntry'
  <2>1. ASSUME NEW i \in Keys, locks'[i] # NoMutex
        PROVE  \E u \in Threads : want'[u] = i /\ mref'[u] = locks'[i]
    <3>1. locks'[i] = locks[i]
      BY <2>1
    <3>2. PICK u \in Threads : want[u] = i /\ mref[u] = locks[i]
      BY <2>1, <3>1 DEF NoOrphanEntry
    <3>3. CASE u # t
      BY <1>3, <3>1, <3>2, <3>3
    <3>4. CASE u = t
      <4>1. TryLockMayFail(t)
        BY <2>1, <3>2, <3>4
      <4>2. PICK v \in Threads : at[v] # "released" /\ mref[v] = mref[t]
        BY <4>1 DEF TryLockMayFail, HeldHasHolder
      <4>3. want[v] = want[t]
        BY <2>1, <3>1, <3>2, <3>4, <4>2 DEF OneKeyPerMutex
      <4> QED BY <1>3, <3>1, <3>2, <3>4, <4>2, <4>3
    <3> QED BY <3>3, <3>4
  <2> QED BY <2>1 DEF NoOrphanEntry
<1> QED BY <1>1, <1>2, <1>5, <1>6, <1>7

(* KMInv is inductive.                                                     *)
LEMMA KMInvInductive ==
  /\ KMInit => KMInv
  /\ KMInv /\ [KMNext]_kmVars => KMInv'
<1> USE KeyedMutexAssumption
<1>1. KMInit => KMInv
  BY DEF KMInit, KMInv, KMTypeOK, CallersRefer, OneKeyPerMutex, HeldHasHolder,
         NoOrphanEntry
<1>2. ASSUME KMInv, [KMNext]_kmVars PROVE KMInv'
  <2>1. ASSUME NEW t \in Threads, NEW k \in Keys, Lookup(t, k)
        PROVE  KMInv'
    BY <1>2, <2>1, LookupKeepsInv
  <2>2. KMTypeOK'
    BY <1>2, KMTypeStep DEF KMInv
  <2>3. ASSUME NEW t \in Threads, Acquire(t) PROVE KMInv'
    BY <1>2, <2>2, <2>3
    DEF Acquire, KMInv, KMTypeOK, CallersRefer, OneKeyPerMutex, HeldHasHolder,
        NoOrphanEntry
  <2>4. ASSUME NEW t \in Threads, Unlock(t) PROVE KMInv'
    BY <1>2, <2>2, <2>4
    DEF Unlock, KMInv, KMTypeOK, CallersRefer, OneKeyPerMutex, HeldHasHolder,
        NoOrphanEntry
  <2>5. ASSUME NEW t \in Threads, Cleanup(t) PROVE KMInv'
    BY <1>2, <2>5, CleanupKeepsInv
  <2>6. CASE UNCHANGED kmVars
    BY <1>2, <2>6
    DEF kmVars, KMInv, KMTypeOK, CallersRefer, OneKeyPerMutex, HeldHasHolder,
        NoOrphanEntry
  <2> QED BY <1>2, <2>1, <2>3, <2>4, <2>5, <2>6 DEF KMNext
<1> QED BY <1>1, <1>2

(* For every number of goroutines and keys: the map and the references of  *)
(* keyed_mutex.go hold mutex objects wherever the code dereferences them.  *)
THEOREM KMTypeCorrect == KMSpec => []KMTypeOK
<1>1. KMInv => KMTypeOK
  BY DEF KMInv
<1> QED BY <1>1, KMInvInductive, PTL DEF KMSpec

(* For every number of goroutines and keys: the TryLock and delete of the  *)
(* unlock closure leave no entry behind that no call will clean up, even   *)
(* when an entry is replaced under a waiter.                               *)
THEOREM KMNoLeak == KMSpec => []NoOrphanEntry
<1>1. KMInv => NoOrphanEntry
  BY DEF KMInv
<1> QED BY <1>1, KMInvInductive, PTL DEF KMSpec

-----------------------------------------------------------------------------
(* Exclusion.  What the comment of keyedMutex promises, one holder per key,*)
(* does not hold; what holds of every mutex object is proved here, and so  *)
(* where the promise is broken.                                            *)

(* A goroutine that holds a mutex has it locked, and no other holds it.    *)
KMExclusive ==
    /\ \A t \in Threads : at[t] = "holding" => mref[t] \in held
    /\ \A t, u \in Threads :
          (at[t] = "holding" /\ at[u] = "holding" /\ mref[t] = mref[u]) => t = u

(* The clean-up of another call has dropped the entry that a goroutine     *)
(* waits for or holds: the next Lock of the key makes another mutex.       *)
EntryDropped ==
    \E t \in Threads : at[t] \in {"waiting", "holding"} /\ locks[want[t]] # mref[t]

LEMMA KMExclusiveInductive ==
  /\ KMInit => KMExclusive
  /\ KMExclusive /\ KMInv /\ [KMNext]_kmVars => KMExclusive'
<1>1. KMInit => KMExclusive
  BY DEF KMInit, KMExclusive
<1>2. ASSUME KMExclusive, KMInv, [KMNext]_kmVars PROVE KMExclusive'
  <2> USE DEF KMInv, KMTypeOK, CallersRefer, KMExclusive
  <2>1. ASSUME NEW t \in Threads, NEW k \in Keys, Lookup(t, k) PROVE KMExclusive'
    BY <1>2, <2>1 DEF Lookup
  <2>2. ASSUME NEW t \in Threads, Acquire(t) PROVE KMExclusive'
    BY <1>2, <2>2 DEF Acquire
  <2>3. ASSUME NEW t \in Threads, Unlock(t) PROVE KMExclusive'
    BY <1>2, <2>3 DEF Unlock
  <2>4. ASSUME NEW t \in Threads, Cleanup(t) PROVE KMExclusive'
    BY <1>2, <2>4 DEF Cleanup
  <2>5. CASE UNCHANGED kmVars
    BY <1>2, <2>5 DEF kmVars
  <2> QED BY <1>2, <2>1, <2>2, <2>3, <2>4, <2>5 DEF KMNext
<1> QED BY <1>1, <1>2

(* For every number of goroutines and keys: two goroutines hold one key    *)
(* (keyed_mutex.go promises that none do) only where the unlock closure    *)
(* has deleted the entry of a mutex that was still waited for or held.     *)
THEOREM KMExcludes == KMSpec => [](OneHolderPerKey \/ EntryDropped)
<1>1. KMExclusive => OneHolderPerKey \/ EntryDropped
  BY DEF KMExclusive, OneHolderPerKey, EntryDropped
<1> QED BY <1>1, KMInvInductive, KMExclusiveInductive, PTL DEF KMSpec

=============================================================================
