----------------------------- MODULE KeyedMutex -----------------------------
(***************************************************************************)
(* The agent's keyedMutex (src/internal/agent/keyed_mutex.go), at the      *)
(* granularity of its atomic steps: the two critical sections of k.mu, the *)
(* blocking m.Lock() between them, and the m.Unlock() that comes before    *)
(* the second one and outside k.mu.                                        *)
(*                                                                         *)
(* A mutex object is an element of Mutexes.  A fresh one is any object     *)
(* that neither the map nor a goroutine refers to: the Go collector makes  *)
(* the others unobservable.                                                *)
(***************************************************************************)
EXTENDS Naturals, FiniteSets

CONSTANTS
    Threads,   \* the goroutines that call Lock
    Keys,      \* the keys they lock ("app-<id>")
    NoKey,     \* the key of a goroutine that is in no call
    Mutexes,   \* mutex objects
    NoMutex    \* a missing map entry, or a goroutine that holds no reference

ASSUME KeyedMutexAssumption ==
    /\ NoMutex \notin Mutexes
    /\ NoKey \notin Keys

VARIABLES
    locks,   \* k.locks: the map from keys to mutex objects
    held,    \* the mutex objects that are locked
    at,      \* where each goroutine is in Lock and in the unlock closure
    want,    \* the key of the call it is in
    mref     \* the mutex object m it captured

kmVars == <<locks, held, at, want, mref>>

KMTypeOK ==
    /\ locks \in [Keys -> Mutexes \cup {NoMutex}]
    /\ held \in SUBSET Mutexes
    /\ at \in [Threads -> {"idle", "waiting", "holding", "released"}]
    /\ want \in [Threads -> Keys \cup {NoKey}]
    /\ mref \in [Threads -> Mutexes \cup {NoMutex}]

KMInit ==
    /\ locks = [k \in Keys |-> NoMutex]
    /\ held = {}
    /\ at = [t \in Threads |-> "idle"]
    /\ want = [t \in Threads |-> NoKey]
    /\ mref = [t \in Threads |-> NoMutex]

-----------------------------------------------------------------------------

Unreferenced == {m \in Mutexes : /\ \A k \in Keys : locks[k] # m
                                 /\ \A t \in Threads : mref[t] # m}

(* Mutant: the entry is taken without asking whether it is there.          *)
LookupUnchecked(t, k) ==
    /\ at[t] = "idle"
    /\ mref' = [mref EXCEPT ![t] = locks[k]]
    /\ at' = [at EXCEPT ![t] = "waiting"]
    /\ want' = [want EXCEPT ![t] = k]
    /\ UNCHANGED <<locks, held>>

(* Lock, the part under k.mu: find the entry of the key or insert a fresh  *)
(* mutex, and keep a reference to it.                                      *)
Lookup(t, k) ==
    /\ at[t] = "idle"
    /\ \/ /\ locks[k] # NoMutex
          /\ mref' = [mref EXCEPT ![t] = locks[k]]
          /\ UNCHANGED locks
       \/ /\ locks[k] = NoMutex
          /\ \E m \in Unreferenced :
                /\ locks' = [locks EXCEPT ![k] = m]
                /\ mref' = [mref EXCEPT ![t] = m]
    /\ at' = [at EXCEPT ![t] = "waiting"]
    /\ want' = [want EXCEPT ![t] = k]
    /\ UNCHANGED held

(* m.Lock() returns.  Any blocked goroutine may get the mutex.             *)
Acquire(t) ==
    /\ at[t] = "waiting"
    /\ mref[t] \notin held
    /\ held' = held \cup {mref[t]}
    /\ at' = [at EXCEPT ![t] = "holding"]
    /\ UNCHANGED <<locks, want, mref>>

(* The closure's first statement, m.Unlock(), outside k.mu.                *)
Unlock(t) ==
    /\ at[t] = "holding"
    /\ held' = held \ {mref[t]}
    /\ at' = [at EXCEPT ![t] = "released"]
    /\ UNCHANGED <<locks, want, mref>>

(* sync.Mutex.TryLock: it fails on a locked mutex, and it may fail on a    *)
(* free one that is being handed to a starving waiter.                     *)
TryLockMayFail(t) ==
    \/ mref[t] \in held
    \/ \E u \in Threads : at[u] = "waiting" /\ mref[u] = mref[t]

(* Mutants: the map is never cleaned; the mutex that TryLock took to drop  *)
(* the entry is not unlocked again.                                        *)
CleanupKeepsEntry(t) ==
    /\ at[t] = "released"
    /\ at' = [at EXCEPT ![t] = "idle"]
    /\ want' = [want EXCEPT ![t] = NoKey]
    /\ mref' = [mref EXCEPT ![t] = NoMutex]
    /\ UNCHANGED <<locks, held>>

CleanupKeepsMutex(t) ==
    /\ at[t] = "released"
    /\ \/ /\ mref[t] \notin held
          /\ locks' = [locks EXCEPT ![want[t]] = NoMutex]
          /\ held' = held \cup {mref[t]}
       \/ TryLockMayFail(t) /\ UNCHANGED <<locks, held>>
    /\ at' = [at EXCEPT ![t] = "idle"]
    /\ want' = [want EXCEPT ![t] = NoKey]
    /\ mref' = [mref EXCEPT ![t] = NoMutex]

(* The closure's second part, under k.mu: when TryLock succeeds the entry  *)
(* of the KEY is deleted, whatever object it holds by then.                *)
Cleanup(t) ==
    /\ at[t] = "released"
    /\ \/ /\ mref[t] \notin held
          /\ locks' = [locks EXCEPT ![want[t]] = NoMutex]
       \/ /\ TryLockMayFail(t)
          /\ UNCHANGED locks
    /\ at' = [at EXCEPT ![t] = "idle"]
    /\ want' = [want EXCEPT ![t] = NoKey]
    /\ mref' = [mref EXCEPT ![t] = NoMutex]
    /\ UNCHANGED held

KMNext ==
    \E t \in Threads :
        \/ \E k \in Keys : Lookup(t, k)
        \/ Acquire(t)
        \/ Unlock(t)
        \/ Cleanup(t)

(* A goroutine that runs keeps running, and a Go mutex is starvation free: *)
(* a waiter blocked for a millisecond is handed the lock on release.       *)
KMFairness ==
    \A t \in Threads :
        /\ WF_kmVars(Unlock(t))
        /\ WF_kmVars(Cleanup(t))
        /\ SF_kmVars(Acquire(t))

KMSpec == KMInit /\ [][KMNext]_kmVars
KMFairSpec == KMSpec /\ KMFairness

-----------------------------------------------------------------------------

(* The map does not leak: every entry belongs to a call that is still      *)
(* under way and that will run the clean-up of that key (keyed_mutex.go,   *)
(* the TryLock and delete of the unlock closure).                          *)
NoOrphanEntry ==
    \A k \in Keys : locks[k] # NoMutex =>
        \E t \in Threads : want[t] = k /\ mref[t] = locks[k]

(* Every call of Lock returns: no reference a goroutine captured under     *)
(* k.mu ever names a mutex that nobody is left to unlock.                  *)
LockReturns ==
    \A t \in Threads : (at[t] = "waiting") ~> (at[t] = "holding")

(* What the comment of keyedMutex and its test promise: never two holders  *)
(* of one key.                                                             *)
OneHolderPerKey ==
    \A t, u \in Threads :
        (at[t] = "holding" /\ at[u] = "holding" /\ want[t] = want[u]) => t = u

=============================================================================
