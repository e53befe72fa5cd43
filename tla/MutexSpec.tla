----------------------------- MODULE MutexSpec -----------------------------
(***************************************************************************)
(* What the mutex API of includes/iw_mutex.h promises its callers: a mutex *)
(* is held by at most one thread, a thread holds a mutex from the moment   *)
(* iw_mutex_lock returns true until it calls iw_mutex_unlock, and a mutex  *)
(* that is held stays in existence.                                        *)
(***************************************************************************)
CONSTANTS Thread, Mutex

VARIABLES exists,   \* the mutexes that were created and not destroyed
          held      \* held[t]: the mutexes that thread t holds

Init == /\ exists = {}
        /\ held = [t \in Thread |-> {}]

Create(m) == /\ m \notin exists
             /\ exists' = exists \union {m}
             /\ UNCHANGED held

Acquire(t, m) == /\ m \in exists
                 /\ \A u \in Thread : m \notin held[u]
                 /\ held' = [held EXCEPT ![t] = @ \union {m}]
                 /\ UNCHANGED exists

Release(t, m) == /\ m \in held[t]
                 /\ held' = [held EXCEPT ![t] = @ \ {m}]
                 /\ UNCHANGED exists

Destroy(m) == /\ m \in exists
              /\ \A u \in Thread : m \notin held[u]
              /\ exists' = exists \ {m}
              /\ UNCHANGED held

Next == \E m \in Mutex : \/ Create(m)
                         \/ Destroy(m)
                         \/ \E t \in Thread : Acquire(t, m) \/ Release(t, m)

Spec == Init /\ [][Next]_<<exists, held>>
=============================================================================
