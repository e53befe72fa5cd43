------------------------------ MODULE IwMutex ------------------------------
(***************************************************************************)
(* The mutex wrapper, src/src/iw_mutex.c: the table s_mutexes under the    *)
(* rwlock s_mtx_lock, the record minfo->thread of who owns a mutex, and    *)
(* the record tinfo->mutex of what a thread waits for.  A step is the code *)
(* between two accesses to shared state, so that the unlocked windows of   *)
(* the code (between the failed trylock and the blocking lock, between     *)
(* publishing the owner and clearing the wait record) are states.          *)
(*                                                                         *)
(* s_mtx_lock is held for writing only around the table insertion, one     *)
(* step here, so of its state only the readers are kept.  An id names the  *)
(* mutex info allocated for it.  The pthread mutex inside (holder) is      *)
(* external: a default, non-recursive one.                                 *)
(***************************************************************************)
EXTENDS Naturals

CONSTANTS Thread,        \* the threads that call the API
          NoThread,      \* minfo->thread = 0
          MaxMutex,      \* bound: the ids s_mutex_id can reach
          Eager          \* the mutexes clients may destroy while in use

ASSUME ThreadAssumption == NoThread \notin Thread
ASSUME BoundAssumption  == MaxMutex \in Nat

Mutex   == 1 .. MaxMutex
NoMutex == 0

ASSUME EagerAssumption == Eager \subseteq Mutex

VARIABLES
  s_mutex_id,   \* the id counter, incremented outside of any lock
  s_mutexes,    \* the ids in the hash table
  readers,      \* the threads that hold s_mtx_lock for reading
  minfoThread,  \* minfo->thread of every mutex
  holder,       \* who has the pthread mutex inside of minfo
  tinfoMutex,   \* tinfo->mutex of every thread
  held,         \* what the clients know: locked with success, not yet unlocked
  pc,           \* where in iw_mutex.c a thread is
  arg           \* the mutex its call is about

tableVars  == <<s_mutex_id, s_mutexes>>
recordVars == <<minfoThread, holder, tinfoMutex>>
vars == <<tableVars, recordVars, readers, held, pc, arg>>

Labels == {"idle", "bump", "insert", "trylock", "blocked", "refind", "own",
           "clear", "unlock", "free"}

\* The points of iw_mutex_lock at which minfo was found and is used again.
InLock == {"trylock", "blocked", "refind", "own", "clear"}

TypeOK ==
  /\ s_mutex_id \in 1 .. MaxMutex + 1
  /\ s_mutexes \subseteq Mutex
  /\ readers \subseteq Thread
  /\ minfoThread \in [Mutex -> Thread \union {NoThread}]
  /\ holder \in [Mutex -> Thread \union {NoThread}]
  /\ tinfoMutex \in [Thread -> Mutex \union {NoMutex}]
  /\ held \in [Thread -> SUBSET Mutex]
  /\ pc \in [Thread -> Labels]
  /\ arg \in [Thread -> Mutex \union {NoMutex}]
  /\ \A t \in Thread : arg[t] = NoMutex <=> pc[t] = "idle"

Init ==
  /\ s_mutex_id = 1
  /\ s_mutexes = {}
  /\ readers = {}
  /\ minfoThread = [m \in Mutex |-> NoThread]
  /\ holder = [m \in Mutex |-> NoThread]
  /\ tinfoMutex = [t \in Thread |-> NoMutex]
  /\ held = [t \in Thread |-> {}]
  /\ pc = [t \in Thread |-> "idle"]
  /\ arg = [t \in Thread |-> NoMutex]

-----------------------------------------------------------------------------
At(t, label) == pc[t] = label

Goto(t, label) == pc' = [pc EXCEPT ![t] = label] /\ UNCHANGED arg

\* A call about mutex m begins, or goes straight on to label.
Call(t, m, label) == /\ At(t, "idle")
                     /\ pc' = [pc EXCEPT ![t] = label]
                     /\ arg' = [arg EXCEPT ![t] = m]

Return(t) == /\ pc' = [pc EXCEPT ![t] = "idle"]
             /\ arg' = [arg EXCEPT ![t] = NoMutex]

-----------------------------------------------------------------------------
(* iw_mutex_create.  "s_mutex_id++" reads and writes the counter with no   *)
(* lock held, so two creators may get the same id.                         *)

CreateReadId(t) ==
  /\ s_mutex_id \in Mutex
  /\ Call(t, s_mutex_id, "bump")
  /\ UNCHANGED <<tableVars, recordVars, readers, held>>

\* Fault: ++s_mutex_id, the mutex gets the id after the one that is taken.
CreateBumpId_PreIncrement(t) ==
  /\ At(t, "bump")
  /\ s_mutex_id' = arg[t] + 1
  /\ pc' = [pc EXCEPT ![t] = "insert"]
  /\ arg' = [arg EXCEPT ![t] = @ + 1]
  /\ UNCHANGED <<s_mutexes, recordVars, readers, held>>

\* The id is taken; pthread_mutex_init may fail, and the call returns 0.
CreateBumpId(t) ==
  /\ At(t, "bump")
  /\ s_mutex_id' = arg[t] + 1
  /\ Goto(t, "insert") \/ Return(t)
  /\ UNCHANGED <<s_mutexes, recordVars, readers, held>>

\* The insertion, under the write lock.  A taken id makes it fail.
CreateInsert(t) ==
  /\ At(t, "insert")
  /\ readers = {}
  /\ IF arg[t] \in s_mutexes
     THEN UNCHANGED <<s_mutexes, minfoThread, holder>>
     ELSE /\ s_mutexes' = s_mutexes \union {arg[t]}
          /\ minfoThread' = [minfoThread EXCEPT ![arg[t]] = NoThread]
          /\ holder' = [holder EXCEPT ![arg[t]] = NoThread]
  /\ Return(t)
  /\ UNCHANGED <<s_mutex_id, tinfoMutex, readers, held>>

-----------------------------------------------------------------------------
(* iw_mutex_lock.  A call with an id that is not in the table returns      *)
(* false and changes nothing; it is not a step.                            *)

\* The mutex is found under the read lock and the wait record is set.
LockFind(t, m) ==
  /\ m \in s_mutexes
  /\ Call(t, m, "trylock")
  /\ readers' = readers \union {t}
  /\ tinfoMutex' = [tinfoMutex EXCEPT ![t] = m]
  /\ UNCHANGED <<tableVars, minfoThread, holder, held>>

\* Fault: the result of pthread_mutex_trylock is ignored.
LockTry_ResultIgnored(t) ==
  /\ At(t, "trylock")
  /\ holder' = [holder EXCEPT ![arg[t]] = IF @ = NoThread THEN t ELSE @]
  /\ Goto(t, "own")
  /\ UNCHANGED <<tableVars, minfoThread, tinfoMutex, readers, held>>

\* pthread_mutex_trylock; on failure s_mtx_lock is released before blocking.
LockTry(t) ==
  /\ At(t, "trylock")
  /\ \/ /\ holder[arg[t]] = NoThread
        /\ holder' = [holder EXCEPT ![arg[t]] = t]
        /\ Goto(t, "own")
        /\ UNCHANGED readers
     \/ /\ holder[arg[t]] # NoThread
        /\ readers' = readers \ {t}
        /\ Goto(t, "blocked")
        /\ UNCHANGED holder
  /\ UNCHANGED <<tableVars, minfoThread, tinfoMutex, held>>

\* pthread_mutex_lock, which waits until the mutex is free.
LockBlock(t) ==
  /\ At(t, "blocked")
  /\ holder[arg[t]] = NoThread
  /\ holder' = [holder EXCEPT ![arg[t]] = t]
  /\ Goto(t, "refind")
  /\ UNCHANGED <<tableVars, minfoThread, tinfoMutex, readers, held>>

\* Fault: the early return forgets to unlock s_mtx_lock.
LockRefind_KeepsTableLock(t) ==
  /\ At(t, "refind")
  /\ readers' = readers \union {t}
  /\ IF arg[t] \in s_mutexes THEN Goto(t, "own") ELSE Return(t)
  /\ UNCHANGED <<tableVars, recordVars, held>>

\* The read lock again, and a second find.  When the mutex is gone the call
\* returns false: the wait record and the pthread mutex stay as they are.
LockRefind(t) ==
  /\ At(t, "refind")
  /\ \/ /\ arg[t] \in s_mutexes
        /\ readers' = readers \union {t}
        /\ Goto(t, "own")
     \/ /\ arg[t] \notin s_mutexes
        /\ Return(t)
        /\ UNCHANGED readers
  /\ UNCHANGED <<tableVars, recordVars, held>>

\* minfo->thread is published and s_mtx_lock is released ...
LockRecordOwner(t) ==
  /\ At(t, "own")
  /\ minfoThread' = [minfoThread EXCEPT ![arg[t]] = t]
  /\ readers' = readers \ {t}
  /\ Goto(t, "clear")
  /\ UNCHANGED <<tableVars, holder, tinfoMutex, held>>

\* Fault: the wait record stays set.
LockClearWait_NoReset(t) ==
  /\ At(t, "clear")
  /\ held' = [held EXCEPT ![t] = @ \union {arg[t]}]
  /\ Return(t)
  /\ UNCHANGED <<tableVars, recordVars, readers>>

\* ... and only then, with no lock, is the wait record cleared.
LockClearWait(t) ==
  /\ At(t, "clear")
  /\ tinfoMutex' = [tinfoMutex EXCEPT ![t] = NoMutex]
  /\ held' = [held EXCEPT ![t] = @ \union {arg[t]}]
  /\ Return(t)
  /\ UNCHANGED <<tableVars, minfoThread, holder, readers>>

-----------------------------------------------------------------------------
(* iw_mutex_unlock, which clients call for a mutex they hold and that is   *)
(* still in the table: the code does not look at what the find returned    *)
(* and would follow a NULL pointer for any other.                          *)

\* Fault: minfo->thread keeps the name of the former owner.
UnlockClearOwner_NoReset(t, m) ==
  /\ m \in held[t] \intersect s_mutexes
  /\ Call(t, m, "unlock")
  /\ readers' = readers \union {t}
  /\ held' = [held EXCEPT ![t] = @ \ {m}]
  /\ UNCHANGED <<tableVars, recordVars>>

UnlockClearOwner(t, m) ==
  /\ m \in held[t] \intersect s_mutexes
  /\ Call(t, m, "unlock")
  /\ readers' = readers \union {t}
  /\ minfoThread' = [minfoThread EXCEPT ![m] = NoThread]
  /\ held' = [held EXCEPT ![t] = @ \ {m}]
  /\ UNCHANGED <<tableVars, holder, tinfoMutex>>

UnlockRelease(t) ==
  /\ At(t, "unlock")
  /\ holder' = [holder EXCEPT ![arg[t]] = NoThread]
  /\ readers' = readers \ {t}
  /\ Return(t)
  /\ UNCHANGED <<tableVars, minfoThread, tinfoMutex, held>>

-----------------------------------------------------------------------------
(* iw_mutex_destroy.  The careful client (examples/philosophers/main.c,    *)
(* main_term) destroys a mutex that nobody holds or is about to lock.  A   *)
(* mutex of Eager may be destroyed in use: then the info that the calls in *)
(* progress go on to use (LockTry, LockBlock, LockRecordOwner) is freed    *)
(* memory, and nothing is said of it.                                      *)

Unused(m) == \A t \in Thread :
  /\ m \notin held[t]
  /\ arg[t] = m => pc[t] \notin InLock \union {"unlock"}

\* The removal happens under the READ lock: other readers are no obstacle.
DestroyRemove(t, m) ==
  /\ m \in s_mutexes
  /\ m \in Eager \/ Unused(m)
  /\ Call(t, m, "free")
  /\ s_mutexes' = s_mutexes \ {m}
  /\ UNCHANGED <<s_mutex_id, recordVars, readers, held>>

DestroyFree(t) ==
  /\ At(t, "free")
  /\ Return(t)
  /\ UNCHANGED <<tableVars, recordVars, readers, held>>

-----------------------------------------------------------------------------
Step(t) ==
  \/ CreateBumpId(t) \/ CreateInsert(t)
  \/ LockTry(t) \/ LockBlock(t) \/ LockRefind(t)
  \/ LockRecordOwner(t) \/ LockClearWait(t)
  \/ UnlockRelease(t) \/ DestroyFree(t)

NewCall(t) ==
  \/ CreateReadId(t)
  \/ \E m \in Mutex : \/ LockFind(t, m)
                      \/ UnlockClearOwner(t, m)
                      \/ DestroyRemove(t, m)

Next == \E t \in Thread : Step(t) \/ NewCall(t)

Spec == Init /\ [][Next]_vars

-----------------------------------------------------------------------------
(* Properties.                                                             *)

(* What is said of a mutex is said of one that clients destroy only when   *)
(* nobody uses it; that others are destroyed in use does not change it.    *)

(* iw_mutex_lock and iw_mutex_unlock implement the mutex API: a refinement *)
(* in which a mutex is acquired when iw_mutex_lock returns true.           *)
Abstract == INSTANCE MutexSpec WITH
  exists <- s_mutexes \ Eager,
  held   <- [t \in Thread |-> held[t] \ Eager]
ImplementsMutex == Abstract!Spec

(* minfo->thread never names a thread that does not have the pthread mutex *)
(* (it is set after the lock and cleared before the unlock).               *)
OwnerRecordTruthful ==
  \A m \in s_mutexes \ Eager : minfoThread[m] \in {NoThread, holder[m]}

(* A thread that was told it locked a mutex has it, and is its recorded    *)
(* owner, for as long as it does not unlock it.                            *)
HeldIsRecorded ==
  \A t \in Thread : \A m \in held[t] \ Eager :
    holder[m] = t /\ minfoThread[m] = t

(* The owner record is exact: it names no thread that does not have the    *)
(* mutex, and always names a thread that was told it has it.               *)
OwnerRecordExact == OwnerRecordTruthful /\ HeldIsRecorded

(* A wait record is set exactly while its thread is inside iw_mutex_lock,  *)
(* for the mutex of that call.  Only a mutex that was destroyed while the  *)
(* thread waited for it leaves its record behind.                          *)
WaitRecordExact ==
  \A t \in Thread :
    /\ pc[t] \in InLock => tinfoMutex[t] = arg[t]
    /\ pc[t] \notin InLock => tinfoMutex[t] \in {NoMutex} \union Eager

(* The records the deadlock check reads show every real deadlock: when a   *)
(* thread is blocked on a mutex whose holder is itself blocked, the two    *)
(* records give the edge from the one to the other.                        *)
Blocks(t, u) ==
  /\ At(t, "blocked") /\ At(u, "blocked")
  /\ arg[t] \notin Eager
  /\ holder[arg[t]] = u
RecordedEdge(t, u) == tinfoMutex[t] \in Mutex /\ minfoThread[tinfoMutex[t]] = u
DeadlockIsRecorded ==
  \A t, u \in Thread : Blocks(t, u) => RecordedEdge(t, u)

(* No path out of the functions, and no wait for a mutex, keeps s_mtx_lock *)
(* (iw_mutex_lock has two early returns and releases it at three places),  *)
(* whatever is destroyed meanwhile.                                        *)
TableLockNotLeaked ==
  \A t \in readers : pc[t] \notin {"idle", "blocked", "refind", "clear"}
=============================================================================
