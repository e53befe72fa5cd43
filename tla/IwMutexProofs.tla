--------------------------- MODULE IwMutexProofs ---------------------------
(***************************************************************************)
(* Theorems about IwMutex, for every number of threads and mutexes.  The   *)
(* results about the records and the mutex API are about the mutexes that  *)
(* clients destroy only when nobody uses them, whatever happens to the     *)
(* others (Eager), whose destruction in use breaks each of them.           *)
(***************************************************************************)
EXTENDS IwHealth, TLAPS

-----------------------------------------------------------------------------
(* Types.                                                                  *)

(* Every step keeps the type of every variable.                            *)
LEMMA TypeStep == ASSUME TypeOK, [Next]_vars PROVE TypeOK'
<1> USE ThreadAssumption, BoundAssumption 
  DEF TypeOK, Labels, NoMutex, At, Goto, Call, Return, tableVars, recordVars
<1>1. ASSUME NEW t \in Thread, CreateReadId(t) PROVE TypeOK'
  BY <1>1 DEF CreateReadId, Mutex
<1>2. ASSUME NEW t \in Thread, CreateBumpId(t) PROVE TypeOK'
  <2>1. arg[t] \in Mutex
    BY <1>2 DEF CreateBumpId
  <2>2. s_mutex_id' \in 1 .. MaxMutex + 1
    BY <1>2, <2>1 DEF CreateBumpId, Mutex
  <2> QED
    BY <1>2, <2>2 DEF CreateBumpId
<1>3. ASSUME NEW t \in Thread, CreateInsert(t) PROVE TypeOK'
  <2>1. arg[t] \in Mutex
    BY <1>3 DEF CreateInsert
  <2> QED
    BY <1>3, <2>1 DEF CreateInsert
<1>4. ASSUME NEW t \in Thread, NEW m \in Mutex, LockFind(t, m) PROVE TypeOK'
  BY <1>4 DEF LockFind, Mutex
<1>5. ASSUME NEW t \in Thread, LockTry(t) PROVE TypeOK'
  BY <1>5 DEF LockTry
<1>6. ASSUME NEW t \in Thread, LockBlock(t) PROVE TypeOK'
  BY <1>6 DEF LockBlock
<1>7. ASSUME NEW t \in Thread, LockRefind(t) PROVE TypeOK'
  BY <1>7 DEF LockRefind
<1>8. ASSUME NEW t \in Thread, LockRecordOwner(t) PROVE TypeOK'
  BY <1>8 DEF LockRecordOwner
<1>9. ASSUME NEW t \in Thread, LockClearWait(t) PROVE TypeOK'
  <2>1. arg[t] \in Mutex
    BY <1>9 DEF LockClearWait
  <2> QED
    BY <1>9, <2>1 DEF LockClearWait
<1>10. ASSUME NEW t \in Thread, NEW m \in Mutex, UnlockClearOwner(t, m) PROVE TypeOK'
  BY <1>10 DEF UnlockClearOwner, Mutex
<1>11. ASSUME NEW t \in Thread, UnlockRelease(t) PROVE TypeOK'
  BY <1>11 DEF UnlockRelease
<1>12. ASSUME NEW t \in Thread, NEW m \in Mutex, DestroyRemove(t, m) PROVE TypeOK'
  BY <1>12 DEF DestroyRemove, Mutex
<1>13. ASSUME NEW t \in Thread, DestroyFree(t) PROVE TypeOK'
  BY <1>13 DEF DestroyFree
<1>14. CASE UNCHANGED vars
  BY <1>14 DEF vars
<1> QED
  BY <1>1, <1>2, <1>3, <1>4, <1>5, <1>6, <1>7, <1>8, <1>9, <1>10, <1>11,
     <1>12, <1>13, <1>14 DEF Next, Step, NewCall

(* Every variable of the wrapper keeps its type, and a call that has begun *)
(* knows its mutex, whatever the threads of the program call and in        *)
(* whatever order their steps are taken.                                   *)
THEOREM TypeCorrect == Spec => []TypeOK
<1>1. Init => TypeOK
  BY ThreadAssumption, BoundAssumption DEF Init, TypeOK, Labels, Mutex, NoMutex
<1>2. TypeOK /\ [Next]_vars => TypeOK'
  BY TypeStep
<1> QED
  BY <1>1, <1>2, PTL DEF Spec

-----------------------------------------------------------------------------
(* The table lock, for every client.                                       *)

\* The points between a pthread_rwlock_rdlock and its unlock.
ReadersInside == \A t \in readers : pc[t] \in {"trylock", "own", "unlock"}

(* A thread that has returned, or that waits for a mutex, has released     *)
(* s_mtx_lock, also when the mutex it waited for was destroyed.            *)
THEOREM TableLock == Spec => []TableLockNotLeaked
<1>1. Init => ReadersInside
  BY DEF Init, ReadersInside
<1>2. TypeOK /\ ReadersInside /\ [Next]_vars => ReadersInside'
  BY DEF TypeOK, ReadersInside, Next, Step, NewCall, At, Goto, Call, Return,
     tableVars, recordVars, vars, CreateReadId, CreateBumpId, CreateInsert,
     LockFind, LockTry, LockBlock, LockRefind, LockRecordOwner, LockClearWait,
     UnlockClearOwner, UnlockRelease, DestroyRemove, DestroyFree
<1>3. ReadersInside => TableLockNotLeaked
  BY DEF ReadersInside, TableLockNotLeaked
<1> QED
  BY <1>1, <1>2, <1>3, TypeCorrect, PTL DEF Spec

-----------------------------------------------------------------------------
(* The inductive invariant.                                                *)

\* The points at which a call has the pthread mutex of arg[t].
Owning == {"refind", "own", "clear", "unlock"}

\* In iw_mutex_lock and iw_mutex_unlock minfo stays in the table.
CallsUseTable ==
  \A t \in Thread :
    /\ held[t] \subseteq s_mutexes \union Eager
    /\ pc[t] \in InLock \union {"unlock"} => arg[t] \in s_mutexes \union Eager

\* A thread past the lock has the pthread mutex, and is not told yet; the
\* owner is recorded between LockRecordOwner and UnlockClearOwner only.
OwningCalls ==
  \A t \in Thread : pc[t] \in Owning /\ arg[t] \notin Eager =>
    /\ holder[arg[t]] = t
    /\ arg[t] \notin held[t]
    /\ minfoThread[arg[t]] = IF pc[t] = "clear" THEN t ELSE NoThread

\* Who has a pthread mutex has it from a call or holds it.
HolderKnown ==
  \A m \in s_mutexes \ Eager : \A t \in Thread :
    holder[m] = t => m \in held[t] \/ (pc[t] \in Owning /\ arg[t] = m)

IInv ==
  /\ TypeOK
  /\ CallsUseTable
  /\ OwningCalls
  /\ HolderKnown
  /\ WaitRecordExact
  /\ HeldIsRecorded
  /\ OwnerRecordTruthful

-----------------------------------------------------------------------------
(* The step.  TypeOK holds before and after every step, by TypeCorrect.    *)

Relations == /\ CallsUseTable /\ OwningCalls /\ HolderKnown
             /\ WaitRecordExact /\ HeldIsRecorded /\ OwnerRecordTruthful

(* Every step of clients keeps the relations between the table, the        *)
(* pthread mutexes, the two records and what the clients know.             *)
LEMMA RelationsStep ==
  ASSUME TypeOK, TypeOK', Relations, [Next]_vars
  PROVE  Relations'
<1> USE ThreadAssumption DEF TypeOK, Labels, InLock, Owning, At, Goto, Call, Return,
        tableVars, recordVars, NoMutex, Mutex, Relations, CallsUseTable, OwningCalls,
        HolderKnown, WaitRecordExact, HeldIsRecorded, OwnerRecordTruthful
<1>1. ASSUME NEW t \in Thread, CreateReadId(t) PROVE Relations'
  BY <1>1 DEF CreateReadId
<1>2. ASSUME NEW t \in Thread, CreateBumpId(t) PROVE Relations'
  BY <1>2 DEF CreateBumpId
<1>3. ASSUME NEW t \in Thread, CreateInsert(t) PROVE Relations'
  \* The new mutex was not in the table: by CallsUseTable no call and no
  \* client has it, so resetting its records disturbs none of theirs.
  <2>1. OwningCalls'
    BY <1>3 DEF CreateInsert
  <2>2. HolderKnown'
    BY <1>3 DEF CreateInsert
  <2>3. HeldIsRecorded'
    BY <1>3 DEF CreateInsert
  <2>4. CallsUseTable' /\ WaitRecordExact' /\ OwnerRecordTruthful'
    BY <1>3 DEF CreateInsert
  <2> QED
    BY <2>1, <2>2, <2>3, <2>4
<1>4. ASSUME NEW t \in Thread, NEW m \in Mutex, LockFind(t, m) PROVE Relations'
  BY <1>4 DEF LockFind
<1>5. ASSUME NEW t \in Thread, LockTry(t) PROVE Relations'
  \* The pthread mutex is taken only when it is free, so its owner record
  \* is empty (OwnerRecordTruthful) and no other thread is past the lock.
  <2>1. OwningCalls'
    BY <1>5 DEF LockTry
  <2>2. HolderKnown'
    BY <1>5 DEF LockTry
  <2>3. HeldIsRecorded'
    BY <1>5 DEF LockTry
  <2>4. OwnerRecordTruthful'
    BY <1>5 DEF LockTry
  <2>5. CallsUseTable' /\ WaitRecordExact'
    BY <1>5 DEF LockTry
  <2> QED
    BY <2>1, <2>2, <2>3, <2>4, <2>5
<1>6. ASSUME NEW t \in Thread, LockBlock(t) PROVE Relations'
  \* As LockTry; arg[t] is in the table still, by CallsUseTable.
  <2>1. OwningCalls'
    BY <1>6 DEF LockBlock
  <2>2. HolderKnown'
    BY <1>6 DEF LockBlock
  <2>3. HeldIsRecorded'
    BY <1>6 DEF LockBlock
  <2>4. OwnerRecordTruthful'
    BY <1>6 DEF LockBlock
  <2>5. CallsUseTable' /\ WaitRecordExact'
    BY <1>6 DEF LockBlock
  <2> QED
    BY <2>1, <2>2, <2>3, <2>4, <2>5
<1>7. ASSUME NEW t \in Thread, LockRefind(t) PROVE Relations'
  BY <1>7 DEF LockRefind
<1>8. ASSUME NEW t \in Thread, LockRecordOwner(t) PROVE Relations'
  \* The new owner has the pthread mutex, so nobody else is recorded.
  <2>1. OwningCalls'
    BY <1>8 DEF LockRecordOwner
  <2>2. HeldIsRecorded'
    BY <1>8 DEF LockRecordOwner
  <2>3. OwnerRecordTruthful'
    BY <1>8 DEF LockRecordOwner
  <2>4. CallsUseTable' /\ HolderKnown' /\ WaitRecordExact'
    BY <1>8 DEF LockRecordOwner
  <2> QED
    BY <2>1, <2>2, <2>3, <2>4
<1>9. ASSUME NEW t \in Thread, LockClearWait(t) PROVE Relations'
  \* What OwningCalls says of "clear" is what HeldIsRecorded asks.
  <2>1. HolderKnown'
    BY <1>9 DEF LockClearWait
  <2>2. WaitRecordExact'
    BY <1>9 DEF LockClearWait
  <2>3. HeldIsRecorded'
    BY <1>9 DEF LockClearWait
  <2>4. CallsUseTable' /\ OwningCalls' /\ OwnerRecordTruthful'
    BY <1>9 DEF LockClearWait
  <2> QED
    BY <2>1, <2>2, <2>3, <2>4
<1>10. ASSUME NEW t \in Thread, NEW m \in Mutex, UnlockClearOwner(t, m) PROVE Relations'
  \* t is the holder of m by HeldIsRecorded, so no other call has it.
  <2>1. OwningCalls'
    BY <1>10 DEF UnlockClearOwner
  <2>2. HolderKnown'
    BY <1>10 DEF UnlockClearOwner
  <2>3. HeldIsRecorded'
    BY <1>10 DEF UnlockClearOwner
  <2>4. CallsUseTable' /\ WaitRecordExact' /\ OwnerRecordTruthful'
    BY <1>10 DEF UnlockClearOwner
  <2> QED
    BY <2>1, <2>2, <2>3, <2>4
<1>11. ASSUME NEW t \in Thread, UnlockRelease(t) PROVE Relations'
  \* The record of arg[t] is empty before its pthread mutex is free.
  <2>1. OwningCalls'
    BY <1>11 DEF UnlockRelease
  <2>2. HolderKnown'
    BY <1>11 DEF UnlockRelease
  <2>3. HeldIsRecorded'
    BY <1>11 DEF UnlockRelease
  <2>4. OwnerRecordTruthful'
    BY <1>11 DEF UnlockRelease
  <2>5. CallsUseTable' /\ WaitRecordExact'
    BY <1>11 DEF UnlockRelease
  <2> QED
    BY <2>1, <2>2, <2>3, <2>4, <2>5
<1>12. ASSUME NEW t \in Thread, NEW m \in Mutex, DestroyRemove(t, m) PROVE Relations'
  \* Nobody uses m: the client is careful.
  <2>1. CallsUseTable'
    BY <1>12 DEF DestroyRemove, Unused
  <2>2. OwningCalls' /\ HolderKnown' /\ WaitRecordExact' /\ HeldIsRecorded' /\ OwnerRecordTruthful'
    BY <1>12 DEF DestroyRemove, Unused
  <2> QED
    BY <2>1, <2>2
<1>13. ASSUME NEW t \in Thread, DestroyFree(t) PROVE Relations'
  BY <1>13 DEF DestroyFree
<1>14. CASE UNCHANGED vars
  BY <1>14 DEF vars
<1> QED
  BY <1>1, <1>2, <1>3, <1>4, <1>5, <1>6, <1>7, <1>8, <1>9, <1>10,
      <1>11, <1>12, <1>13, <1>14 DEF Next, Step, NewCall

(* The inductive invariant holds in every behaviour of clients.    *)
THEOREM Invariance == Spec => []IInv
<1>1. Init => Relations
  BY ThreadAssumption DEF Init, Relations, CallsUseTable, OwningCalls, HolderKnown,
     WaitRecordExact, HeldIsRecorded, OwnerRecordTruthful, InLock, Owning, NoMutex, Mutex
<1>2. TypeOK /\ TypeOK' /\ Relations /\ [Next]_vars => Relations'
  BY RelationsStep
<1>3. TypeOK /\ Relations => IInv
  BY DEF Relations, IInv
<1> QED
  BY <1>1, <1>2, <1>3, TypeCorrect, PTL DEF Spec

-----------------------------------------------------------------------------
(* What the invariant gives.                                               *)

(* minfo->thread names the thread that has the pthread mutex or nobody,    *)
(* and a thread to which iw_mutex_lock has returned true has the mutex and *)
(* is its recorded owner until it unlocks it.                              *)
THEOREM OwnerRecord == Spec => []OwnerRecordExact
<1>1. IInv => OwnerRecordExact
  BY DEF IInv, OwnerRecordExact
<1> QED
  BY <1>1, Invariance, PTL

(* tinfo->mutex is set exactly from the find of iw_mutex_lock to its end.  *)
THEOREM WaitRecord == Spec => []WaitRecordExact
BY Invariance, PTL DEF IInv

(* Two threads blocked on each other's mutexes are linked by the records   *)
(* that iw_thread_deadlock_check follows: the blocked owner is not in the  *)
(* window where it has the mutex and is not recorded (HolderKnown).        *)
THEOREM DeadlockRecord == Spec => []DeadlockIsRecorded
<1>1. IInv => DeadlockIsRecorded
  <2> SUFFICES ASSUME IInv, NEW t \in Thread, NEW u \in Thread, Blocks(t, u)
               PROVE  RecordedEdge(t, u)
    BY DEF DeadlockIsRecorded
  <2> USE DEF IInv, Blocks, At
  <2>1. tinfoMutex[t] = arg[t] /\ arg[t] \in s_mutexes /\ arg[t] \in Mutex
    BY DEF WaitRecordExact, CallsUseTable, InLock, TypeOK
  <2>2. arg[t] \in held[u]
    BY <2>1 DEF HolderKnown, Owning
  <2> QED
    BY <2>1, <2>2 DEF HeldIsRecorded, RecordedEdge
<1> QED
  BY <1>1, Invariance, PTL

-----------------------------------------------------------------------------
(* Refinement.                                                             *)

(* With the mutexes of the table that are not destroyed in use as the set  *)
(* of mutexes, the wrapper implements the mutex API: a mutex is acquired   *)
(* by one thread at a time, where iw_mutex_lock clears the wait record,    *)
(* and released where iw_mutex_unlock clears the owner; a mutex that       *)
(* somebody holds is not destroyed.                                        *)
THEOREM Implementation == Spec => ImplementsMutex
<1> DEFINE exists == s_mutexes \ Eager
           known  == [t \in Thread |-> held[t] \ Eager]
<1>1. Init => Abstract!Init
  BY DEF Init, Abstract!Init
<1>2. ASSUME IInv, [Next]_vars PROVE [Abstract!Next]_<<exists, known>>
  <2> USE <1>2 DEF IInv, tableVars, recordVars, At, Call, Goto, Return
  <2>1. ASSUME NEW t \in Thread, CreateInsert(t)
        PROVE  UNCHANGED <<exists, known>> \/ \E m \in Mutex : Abstract!Create(m)
    <3>1. arg[t] \in Mutex
      BY <2>1 DEF CreateInsert, TypeOK, NoMutex
    <3>2. UNCHANGED known
      BY <2>1 DEF CreateInsert
    <3>3. CASE arg[t] \in s_mutexes \/ arg[t] \in Eager
      <4>1. UNCHANGED exists
        BY <2>1, <3>3 DEF CreateInsert
      <4> QED
        BY <4>1, <3>2
    <3>4. CASE arg[t] \notin s_mutexes /\ arg[t] \notin Eager
      <4>1. exists' = exists \union {arg[t]} /\ arg[t] \notin exists
        BY <2>1, <3>4 DEF CreateInsert
      <4> QED
        BY <3>1, <3>2, <4>1 DEF Abstract!Create
    <3> QED
      BY <3>3, <3>4
  <2>2. ASSUME NEW t \in Thread, LockClearWait(t)
        PROVE  UNCHANGED <<exists, known>> \/ \E m \in Mutex : Abstract!Acquire(t, m)
    <3>1. arg[t] \in Mutex /\ UNCHANGED exists
      BY <2>2 DEF LockClearWait, TypeOK, NoMutex
    <3>2. CASE arg[t] \in Eager
      <4>1. \A u \in Thread : held'[u] \ Eager = held[u] \ Eager
        BY <2>2, <3>2 DEF LockClearWait, TypeOK
      <4> QED
        BY <3>1, <4>1
    <3>3. CASE arg[t] \notin Eager
      <4>1. arg[t] \in exists
        BY <2>2, <3>3 DEF LockClearWait, CallsUseTable, InLock
      <4>2. \A u \in Thread : arg[t] \notin known[u]
        BY <2>2, <3>3 DEF LockClearWait, OwningCalls, Owning, HeldIsRecorded
      <4>3. known' = [known EXCEPT ![t] = @ \union {arg[t]}]
        <5>1. \A u \in Thread : known'[u] =
                IF u = t THEN known[u] \union {arg[t]} ELSE known[u]
          BY <2>2, <3>3 DEF LockClearWait, TypeOK
        <5> QED
          BY <5>1
      <4> QED
        BY <3>1, <4>1, <4>2, <4>3 DEF Abstract!Acquire
    <3> QED
      BY <3>2, <3>3
  <2>3. ASSUME NEW t \in Thread, NEW m \in Mutex, UnlockClearOwner(t, m)
        PROVE  UNCHANGED <<exists, known>> \/ Abstract!Release(t, m)
    <3>1. UNCHANGED exists
      BY <2>3 DEF UnlockClearOwner
    <3>2. \A u \in Thread : known'[u] = IF u = t THEN known[u] \ {m} ELSE known[u]
      BY <2>3 DEF UnlockClearOwner, TypeOK
    <3>3. known' = [known EXCEPT ![t] = @ \ {m}]
      BY <3>2
    <3>4. m \in Eager => UNCHANGED known
      BY <3>2
    <3>5. m \notin Eager => m \in known[t]
      BY <2>3 DEF UnlockClearOwner
    <3> QED
      BY <3>1, <3>3, <3>4, <3>5 DEF Abstract!Release
  <2>4. ASSUME NEW t \in Thread, NEW m \in Mutex, DestroyRemove(t, m)
        PROVE  UNCHANGED <<exists, known>> \/ Abstract!Destroy(m)
    <3>1. UNCHANGED known /\ exists' = exists \ {m}
      BY <2>4 DEF DestroyRemove
    <3>2. CASE m \in Eager
      BY <3>1, <3>2
    <3>3. CASE m \notin Eager
      <4>1. m \in exists /\ \A u \in Thread : m \notin known[u]
        BY <2>4, <3>3 DEF DestroyRemove, Unused
      <4> QED
        BY <3>1, <4>1 DEF Abstract!Destroy
    <3> QED
      BY <3>2, <3>3
  <2>5. ASSUME NEW t \in Thread,
               \/ CreateReadId(t) \/ CreateBumpId(t)
               \/ LockTry(t) \/ LockBlock(t) \/ LockRefind(t) \/ LockRecordOwner(t)
               \/ UnlockRelease(t) \/ DestroyFree(t)
               \/ \E m \in Mutex : LockFind(t, m)
        PROVE  UNCHANGED <<exists, known>>
    BY <2>5 DEF CreateReadId, CreateBumpId, LockTry, LockBlock, LockRefind,
       LockRecordOwner, UnlockRelease, DestroyFree, LockFind
  <2>6. CASE UNCHANGED vars
    BY <2>6 DEF vars
  <2> QED
    BY <2>1, <2>2, <2>3, <2>4, <2>5, <2>6 DEF Next, Step, NewCall, Abstract!Next
<1> QED
  BY <1>1, <1>2, Invariance, PTL DEF Spec, ImplementsMutex, Abstract!Spec

-----------------------------------------------------------------------------
(* The health thread beside them.                                          *)

\* The walk of the health thread is at a thread, and at a mutex when it looks
\* for an owner.
WalkTypes ==
  /\ HealthTypeOK
  /\ hpc \in {"test", "find", "owner"} => thread \in Thread
  /\ hpc = "owner" => minfo \in Mutex

LEMMA WalkStep ==
  ASSUME WalkTypes, HealthStep \/ HealthJoin \/ HealthExit \/ UNCHANGED healthVars, TypeOK'
  PROVE  WalkTypes'
<1> USE DEF WalkTypes, HealthTypeOK, HealthLabels, HealthAt
<1>1. CASE HealthLoop
  BY <1>1 DEF HealthLoop
<1>2. CASE WalkNext
  BY <1>2 DEF WalkNext
<1>3. CASE WalkTest
  BY <1>3 DEF WalkTest, LeaveWalk
<1>4. CASE WalkFindMutex
  BY <1>4 DEF WalkFindMutex, TypeOK
<1>5. CASE WalkFindOwner
  <2>1. minfo \in Mutex /\ minfoThread[minfo] \in Thread \union {NoThread}
    BY <1>5 DEF WalkFindOwner, TypeOK
  <2> QED
    BY <1>5, <2>1 DEF WalkFindOwner, LeaveWalk, WalkOn
<1>6. CASE HealthJoin \/ HealthExit \/ UNCHANGED healthVars
  BY <1>6 DEF HealthJoin, HealthExit, healthVars
<1> QED
  BY <1>1, <1>2, <1>3, <1>4, <1>5, <1>6 DEF HealthStep

LEMMA SystemStep ==
  ASSUME [SystemNext]_allVars
  PROVE  /\ [Next]_vars
         /\ HealthStep \/ HealthJoin \/ HealthExit \/ UNCHANGED healthVars
BY DEF SystemNext, allVars

\* The health thread is no client, so what it watches is what IwMutex allows.
LEMMA SystemIsClients == SystemSpec => Spec
BY SystemStep, PTL DEF SystemSpec, SystemInit, Spec

(* The deadlock check (iw_thread_deadlock_check) disturbs nothing that it  *)
(* looks at: with it the records of the wrapper are as true, and the mutex *)
(* API is implemented, as without it.                                      *)
THEOREM HealthDisturbsNothing ==
  SystemSpec => /\ [](OwnerRecordExact /\ WaitRecordExact)
                /\ []DeadlockIsRecorded
                /\ ImplementsMutex
BY SystemIsClients, OwnerRecord, WaitRecord, DeadlockRecord, Implementation, PTL

(* Whatever the clients change while it runs, the check never follows an   *)
(* owner that is NULL, and looks for an owner in a mutex that was there.   *)
THEOREM WalkKnowsItsPlace == SystemSpec => []WalkTypes
<1>1. SystemInit => WalkTypes
  <2> SUFFICES ASSUME SystemInit PROVE WalkTypes
    OBVIOUS
  <2>1. TypeOK
    BY ThreadAssumption, BoundAssumption DEF SystemInit, Init, TypeOK, Labels, Mutex, NoMutex
  <2> QED
    BY <2>1 DEF SystemInit, HealthInit, WalkTypes, HealthTypeOK, HealthLabels
<1>2. WalkTypes /\ [SystemNext]_allVars => WalkTypes'
  <2> SUFFICES ASSUME WalkTypes, [SystemNext]_allVars PROVE WalkTypes'
    OBVIOUS
  <2>1. TypeOK'
    BY SystemStep, TypeStep DEF WalkTypes, HealthTypeOK
  <2> QED
    BY <2>1, SystemStep, WalkStep
<1> QED
  BY <1>1, <1>2, PTL DEF SystemSpec
=============================================================================
