------------------------------ MODULE IwHealth ------------------------------
(***************************************************************************)
(* The health thread (src/src/iw_health.c) and its deadlock check          *)
(* (iw_thread_deadlock_check in src/src/iw_thread.c), run beside threads   *)
(* that lock and unlock mutexes.  The check walks from a thread to the     *)
(* owner of the mutex it waits for and so on; it holds the lock of the     *)
(* thread table but not s_mtx_lock, so the records change under its feet:  *)
(* every read of a record is a step.                                       *)
(***************************************************************************)
EXTENDS IwMutex

VARIABLES
  s_health_go,   \* cleared by iw_health_exit
  exiting,       \* where iw_health_exit is: "no", "join" or "done"
  hpc,           \* where the health thread is
  todo,          \* the threads the outer loop has still to start from
  curr,          \* the thread the walk started from
  thread,        \* the thread the walk has reached
  minfo,         \* the mutex the walk has found
  logging,       \* the parameter log of the check
  alarm          \* "Deadlock detected!" was printed

healthVars == <<s_health_go, exiting, hpc, todo, curr, thread, minfo, logging, alarm>>
allVars == <<vars, healthVars>>

HealthLabels == {"loop", "next", "test", "find", "owner", "end"}

HealthTypeOK ==
  /\ TypeOK
  /\ s_health_go \in BOOLEAN /\ logging \in BOOLEAN /\ alarm \in BOOLEAN
  /\ exiting \in {"no", "join", "done"}
  /\ hpc \in HealthLabels
  /\ todo \subseteq Thread
  /\ curr \in Thread \union {NoThread}
  /\ thread \in Thread \union {NoThread}
  /\ minfo \in Mutex \union {NoMutex}

HealthInit ==
  /\ s_health_go = TRUE
  /\ exiting = "no"
  /\ hpc = "loop"
  /\ todo = {}
  /\ curr = NoThread
  /\ thread = NoThread
  /\ minfo = NoMutex
  /\ logging = FALSE
  /\ alarm = FALSE

-----------------------------------------------------------------------------
HealthAt(label) == hpc = label

\* Fault: the flag is not looked at.
HealthLoop_NoFlag ==
  /\ HealthAt("loop")
  /\ hpc' = "next" /\ todo' = Thread
  /\ UNCHANGED <<s_health_go, exiting, curr, thread, minfo, logging, alarm>>

\* while(s_health_go): the thread returns, or a silent check begins.
HealthLoop ==
  /\ HealthAt("loop")
  /\ IF s_health_go THEN hpc' = "next" /\ todo' = Thread
                    ELSE hpc' = "end" /\ UNCHANGED todo
  /\ UNCHANGED <<s_health_go, exiting, curr, thread, minfo, logging, alarm>>

\* The walk from curr is over; its variables go out of scope.
LeaveWalk == /\ hpc' = "next"
             /\ curr' = NoThread /\ thread' = NoThread /\ minfo' = NoMutex

\* The outer loop takes the next thread, in the order of the hash table,
\* which is arbitrary; or the check is over and has found nothing.
WalkNext ==
  /\ HealthAt("next")
  /\ \/ \E t \in todo : /\ todo' = todo \ {t}
                        /\ curr' = t /\ thread' = t
                        /\ hpc' = "test"
     \/ /\ todo = {}
        /\ hpc' = IF logging THEN "end" ELSE "loop"
        /\ UNCHANGED <<todo, curr, thread>>
  /\ UNCHANGED <<s_health_go, exiting, minfo, logging, alarm>>

\* while(thread != NULL && thread->mutex != 0)
WalkTest ==
  /\ HealthAt("test")
  /\ \/ tinfoMutex[thread] = NoMutex /\ LeaveWalk
     \/ /\ tinfoMutex[thread] # NoMutex
        /\ hpc' = "find"
        /\ UNCHANGED <<curr, thread, minfo>>
  /\ UNCHANGED <<s_health_go, exiting, todo, logging, alarm>>

\* thread->mutex is read again, and looked up; "continue" when it is gone.
WalkFindMutex ==
  /\ HealthAt("find")
  /\ \/ /\ tinfoMutex[thread] \in s_mutexes
        /\ minfo' = tinfoMutex[thread]
        /\ hpc' = "owner"
     \/ /\ tinfoMutex[thread] \notin s_mutexes
        /\ hpc' = "test"
        /\ UNCHANGED minfo
  /\ UNCHANGED <<s_health_go, exiting, todo, curr, thread, logging, alarm>>

\* The owner is another thread, to go on from.
WalkOn(owner) == /\ thread' = owner /\ minfo' = NoMutex
                 /\ hpc' = "test"
                 /\ UNCHANGED <<todo, curr, logging, alarm>>


\* The owner: none, the thread of the start (the check returns true: it is
\* printed, and a second check that logs begins, after which the health
\* thread returns), or another thread.
WalkFindOwner ==
  /\ HealthAt("owner")
  /\ \/ /\ minfoThread[minfo] = NoThread
        /\ LeaveWalk
        /\ UNCHANGED <<todo, logging, alarm>>
     \/ /\ minfoThread[minfo] = curr
        /\ IF logging
           THEN hpc' = "end" /\ UNCHANGED <<todo, curr, thread, minfo>>
           ELSE LeaveWalk /\ todo' = Thread
        /\ logging' = TRUE
        /\ alarm' = TRUE
     \/ minfoThread[minfo] \notin {NoThread, curr} /\ WalkOn(minfoThread[minfo])
  /\ UNCHANGED <<s_health_go, exiting>>

\* iw_health_exit: the flag is cleared ...
HealthExit ==
  /\ exiting = "no"
  /\ exiting' = "join"
  /\ s_health_go' = FALSE
  /\ UNCHANGED <<hpc, todo, curr, thread, minfo, logging, alarm>>

\* ... and pthread_join waits for the health thread.
HealthJoin ==
  /\ exiting = "join"
  /\ HealthAt("end")
  /\ exiting' = "done"
  /\ UNCHANGED <<s_health_go, hpc, todo, curr, thread, minfo, logging, alarm>>

HealthStep == HealthLoop \/ WalkNext \/ WalkTest \/ WalkFindMutex \/ WalkFindOwner

-----------------------------------------------------------------------------
\* iw_exit runs after iw_thread_wait_all has joined the client threads, so
\* from then on no thread is inside of a call or makes one.
Joined == exiting # "no"
NoCalls == \A t \in Thread : At(t, "idle")

SystemInit == Init /\ HealthInit

SystemNext ==
  \/ ~Joined /\ Next /\ UNCHANGED healthVars
  \/ HealthStep /\ UNCHANGED vars
  \/ NoCalls /\ HealthExit /\ UNCHANGED vars
  \/ HealthJoin /\ UNCHANGED vars

SystemSpec == SystemInit /\ [][SystemNext]_allVars

FairSystem ==
  /\ SystemSpec
  /\ \A t \in Thread : WF_allVars(Step(t) /\ UNCHANGED healthVars)
  /\ WF_allVars(HealthStep /\ UNCHANGED vars)
  /\ WF_allVars(HealthJoin /\ UNCHANGED vars)

-----------------------------------------------------------------------------
(* Properties.                                                             *)

\* S is made of cycles of threads each of which waits for the next for good.
Cyclic(S) ==
  /\ S # {}
  /\ \A t \in S : At(t, "blocked")
  /\ {holder[arg[t]] : t \in S} = S
Deadlocked == \E S \in SUBSET Thread : Cyclic(S)

(* A deadlock that is there is reported (README: "If a cyclical dependency *)
(* is detected, a notification is printed").                               *)
DeadlockReported == Deadlocked ~> alarm
=============================================================================
