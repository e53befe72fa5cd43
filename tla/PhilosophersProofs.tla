------------------------- MODULE PhilosophersProofs -------------------------
(***************************************************************************)
(* Theorems about the philosophers program, for every number of them: the  *)
(* program is a careful client of the mutex wrapper, so the invariant of   *)
(* IwMutexProofs holds in it; with -c and two or more philosophers the     *)
(* forks are taken in ascending rank, and the three ranks are too few for  *)
(* a cycle of waiting philosophers.                                        *)
(***************************************************************************)
EXTENDS Philosophers, IwMutexProofs

-----------------------------------------------------------------------------
(* The program as a client.                                                *)

(* Every step of the program is a step of the mutex wrapper or leaves its  *)
(* state alone.                                                            *)
LEMMA ClientStep ==
  ASSUME TypeOK, [PhiloNext]_philoAll
  PROVE  [Next]_vars
<1> USE PhilosophersAssumption DEF Philosopher, Main
<1>1. ASSUME NEW t \in Thread, CallGoesOn(t) PROVE Next
  BY <1>1 DEF CallGoesOn, Next
<1>2. ASSUME NEW p \in Philosopher, Philo(p) PROVE [Next]_vars
  <2>1. p \in Thread
    OBVIOUS
  <2>2. CASE StartMeal(p)
    BY <2>2 DEF StartMeal
  <2>3. CASE TakeFork(p) \/ DropFork(p)
    <3>1. \E m \in Mutex : LockFind(p, m) \/ UnlockClearOwner(p, m)
      BY <2>3 DEF TakeFork, DropFork, LockFind, UnlockClearOwner, TypeOK
    <3> QED
      BY <2>1, <3>1 DEF Next, NewCall
  <2> QED
    BY <1>2, <2>2, <2>3 DEF Philo
<1>3. CASE MainStep
  <2>1. Main \in Thread
    OBVIOUS
  <2> QED
    BY <1>3, <2>1 DEF MainStep, MainCreate, MainDestroy, Next, NewCall, TypeOK, DestroyRemove
<1>4. CASE MainTerm \/ MainExit \/ UNCHANGED philoAll
            \/ ((HealthStep \/ HealthJoin) /\ UNCHANGED <<vars, philoVars>>)
  BY <1>4 DEF MainTerm, MainExit, philoAll, allVars
<1> QED
  BY <1>1, <1>2, <1>3, <1>4 DEF PhiloNext

(* The mutex invariant holds in the program.                               *)
LEMMA ClientInvariance == PhiloSpec => []IInv
<1>1. PhiloInit => Init
  BY DEF PhiloInit, SystemInit
<1>2. Init => TypeOK
  BY ThreadAssumption, BoundAssumption DEF Init, TypeOK, Labels, Mutex, NoMutex
<1>3. TypeOK /\ [PhiloNext]_philoAll => TypeOK' /\ [Next]_vars
  BY ClientStep, TypeStep
<1>4. PhiloSpec => Spec
  BY <1>1, <1>2, <1>3, PTL DEF PhiloSpec, Spec
<1>5. Eager = {}
  BY PhilosophersAssumption, EagerAssumption
<1> QED
  BY <1>4, <1>5, Invariance, PTL

-----------------------------------------------------------------------------
(* The types.                                                              *)

\* What a step does to the program and to the health thread.
LEMMA WhoMoves ==
  ASSUME [PhiloNext]_philoAll
  PROVE  HealthStep \/ HealthJoin \/ HealthExit \/ UNCHANGED healthVars
<1>1. ASSUME NEW p \in Philosopher, Philo(p) PROVE UNCHANGED healthVars
  BY <1>1 DEF Philo, StartMeal, TakeFork, DropFork, PhiloGoto
<1>2. CASE MainStep \/ MainTerm \/ MainExit \/ UNCHANGED philoAll
  BY <1>2 DEF MainStep, MainCreate, MainDestroy, MainTerm, MainExit, philoAll, allVars
<1> QED
  BY <1>1, <1>2 DEF PhiloNext, CallGoesOn

LEMMA PhiloTypeStep ==
  ASSUME PhiloTypeOK, WalkTypes, [PhiloNext]_philoAll
  PROVE  PhiloTypeOK' /\ WalkTypes'
<1>1. TypeOK' /\ WalkTypes'
  BY ClientStep, TypeStep, WhoMoves, WalkStep DEF WalkTypes, HealthTypeOK
<1>2. UNCHANGED philoVars => PhiloTypeOK'
  BY <1>1 DEF philoVars, PhiloTypeOK, WalkTypes
<1>3. ASSUME NEW p \in Philosopher, Philo(p) PROVE PhiloTypeOK'
  <2>1. ForkOrders(p) \subseteq (Mutex \union {NoMutex}) \X (Mutex \union {NoMutex})
    BY PhilosophersAssumption DEF ForkOrders, MutexOf, Left, Right, Mutex, Philosopher
  <2>2. forks' \in [Philosopher -> (Mutex \union {NoMutex}) \X (Mutex \union {NoMutex})]
    BY <1>3, <2>1 DEF Philo, StartMeal, TakeFork, DropFork, PhiloTypeOK
  <2> QED
    BY <1>1, <1>3, <2>2 DEF Philo, StartMeal, TakeFork, DropFork, PhiloGoto, PhiloTypeOK,
       PhiloLabels, WalkTypes
<1>4. CASE MainStep \/ MainTerm \/ MainExit
  BY <1>1, <1>2, <1>4 DEF MainStep, MainCreate, MainDestroy, MainTerm, MainExit, PhiloTypeOK,
     PhiloLabels, WalkTypes
<1> QED
  BY <1>1, <1>2, <1>3, <1>4 DEF PhiloNext, CallGoesOn, philoAll

(* The variables of the program, of the wrapper and of the health thread   *)
(* keep their types, and the walk of the deadlock check always stands at a *)
(* thread, although the records it follows change under its feet.          *)
THEOREM PhiloTypes == PhiloSpec => []PhiloTypeOK
<1>1. PhiloInit => PhiloTypeOK /\ WalkTypes
  <2> SUFFICES ASSUME PhiloInit PROVE PhiloTypeOK /\ WalkTypes
    OBVIOUS
  <2>1. TypeOK
    BY ThreadAssumption, BoundAssumption DEF PhiloInit, SystemInit, Init, TypeOK, Labels, Mutex, NoMutex
  <2>2. HealthTypeOK /\ hpc = "loop"
    BY <2>1 DEF PhiloInit, SystemInit, HealthInit, HealthTypeOK, HealthLabels
  <2> QED
    BY <2>2, PhilosophersAssumption DEF PhiloInit, PhiloTypeOK, PhiloLabels, WalkTypes
<1> QED
  BY <1>1, PhiloTypeStep, PTL DEF PhiloSpec

-----------------------------------------------------------------------------
(* Eating.                                                                 *)

(* Two philosophers never have a fork in common, for every number of them  *)
(* and with or without -c.                                                 *)
THEOREM Exclusion == PhiloSpec => []EatersShareNoFork
<1>1. IInv => EatersShareNoFork
  <2> SUFFICES ASSUME IInv, NEW p \in Philosopher, NEW q \in Philosopher, p # q,
                      NEW m \in held[p], m \in held[q]
               PROVE  FALSE
    BY DEF EatersShareNoFork, Eating
  <2>1. p \in Thread /\ q \in Thread
    BY PhilosophersAssumption DEF Philosopher
  <2>2. m \notin Eager
    BY PhilosophersAssumption, EagerAssumption
  <2>3. holder[m] = p /\ holder[m] = q
    BY <2>1, <2>2 DEF IInv, HeldIsRecorded
  <2> QED
    BY <2>3
<1> QED
  BY <1>1, ClientInvariance, PTL

-----------------------------------------------------------------------------
(* Where a philosopher is, and what it holds there.                        *)

Place(p) ==
  LET f == forks[p]
  IN /\ ppc[p] \in PhiloLabels
     /\ ppc[p] \in {"take1", "take2", "drop1", "drop2"} => f \in ForkOrders(p)
     /\ ppc[p] \in {"unborn", "take1"} => pc[p] = "idle" /\ held[p] = {}
     /\ ppc[p] \in {"loop", "gone"} => pc[p] \in {"idle", "unlock"} /\ held[p] = {}
     /\ ppc[p] = "take2" => \/ pc[p] \in InLock /\ arg[p] = f[1] /\ held[p] = {}
                            \/ pc[p] = "idle" /\ held[p] = {f[1]}
     /\ ppc[p] = "drop1" => \/ pc[p] \in InLock /\ arg[p] = f[2] /\ held[p] = {f[1]}
                            \/ pc[p] = "idle" /\ held[p] = {f[1], f[2]}
     /\ ppc[p] = "drop2" => pc[p] \in {"idle", "unlock"} /\ held[p] = {f[2]}

\* The main thread locks nothing.
MainPlace == pc[Main] \in {"idle", "bump", "insert", "free"}

\* The philosophers begin when the forks are there.
Unstarted == mainpc = "create" => \A p \in Philosopher : ppc[p] = "unborn"

Functions == /\ ppc = [p \in Philosopher |-> ppc[p]]
             /\ forks = [p \in Philosopher |-> forks[p]]

Places == /\ Functions /\ Unstarted /\ MainPlace
          /\ \A p \in Philosopher : Place(p)

\* What a step of another thread leaves of philosopher p.
Untouched(p) == /\ UNCHANGED <<do_correct, pc[p], held[p], ppc[p], forks[p]>>
                /\ pc[p] # "idle" => UNCHANGED arg[p]

LEMMA UntouchedKeeps ==
  ASSUME NEW p \in Philosopher, Place(p), Untouched(p)
  PROVE  Place(p)'
<1> USE DEF Place, Untouched, InLock
<1>1. ForkOrders(p)' = ForkOrders(p)
  BY DEF ForkOrders
<1> QED
  BY <1>1

(* A call that goes on keeps the place of its thread: iw_mutex_lock ends   *)
(* with the fork in held, as its mutex is in the table (CallsUseTable).    *)
LEMMA CallKeepsPlace ==
  ASSUME TypeOK, CallsUseTable, NEW p \in Philosopher, Place(p), CallGoesOn(p)
  PROVE  Place(p)'
<1> USE PhilosophersAssumption DEF Philosopher, TypeOK, Place, CallGoesOn, philoVars,
        At, Goto, Return, InLock
<1>1. ForkOrders(p)' = ForkOrders(p)
  BY DEF ForkOrders
<1>2. CASE LockTry(p) \/ LockBlock(p) \/ LockRecordOwner(p)
  BY <1>1, <1>2 DEF LockTry, LockBlock, LockRecordOwner
<1>3. CASE LockRefind(p)
  BY <1>1, <1>3 DEF LockRefind, CallsUseTable
<1>4. CASE LockClearWait(p)
  BY <1>1, <1>4 DEF LockClearWait
<1>5. CASE UnlockRelease(p)
  BY <1>1, <1>5 DEF UnlockRelease
<1>6. CASE CreateBumpId(p) \/ CreateInsert(p) \/ DestroyFree(p)
  BY <1>1, <1>6 DEF CreateBumpId, CreateInsert, DestroyFree, PhiloLabels
<1> QED
  BY <1>2, <1>3, <1>4, <1>5, <1>6 DEF Step

LEMMA StepTouchesOne ==
  ASSUME TypeOK, NEW t \in Thread, Step(t), NEW u \in Thread, u # t
  PROVE  UNCHANGED <<pc[u], held[u], arg[u]>>
BY DEF TypeOK, Step, At, Goto, Return, CreateBumpId, CreateInsert, LockTry, LockBlock,
   LockRefind, LockRecordOwner, LockClearWait, UnlockRelease, DestroyFree

\* With two or more philosophers the forks of a meal are two.
LEMMA TwoForks ==
  ASSUME NumPhilosophers >= 2, NEW p \in Philosopher, NEW f \in ForkOrders(p)
  PROVE  f[1] # f[2]
<1> USE PhilosophersAssumption DEF Philosopher, MutexOf, Left, Right
<1>1. MutexOf(Left(p)) # MutexOf(Right(p))
  OBVIOUS
<1>2. \/ f = <<MutexOf(Left(p)), MutexOf(Right(p))>>
      \/ f = <<MutexOf(Right(p)), MutexOf(Left(p))>>
  BY DEF ForkOrders
<1> HIDE DEF MutexOf, Left, Right
<1> QED
  BY <1>1, <1>2

LEMMA PlacesStep ==
  ASSUME NumPhilosophers >= 2, TypeOK, CallsUseTable, Places, [PhiloNext]_philoAll
  PROVE  Places'
<1> USE PhilosophersAssumption DEF Philosopher, Main, Places
<1>1. ASSUME NEW t \in Thread, CallGoesOn(t) PROVE Places'
  <2>1. ASSUME NEW p \in Philosopher, p # t PROVE Place(p)'
    <3>1. Untouched(p)
      BY <1>1, <2>1, StepTouchesOne DEF CallGoesOn, philoVars, Untouched
    <3> QED
      BY <3>1, UntouchedKeeps
  <2>2. t \in Philosopher => Place(t)'
    BY <1>1, CallKeepsPlace
  <2>3. MainPlace'
    <3>1. CASE t = Main
      BY <1>1, <3>1 DEF MainPlace, CallGoesOn, Step, TypeOK, At, Goto, Return, CreateBumpId,
         CreateInsert, LockTry, LockBlock, LockRefind, LockRecordOwner, LockClearWait,
         UnlockRelease, DestroyFree
    <3>2. CASE t # Main
      BY <1>1, <3>2, StepTouchesOne DEF MainPlace, CallGoesOn
    <3> QED
      BY <3>1, <3>2
  <2>4. (Functions /\ Unstarted)'
    BY <1>1 DEF CallGoesOn, philoVars, Functions, Unstarted
  <2> QED
    BY <2>1, <2>2, <2>3, <2>4
<1>2. ASSUME NEW p \in Philosopher, Philo(p) PROVE Places'
  <2> USE <1>2 DEF Philo, PhiloGoto, Functions, TypeOK, InCall, At
  <2>1. (Functions /\ Unstarted)'
    BY DEF StartMeal, TakeFork, DropFork, Unstarted
  <2>2. MainPlace' /\ \A q \in Philosopher : q # p => Untouched(q)
    BY SMTT(20) DEF StartMeal, TakeFork, DropFork, LockFind, UnlockClearOwner, Call,
       MainPlace, Untouched, vars
  <2>3. Place(p)'
    <3> USE DEF Place, PhiloLabels
    <3>1. ForkOrders(p)' = ForkOrders(p)
      BY DEF ForkOrders, StartMeal, TakeFork, DropFork
    <3>2. CASE StartMeal(p)
      BY <3>1, <3>2 DEF StartMeal, vars, InLock
    <3>3. CASE TakeFork(p)
      <4>1. pc'[p] = "trylock" /\ held'[p] = held[p] /\ forks' = forks
        BY <3>3 DEF TakeFork, LockFind, Call
      <4>2. CASE ppc[p] = "take1"
        <5>1. ppc'[p] = "take2" /\ arg'[p] = forks[p][1]
          BY <3>3, <4>2 DEF TakeFork, LockFind, Call
        <5> QED
          BY <3>1, <4>1, <4>2, <5>1 DEF InLock
      <4>3. CASE ppc[p] = "take2"
        <5>1. ppc'[p] = "drop1" /\ arg'[p] = forks[p][2]
          BY <3>3, <4>3 DEF TakeFork, LockFind, Call
        <5> QED
          BY <3>1, <4>1, <4>3, <5>1 DEF InLock
      <4> QED
        BY <3>3, <4>2, <4>3 DEF TakeFork
    <3>4. CASE DropFork(p)
      <4>1. pc'[p] = "unlock" /\ pc[p] = "idle" /\ forks' = forks
        BY <3>4 DEF DropFork, UnlockClearOwner, Call
      <4>2. CASE ppc[p] = "drop1"
        <5>1. ppc'[p] = "drop2" /\ held'[p] = held[p] \ {forks[p][1]}
          BY <3>4, <4>2 DEF DropFork, UnlockClearOwner
        <5>2. held[p] = {forks[p][1], forks[p][2]} /\ forks[p] \in ForkOrders(p)
          BY <4>1, <4>2 DEF InLock
        <5>3. held'[p] = {forks[p][2]}
          BY <5>1, <5>2, TwoForks
        <5> QED
          BY <3>1, <4>1, <5>1, <5>2, <5>3
      <4>3. CASE ppc[p] = "drop2"
        <5>1. ppc'[p] = "loop" /\ held'[p] = held[p] \ {forks[p][2]}
          BY <3>4, <4>3 DEF DropFork, UnlockClearOwner
        <5>2. held'[p] = {}
          BY <4>1, <4>3, <5>1
        <5> QED
          BY <3>1, <4>1, <5>1, <5>2
      <4> QED
        BY <3>4, <4>2, <4>3 DEF DropFork
    <3> QED
      BY <3>2, <3>3, <3>4
  <2> QED
    BY <2>1, <2>2, <2>3, UntouchedKeeps
<1>3. CASE MainCreate
  <2>1. CASE CreateReadId(Main) /\ UNCHANGED philoVars
    <3>1. \A p \in Philosopher : Untouched(p)
      BY <2>1 DEF CreateReadId, Call, TypeOK, Untouched, philoVars
    <3>2. (MainPlace /\ Functions /\ Unstarted)'
      BY <2>1 DEF CreateReadId, Call, TypeOK, MainPlace, Functions, Unstarted, philoVars
    <3> QED
      BY <3>1, <3>2, UntouchedKeeps
  <2>2. CASE /\ UNCHANGED <<vars, do_correct, s_keep_going, forks>>
             /\ mainpc' = "run"
             /\ ppc' = [p \in Philosopher |-> "loop"]
    <3>1. \A p \in Philosopher : ppc[p] = "unborn"
      BY <1>3 DEF MainCreate, Unstarted
    <3> QED
      BY <2>2, <3>1 DEF MainPlace, Functions, Unstarted, Place, PhiloLabels, vars
  <2> QED
    BY <1>3, <2>1, <2>2 DEF MainCreate
<1>4. CASE MainDestroy
  <2>1. CASE (\E m \in s_mutexes : DestroyRemove(Main, m)) /\ UNCHANGED philoVars
    <3>1. \A p \in Philosopher : Untouched(p)
      BY <2>1 DEF DestroyRemove, Call, TypeOK, Untouched, philoVars
    <3>2. (MainPlace /\ Functions /\ Unstarted)'
      BY <2>1 DEF DestroyRemove, Call, TypeOK, MainPlace, Functions, Unstarted, philoVars
    <3> QED
      BY <3>1, <3>2, UntouchedKeeps
  <2>2. CASE UNCHANGED <<vars, do_correct, s_keep_going, ppc, forks>> /\ mainpc' = "exited"
    BY <2>2, UntouchedKeeps DEF MainPlace, Functions, Unstarted, Untouched, vars
  <2> QED
    BY <1>4, <2>1, <2>2 DEF MainDestroy
<1>5. CASE MainTerm
  BY <1>5, UntouchedKeeps DEF MainTerm, MainPlace, Functions, Unstarted, Untouched, allVars, vars
<1>6. CASE \/ MainExit \/ UNCHANGED philoAll
           \/ (HealthStep \/ HealthJoin) /\ UNCHANGED <<vars, philoVars>>
  <2>1. UNCHANGED <<vars, philoVars>>
    BY <1>6 DEF MainExit, philoAll, allVars
  <2> QED
    BY <2>1, UntouchedKeeps DEF MainPlace, Functions, Unstarted, Untouched, philoVars, vars
<1> QED
  BY <1>1, <1>2, <1>3, <1>4, <1>5, <1>6 DEF PhiloNext, MainStep

(* A philosopher has the forks and is in the call that its place says.     *)
LEMMA PlacesInvariance ==
  ASSUME NumPhilosophers >= 2
  PROVE  PhiloSpec => [](IInv /\ Places)
<1>1. PhiloInit => Places
  BY PhilosophersAssumption DEF PhiloInit, SystemInit, Init, Places, Functions, Unstarted,
     MainPlace, Place, PhiloLabels, Philosopher, Main
<1>2. IInv /\ Places /\ [PhiloNext]_philoAll => Places'
  BY PlacesStep DEF IInv
<1> QED
  BY <1>1, <1>2, ClientInvariance, PTL DEF PhiloSpec

-----------------------------------------------------------------------------
(* No deadlock.                                                            *)

\* The fork a philosopher takes first has a lower rank than the second:
\* even before odd, and 0, whose left neighbour may be even too, last.
Rank(m) == IF (m - 1) % 2 = 1 THEN 3 ELSE IF m = 1 THEN 2 ELSE 1

LEMMA AscendingForks ==
  ASSUME NumPhilosophers >= 2, do_correct = TRUE,
         NEW p \in Philosopher, NEW f \in ForkOrders(p)
  PROVE  /\ Rank(f[1]) \in 1 .. 3 /\ Rank(f[2]) \in 1 .. 3
         /\ Rank(f[1]) < Rank(f[2])
<1> USE PhilosophersAssumption DEF Philosopher, Rank, MutexOf, Left, Right
<1>1. CASE Left(p) % 2 = 0
  <2>1. f = <<MutexOf(Left(p)), MutexOf(Right(p))>>
    BY <1>1 DEF ForkOrders
  <2> QED
    BY <1>1, <2>1
<1>2. CASE Left(p) % 2 # 0
  <2>1. f = <<MutexOf(Right(p)), MutexOf(Left(p))>>
    BY <1>2 DEF ForkOrders
  <2> QED
    BY <1>2, <2>1
<1> QED
  BY <1>1, <1>2

\* A member of a cycle holds its first fork, waits for its second, and
\* another member waits for the one it holds.
LEMMA CycleMember ==
  ASSUME IInv, Places, NEW S \in SUBSET Thread, Cyclic(S), NEW t \in S
  PROVE  /\ t \in Philosopher /\ forks[t] \in ForkOrders(t)
         /\ \E u \in S : forks[u][2] = forks[t][1]
<1> USE PhilosophersAssumption DEF Philosopher, Main, At
<1>1. \A u \in S : u \in Philosopher /\ Place(u) /\ pc[u] = "blocked"
  <2>1. \A u \in S : u \in Thread /\ pc[u] = "blocked"
    BY DEF Cyclic
  <2>2. pc[NumPhilosophers] # "blocked"
    BY DEF Places, MainPlace
  <2> QED
    BY <2>1, <2>2 DEF Places
<1>2. ASSUME NEW u \in S
      PROVE  \E w \in S : holder[arg[w]] = u /\ arg[w] \in held[u]
  <2>1. PICK w \in S : holder[arg[w]] = u
    BY DEF Cyclic
  <2>2. arg[w] \in s_mutexes
    BY <1>1 DEF IInv, CallsUseTable, InLock
  <2> QED
    BY <1>1, <2>1, <2>2 DEF IInv, HolderKnown, Owning
<1>3. ASSUME NEW u \in S
      PROVE  ppc[u] = "drop1" /\ arg[u] = forks[u][2] /\ held[u] = {forks[u][1]}
  <2>1. held[u] # {} /\ pc[u] = "blocked" /\ Place(u)
    BY <1>1, <1>2
  <2> QED
    BY <2>1 DEF Place, PhiloLabels, InLock
<1>4. PICK u \in S : holder[arg[u]] = t /\ arg[u] \in held[t]
  BY <1>2
<1>5. arg[u] = forks[u][2] /\ held[t] = {forks[t][1]} /\ ppc[t] = "drop1" /\ Place(t)
  BY <1>1, <1>3
<1>6. forks[u][2] = forks[t][1]
  BY <1>4, <1>5
<1> QED
  BY <1>1, <1>5, <1>6 DEF Place

(* With -c and two or more philosophers there is no deadlock: along a      *)
(* cycle of waiting philosophers the rank of the fork held would go up     *)
(* with every step, and there are three ranks.                             *)
THEOREM DeadlockFreedom == ASSUME NumPhilosophers >= 2 PROVE PhiloSpec => []NoDeadlock
<1>1. IInv /\ Places => NoDeadlock
  <2> SUFFICES ASSUME IInv, Places, do_correct, NEW S \in SUBSET Thread, Cyclic(S)
               PROVE  FALSE
    BY DEF NoDeadlock, Deadlocked
  <2> DEFINE held1(t) == Rank(forks[t][1])
             wants(t) == Rank(forks[t][2])
  <2>1. ASSUME NEW t \in S
        PROVE  /\ held1(t) \in 1 .. 3 /\ wants(t) \in 1 .. 3 /\ held1(t) < wants(t)
               /\ \E u \in S : wants(u) = held1(t)
    BY <2>1, CycleMember, AscendingForks
  <2> HIDE DEF held1, wants
  <2>2. PICK t \in S : TRUE
    BY DEF Cyclic
  <2>3. PICK u \in S : wants(u) = held1(t)
    BY <2>1
  <2>4. PICK v \in S : wants(v) = held1(u)
    BY <2>1
  <2>5. held1(v) < wants(v) /\ held1(u) < wants(u) /\ held1(t) < wants(t)
        /\ held1(v) \in 1 .. 3 /\ wants(t) \in 1 .. 3 /\ held1(u) \in 1 .. 3 /\ held1(t) \in 1 .. 3
    BY <2>1
  <2> QED
    BY <2>3, <2>4, <2>5
<1> QED
  BY <1>1, PlacesInvariance, PTL
=============================================================================
