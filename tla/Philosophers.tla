---------------------------- MODULE Philosophers ----------------------------
(***************************************************************************)
(* The example program examples/philosophers/main.c as the client of the   *)
(* mutex wrapper and the health check.  Philosopher num takes the forks    *)
(* num-1 (its left) and num (its right).  The main thread creates the      *)
(* forks, starts the philosophers, and on termination clears s_keep_going, *)
(* waits for the philosophers, and destroys the forks.                     *)
(*                                                                         *)
(* The calls of the program are the steps of IwHealth, restricted to the   *)
(* order of the program.  The mutex of fork k is the k+1st created.        *)
(* Mutex creation succeeds and the pool of ids is the number of forks.     *)
(***************************************************************************)
EXTENDS IwHealth, Integers

CONSTANTS NumPhilosophers, \* num_philosophers
          CorrectOptions   \* the values of do_correct, the option -c, to look at

ASSUME PhilosophersAssumption ==
  /\ NumPhilosophers \in Nat \ {0}
  /\ MaxMutex = NumPhilosophers
  /\ Thread = 0 .. NumPhilosophers
  /\ CorrectOptions \subseteq BOOLEAN
  /\ Eager = {}

Philosopher == 0 .. NumPhilosophers - 1
Main == NumPhilosophers

VARIABLES do_correct,   \* the option -c
          s_keep_going, \* cleared by main_term
          mainpc,       \* "create", "run", "term" (main_term), "exited"
          ppc,          \* where a philosopher is in philo_take_forks
          forks         \* the mutexes <<fork1, fork2>> of the current meal

philoVars == <<do_correct, s_keep_going, mainpc, ppc, forks>>
philoAll == <<allVars, philoVars>>

PhiloLabels == {"unborn", "loop", "take1", "take2", "drop1", "drop2", "gone"}

PhiloTypeOK ==
  /\ HealthTypeOK
  /\ do_correct \in BOOLEAN
  /\ s_keep_going \in BOOLEAN
  /\ mainpc \in {"create", "run", "term", "exited"}
  /\ ppc \in [Philosopher -> PhiloLabels]
  /\ forks \in [Philosopher -> (Mutex \union {NoMutex}) \X (Mutex \union {NoMutex})]

PhiloInit ==
  /\ SystemInit
  /\ do_correct \in CorrectOptions
  /\ s_keep_going = TRUE
  /\ mainpc = "create"
  /\ ppc = [p \in Philosopher |-> "unborn"]
  /\ forks = [p \in Philosopher |-> <<NoMutex, NoMutex>>]

Left(p)  == IF p > 0 THEN p - 1 ELSE NumPhilosophers - 1
Right(p) == p
MutexOf(fork) == fork + 1

\* Fault: the left fork first, whatever its number.
ForkOrders_LeftFirst(p) ==
  IF do_correct
  THEN {<<MutexOf(Left(p)), MutexOf(Right(p))>>}
  ELSE {<<MutexOf(Left(p)), MutexOf(Right(p))>>, <<MutexOf(Right(p)), MutexOf(Left(p))>>}

\* The order of the two forks: the left one first if it is even, or either.
ForkOrders(p) ==
  LET leftFirst  == <<MutexOf(Left(p)), MutexOf(Right(p))>>
      rightFirst == <<MutexOf(Right(p)), MutexOf(Left(p))>>
  IN IF do_correct
     THEN {IF Left(p) % 2 = 0 THEN leftFirst ELSE rightFirst}
     ELSE {leftFirst, rightFirst}

-----------------------------------------------------------------------------
\* Inside of a call of the mutex wrapper: only iw_mutex.c moves.
InCall(t) == ~At(t, "idle")

CallGoesOn(t) == /\ InCall(t) /\ Step(t)
                 /\ ~(At(t, "bump") /\ At(t, "idle")')
                 /\ UNCHANGED <<healthVars, philoVars>>

PhiloGoto(p, label) == /\ ppc' = [ppc EXCEPT ![p] = label]
                       /\ UNCHANGED <<healthVars, do_correct, s_keep_going, mainpc>>

\* while(s_keep_going) philo_take_forks(num, left, right)
StartMeal(p) ==
  /\ ppc[p] = "loop"
  /\ \/ /\ s_keep_going
        /\ \E order \in ForkOrders(p) : forks' = [forks EXCEPT ![p] = order]
        /\ PhiloGoto(p, "take1")
     \/ /\ ~s_keep_going
        /\ PhiloGoto(p, "gone")
        /\ UNCHANGED forks
  /\ UNCHANGED vars

TakeFork(p) ==
  \/ ppc[p] = "take1" /\ LockFind(p, forks[p][1]) /\ PhiloGoto(p, "take2") /\ UNCHANGED forks
  \/ ppc[p] = "take2" /\ LockFind(p, forks[p][2]) /\ PhiloGoto(p, "drop1") /\ UNCHANGED forks

DropFork(p) ==
  \/ ppc[p] = "drop1" /\ UnlockClearOwner(p, forks[p][1]) /\ PhiloGoto(p, "drop2") /\ UNCHANGED forks
  \/ ppc[p] = "drop2" /\ UnlockClearOwner(p, forks[p][2]) /\ PhiloGoto(p, "loop") /\ UNCHANGED forks

Philo(p) == ~InCall(p) /\ (StartMeal(p) \/ TakeFork(p) \/ DropFork(p))

-----------------------------------------------------------------------------
\* main_callback: the mutexes, then the threads.
MainCreate ==
  /\ mainpc = "create" /\ ~InCall(Main)
  /\ \/ /\ CreateReadId(Main)
        /\ UNCHANGED philoVars
     \/ /\ s_mutexes = Mutex
        /\ ppc' = [p \in Philosopher |-> "loop"]
        /\ mainpc' = "run"
        /\ UNCHANGED <<vars, do_correct, s_keep_going, forks>>
  /\ UNCHANGED healthVars

\* main_term clears the flag and waits for all the philosophers ...
MainTerm ==
  /\ mainpc = "run"
  /\ mainpc' = "term"
  /\ s_keep_going' = FALSE
  /\ UNCHANGED <<allVars, do_correct, ppc, forks>>

\* ... destroys the mutexes one by one, and leaves the program to iw_exit.
MainDestroy ==
  /\ mainpc = "term" /\ ~InCall(Main)
  /\ \A p \in Philosopher : ppc[p] = "gone"
  /\ \/ /\ \E m \in s_mutexes : DestroyRemove(Main, m)
        /\ UNCHANGED philoVars
     \/ /\ s_mutexes = {}
        /\ mainpc' = "exited"
        /\ UNCHANGED <<vars, do_correct, s_keep_going, ppc, forks>>
  /\ UNCHANGED healthVars

MainStep == MainCreate \/ MainDestroy

MainExit == mainpc = "exited" /\ HealthExit /\ UNCHANGED <<vars, philoVars>>

PhiloNext ==
  \/ \E t \in Thread : CallGoesOn(t)
  \/ \E p \in Philosopher : Philo(p)
  \/ MainStep \/ MainTerm \/ MainExit
  \/ (HealthStep \/ HealthJoin) /\ UNCHANGED <<vars, philoVars>>

PhiloSpec == PhiloInit /\ [][PhiloNext]_philoAll

\* Every thread runs.  When the program is told to terminate is not known.
PhiloFairSpec ==
  /\ PhiloSpec
  /\ \A t \in Thread : WF_philoAll(CallGoesOn(t))
  /\ \A p \in Philosopher : WF_philoAll(Philo(p))
  /\ WF_philoAll(MainStep) /\ WF_philoAll(MainExit)
  /\ WF_philoAll((HealthStep \/ HealthJoin) /\ UNCHANGED <<vars, philoVars>>)

-----------------------------------------------------------------------------
(* Properties.                                                             *)

(* Two philosophers that eat (have both forks) are not neighbours: they    *)
(* have no fork in common.                                                 *)
Eating(p) == {forks[p][1], forks[p][2]} \subseteq held[p] /\ ppc[p] = "drop1"
EatersShareNoFork ==
  \A p, q \in Philosopher : p # q /\ Eating(p) /\ Eating(q) =>
    {forks[p][1], forks[p][2]} \intersect {forks[q][1], forks[q][2]} = {}

(* With -c the philosophers never deadlock: the shared forks are taken in  *)
(* the same order by their two neighbours.                                 *)
NoDeadlock == do_correct => ~Deadlocked


(* Termination: with -c, main_term joins the philosophers, destroys the    *)
(* forks, and the program gets to the end of iw_health_exit.               *)
TerminationCompletes == do_correct /\ mainpc = "term" ~> exiting = "done"
=============================================================================
