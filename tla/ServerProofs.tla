---------------------------- MODULE ServerProofs ----------------------------
(***************************************************************************)
(* Proofs about three parts of a server that share no state: its end       *)
(* (IwMain), for any number of client threads and of requests to end; its  *)
(* configuration (IwCfg), for any names, texts, settings, widths of int    *)
(* and edited files, with memory that is ample or short; and the parser of *)
(* its requests (IwWebReq), for any requests, cut in any way.              *)
(***************************************************************************)
EXTENDS IwMain, IwCfg, IwWebReq, SequenceTheorems, WellFoundedInduction, TLAPS

-----------------------------------------------------------------------------
(* The end of a server.  The invariant has two layers: what holds whatever *)
(* requests to end come (the types, who is in iw_thread_wait_all, what     *)
(* iw_exit has waited for), and what holds while only one thread terminates *)
(* the program (OneSource: the table has every thread that runs), and no   *)
(* request has come before the client threads were in the table (Foreseen: *)
(* they are gone when the main loop is let go).  Both conditions are states *)
(* that a run leaves and never enters again.                               *)

-----------------------------------------------------------------------------
(* The inductive invariant.                                                *)

\* A thread enters the table before it runs and leaves it after its join.
Registered ==
  /\ \A w \in Worker : life[w] \in {"running", "returned"} => w \in s_threads
  /\ \A c \in Caller : wpc[c] = "delete" => life[tinfo[c]] = "joined"
  /\ \A c \in Caller : wpc[c] \in {"deref", "join"} =>
                         life[tinfo[c]] \in {"running", "returned", "joined"}
  /\ \A w \in s_threads : life[w] \in {"running", "returned", "joined"}

\* The main thread is in iw_thread_wait_all for a SIGINT only, and a thread is
\* in it for as long as it terminates the program.
Terminating ==
  /\ wpc[Main] # "idle" => s_sigint_cnt > 0
  /\ \A c \in Caller : /\ term[c] = "no" => wpc[c] \in {"idle", "done"}
                       /\ term[c] # "no" => wpc[c] # "idle"
  /\ term[Cmd] # "no" => cmdpc = "answer"

\* What iw_exit has ended, it has waited for.
Exiting ==
  /\ mainpc \in {"exit", "exited"} => ~s_main_go
  /\ exitStep > 0 => ~s_main_go
  /\ mainpc = "exited" => exitStep = Len(ExitOrder)
  /\ exitStep > 1 => webpc = "end"
  /\ exitStep > 2 => healthpc = "end"
  /\ exitStep > 3 => cmdpc = "end"

CallerIInv == MainTypeOK /\ Terminating /\ Exiting /\ (OneSource => Registered)

\* A termination starts when all threads of the program are in the table, and
\* none is created any more.
Stopping ==
  /\ \A c \in Caller : wpc[c] # "idle" => stop
  /\ stop => mainpc # "start" /\ \A w \in Worker : life[w] # "started"

Gone == s_threads = {} /\ \A w \in Worker : life[w] \in {"none", "joined"}

\* The main loop is let go when all of them are gone.
LetGo ==
  /\ \A c \in Caller : wpc[c] = "done" => Gone
  /\ ~s_main_go => Gone /\ stop /\ term[Main] = "no" /\ \E c \in Caller : wpc[c] # "idle"

ExitIInv == CallerIInv /\ (Foreseen => Stopping /\ LetGo)

-----------------------------------------------------------------------------
(* The types.                                                              *)

\* What a step does to the client threads and to those who wait for them.
LEMMA ThreadsMove ==
  ASSUME [MainNext]_mainAll
  PROVE  \/ UNCHANGED threadVars
         \/ mainpc = "start" /\ \E w \in Worker : ThreadCreate(w)
         \/ \E w \in Worker : ThreadRegister(w) \/ ThreadReturn(w)
         \/ \E c \in Caller : WaitBegin(c) \/ WaitStep(c)
<1>1. CASE Quit
  BY <1>1, MainAssumption DEF Quit, Terminate
<1>2. CASE Sigint
  BY <1>2, MainAssumption DEF Sigint, Terminate
<1>3. CASE MainThread \/ DieOfFreed
  BY <1>3 DEF MainThread, MainFnCreate, MainFnReturn, MainLoopEnd, ExitModule, ExitHealthFlag,
     DieOfFreed
<1>4. CASE Client \/ Server \/ UNCHANGED mainAll
  BY <1>4 DEF Client, CmdAccept, CmdRequest, WebClient, Server, CmdServe, WebServe,
     HealthThread, mainAll
<1>5. ASSUME NEW c \in Caller, WaitAll(c) \/ TermWaited(c)
      PROVE  UNCHANGED threadVars \/ WaitStep(c)
  BY <1>5 DEF WaitAll, TermWaited
<1> QED
  BY <1>1, <1>2, <1>3, <1>4, <1>5 DEF MainNext, WorkerStep

LEMMA ThreadTypes ==
  ASSUME ThreadTypeOK, [MainNext]_mainAll
  PROVE  ThreadTypeOK'
<1>1. CASE UNCHANGED threadVars
  BY <1>1 DEF threadVars, ThreadTypeOK
<1>2. ASSUME NEW w \in Worker, ThreadCreate(w) \/ ThreadRegister(w) \/ ThreadReturn(w)
      PROVE  ThreadTypeOK'
  BY <1>2 DEF ThreadCreate, ThreadRegister, ThreadReturn, ThreadTypeOK
<1>3. ASSUME NEW c \in Caller, WaitBegin(c) \/ WaitScan(c) PROVE ThreadTypeOK'
  BY <1>3 DEF WaitBegin, WaitScan, WaitGoto, ThreadTypeOK
<1>4. ASSUME NEW c \in Caller, WaitDeref(c) \/ WaitJoin(c) \/ WaitDelete(c) PROVE ThreadTypeOK'
  BY <1>4 DEF WaitDeref, WaitJoin, WaitDelete, WaitGoto, ThreadTypeOK
<1> QED
  BY <1>1, <1>2, <1>3, <1>4, ThreadsMove DEF WaitStep

LEMMA MainTypeStep ==
  ASSUME MainTypeOK, [MainNext]_mainAll
  PROVE  MainTypeOK'
<1>1. ThreadTypeOK'
  BY ThreadTypes DEF MainTypeOK
<1>2. CASE MainThread \/ DieOfFreed
  <2>1. CASE ExitModule
    <3>1. Len(ExitOrder) \in Nat
      BY DEF ExitOrder
    <3>2. exitStep' \in 0 .. Len(ExitOrder)
      BY <2>1, <3>1 DEF ExitModule, MainTypeOK
    <3> QED
      BY <1>1, <2>1, <3>2 DEF ExitModule, MainTypeOK
  <2>2. CASE MainFnCreate
    BY <1>1, <2>2 DEF MainFnCreate, mainVars, MainTypeOK
  <2>3. CASE MainFnReturn \/ MainLoopEnd
    BY <1>1, <2>3 DEF MainFnReturn, MainLoopEnd, MainTypeOK
  <2>5. CASE ExitHealthFlag
    BY <1>1, <2>5 DEF ExitHealthFlag, MainTypeOK
  <2>4. CASE DieOfFreed
    BY <1>1, <2>4 DEF DieOfFreed, MainTypeOK
  <2> QED
    BY <1>2, <2>1, <2>2, <2>3, <2>4, <2>5 DEF MainThread
<1>3. CASE Client \/ Server \/ UNCHANGED mainVars
  <2>1. CASE Client
    BY <1>1, <2>1 DEF Client, CmdAccept, CmdRequest, WebClient, MainTypeOK
  <2>2. CASE Server
    BY <1>1, <2>2 DEF Server, CmdServe, WebServe, HealthThread, MainTypeOK
  <2>3. CASE UNCHANGED mainVars
    BY <1>1, <2>3 DEF mainVars, MainTypeOK
  <2> QED
    BY <1>3, <2>1, <2>2, <2>3
<1>4. CASE Quit
  <2>1. pending' \in [quit : Nat, sigint : Nat] /\ early' \in BOOLEAN
    BY <1>4 DEF Quit, Terminate, MainTypeOK
  <2>2. /\ term' \in [Caller -> {"no", "wait"}] /\ stop' \in BOOLEAN
        /\ mainpc' \in {"start", "loop", "exit", "exited", "killed"}
    BY <1>4 DEF Quit, Terminate, MainTypeOK
  <2>3. UNCHANGED <<s_main_go, s_sigint_cnt, s_health_go, webpc, healthpc, exitStep>>
    BY <1>4 DEF Quit
  <2>4. cmdpc' = "answer"
    BY <1>4 DEF Quit
  <2> QED
    BY <1>1, <2>1, <2>2, <2>3, <2>4 DEF MainTypeOK
<1>5. CASE Sigint
  <2>1. pending' \in [quit : Nat, sigint : Nat] /\ s_sigint_cnt' \in Nat
    BY <1>5 DEF Sigint, MainTypeOK
  <2>2. /\ early' \in BOOLEAN
        /\ term' \in [Caller -> {"no", "wait"}] /\ stop' \in BOOLEAN
        /\ mainpc' \in {"start", "loop", "exit", "exited", "killed"}
    <3>1. CASE Terminate(Main)
      BY <3>1 DEF Terminate, MainTypeOK
    <3>2. CASE mainpc' = "killed" /\ UNCHANGED <<term, stop, early>>
      BY <3>2 DEF MainTypeOK
    <3> QED
      BY <1>5, <3>1, <3>2 DEF Sigint
  <2>3. UNCHANGED <<s_main_go, s_health_go, cmdpc, webpc, healthpc, exitStep>>
    BY <1>5 DEF Sigint
  <2> QED
    BY <1>1, <2>1, <2>2, <2>3 DEF MainTypeOK
<1>6. ASSUME NEW c \in Caller, TermWaited(c) PROVE MainTypeOK'
  BY <1>1, <1>6 DEF TermWaited, MainTypeOK
<1> QED
  BY <1>2, <1>3, <1>4, <1>5, <1>6 DEF MainNext, WaitAll, WorkerStep, mainAll

-----------------------------------------------------------------------------
(* What holds whatever requests come.                                      *)

LEMMA TerminatingStep ==
  ASSUME MainTypeOK, Terminating, [MainNext]_mainAll
  PROVE  Terminating'
<1> USE MainAssumption DEF MainTypeOK, ThreadTypeOK
<1>1. CASE MainThread \/ DieOfFreed
  BY <1>1 DEF MainThread, MainFnCreate, MainFnReturn, MainLoopEnd, ExitModule, ExitHealthFlag,
     DieOfFreed, ThreadCreate, mainVars, threadVars, Terminating
<1>2. CASE Client \/ Server \/ UNCHANGED mainAll
  BY <1>2 DEF Client, CmdAccept, CmdRequest, WebClient, Server, CmdServe, WebServe,
     HealthThread, mainAll, mainVars, threadVars, Terminating
<1>3. CASE Quit
  BY <1>3 DEF Quit, Terminate, WaitBegin, WaitGoto, threadVars, Terminating
<1>4. CASE Sigint
  BY <1>4 DEF Sigint, Terminate, WaitBegin, WaitGoto, threadVars, Terminating
<1>5. ASSUME NEW c \in Caller, WaitStep(c), UNCHANGED mainVars PROVE Terminating'
  <2>1. term[c] # "no"
    BY <1>5 DEF WaitStep, WaitScan, WaitDeref, WaitJoin, WaitDelete, Terminating
  <2>2. wpc' = [wpc EXCEPT ![c] = wpc'[c]] /\ wpc[c] # "idle" /\ wpc'[c] # "idle"
    BY <1>5 DEF WaitStep, WaitScan, WaitDeref, WaitJoin, WaitDelete, WaitGoto
  <2> QED
    BY <1>5, <2>1, <2>2 DEF mainVars, Terminating
<1>6. ASSUME NEW c \in Caller, TermWaited(c) PROVE Terminating'
  BY <1>6 DEF TermWaited, threadVars, Terminating
<1>7. ASSUME NEW w \in Worker, WorkerStep(w) PROVE Terminating'
  BY <1>7 DEF WorkerStep, ThreadRegister, ThreadReturn, mainVars, Terminating
<1> QED
  BY <1>1, <1>2, <1>3, <1>4, <1>5, <1>6, <1>7 DEF MainNext, WaitAll

LEMMA ExitingStep ==
  ASSUME MainTypeOK, Terminating, Exiting, [MainNext]_mainAll
  PROVE  Exiting'
<1> USE DEF MainTypeOK
<1>1. CASE ExitModule
  BY <1>1 DEF ExitModule, ExitOrder, Exiting
<1>2. CASE MainFnCreate \/ MainFnReturn \/ MainLoopEnd \/ ExitHealthFlag \/ DieOfFreed
  BY <1>2 DEF MainFnCreate, MainFnReturn, MainLoopEnd, ExitHealthFlag, DieOfFreed, mainVars, Exiting
<1>3. CASE Client \/ Server \/ UNCHANGED mainVars
  BY <1>3 DEF Client, CmdAccept, CmdRequest, WebClient, Server, CmdServe, WebServe,
     HealthThread, mainVars, Exiting
<1>4. CASE Quit \/ Sigint
  BY <1>4 DEF Quit, Sigint, Terminate, Exiting
<1>5. ASSUME NEW c \in Caller, TermWaited(c) PROVE Exiting'
  BY <1>5 DEF TermWaited, Exiting
<1> QED
  BY <1>1, <1>2, <1>3, <1>4, <1>5 DEF MainNext, MainThread, WaitAll, WorkerStep, mainAll

-----------------------------------------------------------------------------
(* While only one thread terminates the program.                           *)

\* Once two threads have terminated the program it stays so, and once a request
\* was early.
LEMMA Leaves ==
  ASSUME MainTypeOK, [MainNext]_mainAll
  PROVE  (OneSource' => OneSource) /\ (early => early')
<1> USE MainAssumption DEF MainTypeOK, ThreadTypeOK
<1>1. s_sigint_cnt' = 0 => s_sigint_cnt = 0
  <2>1. s_sigint_cnt' \in {s_sigint_cnt, s_sigint_cnt + 1}
    BY DEF MainNext, MainThread, MainFnCreate, MainFnReturn, MainLoopEnd, ExitModule,
       ExitHealthFlag, DieOfFreed, Client, CmdAccept, CmdRequest, WebClient, Server, CmdServe,
       WebServe, HealthThread, Quit, Sigint, WaitAll, TermWaited, WorkerStep, mainAll, mainVars
  <2> QED
    BY <2>1
<1>2. wpc'[Cmd] = "idle" => wpc[Cmd] = "idle"
  BY ThreadsMove DEF threadVars, ThreadCreate, ThreadRegister, ThreadReturn, WaitBegin,
     WaitStep, WaitScan, WaitDeref, WaitJoin, WaitDelete, WaitGoto
<1>3. early => early'
  BY DEF MainNext, MainThread, MainFnCreate, MainFnReturn, MainLoopEnd, ExitModule,
     ExitHealthFlag, DieOfFreed, Client, CmdAccept, CmdRequest, WebClient, Server, CmdServe,
     WebServe, HealthThread, Quit, Sigint, Terminate, WaitAll, TermWaited, WorkerStep,
     mainAll, mainVars
<1> QED
  BY <1>1, <1>2, <1>3 DEF OneSource

\* When one caller is in iw_thread_wait_all the other one is not.
LEMMA Alone ==
  ASSUME MainTypeOK, Terminating, OneSource, NEW c \in Caller, wpc[c] # "idle"
  PROVE  \A d \in Caller : d # c => wpc[d] = "idle"
BY MainAssumption DEF MainTypeOK, Terminating, OneSource

LEMMA RegisteredStep ==
  ASSUME MainTypeOK, Terminating, OneSource, Registered, [MainNext]_mainAll
  PROVE  Registered'
<1> USE DEF MainTypeOK, ThreadTypeOK
<1>1. CASE UNCHANGED threadVars
  BY <1>1 DEF threadVars, Registered
<1>2. ASSUME NEW w \in Worker, ThreadCreate(w) \/ ThreadRegister(w) \/ ThreadReturn(w)
      PROVE  Registered'
  BY <1>2 DEF ThreadCreate, ThreadRegister, ThreadReturn, Registered
<1>3. ASSUME NEW c \in Caller, WaitBegin(c) \/ WaitScan(c) PROVE Registered'
  BY <1>3 DEF WaitBegin, WaitScan, WaitGoto, Registered
<1>4. ASSUME NEW c \in Caller, WaitDeref(c) PROVE Registered'
  BY <1>4 DEF WaitDeref, WaitGoto, Registered
<1>5. ASSUME NEW c \in Caller, WaitJoin(c) PROVE Registered'
  <2>1. life[tinfo[c]] \in {"returned", "joined"}
    BY <1>5, Alone DEF WaitJoin, Contended
  <2> QED
    BY <1>5, <2>1 DEF WaitJoin, WaitGoto, Registered
<1>6. ASSUME NEW c \in Caller, WaitDelete(c) PROVE Registered'
  BY <1>6 DEF WaitDelete, WaitGoto, Registered
<1> QED
  BY <1>1, <1>2, <1>3, <1>4, <1>5, <1>6, ThreadsMove DEF WaitStep

LEMMA CallerInvariant == MainSpec => []CallerIInv
<1>1. MainInit => CallerIInv
  <2> SUFFICES ASSUME MainInit PROVE MainTypeOK /\ Terminating /\ Exiting /\ Registered
    BY DEF CallerIInv
  <2>1. ThreadTypeOK /\ Registered
    BY DEF MainInit, ThreadInit, ThreadTypeOK, Registered
  <2>2. pending \in [quit : Nat, sigint : Nat] /\ exitStep \in 0 .. Len(ExitOrder)
    BY MainAssumption DEF MainInit, ExitOrder
  <2>3. MainTypeOK
    BY <2>1, <2>2 DEF MainInit, MainTypeOK
  <2>4. Terminating /\ Exiting
    BY MainAssumption DEF MainInit, ThreadInit, Terminating, Exiting
  <2> QED
    BY <2>1, <2>3, <2>4
<1>2. CallerIInv /\ [MainNext]_mainAll => CallerIInv'
  <2> SUFFICES ASSUME CallerIInv, [MainNext]_mainAll PROVE CallerIInv'
    OBVIOUS
  <2>1. OneSource' => Registered'
    BY Leaves, RegisteredStep DEF CallerIInv
  <2> QED
    BY <2>1, MainTypeStep, TerminatingStep, ExitingStep DEF CallerIInv
<1> QED
  BY <1>1, <1>2, PTL DEF MainSpec

(* The variables of the threads and of the main module keep their types,   *)
(* and a caller that reads, joins or deletes an entry has found one, for   *)
(* every number of threads and any requests.                               *)
THEOREM MainTypes == MainSpec => []MainTypeOK
BY CallerInvariant, PTL DEF CallerIInv

-----------------------------------------------------------------------------
(* While no request has come before the client threads were in the table.  *)

LEMMA StoppingStep ==
  ASSUME CallerIInv, Stopping, Foreseen', [MainNext]_mainAll
  PROVE  Stopping'
<1> USE MainAssumption DEF CallerIInv, MainTypeOK, ThreadTypeOK
<1>1. CASE MainThread \/ DieOfFreed
  BY <1>1 DEF MainThread, MainFnCreate, MainFnReturn, MainLoopEnd, ExitModule, ExitHealthFlag,
     DieOfFreed, ThreadCreate, mainVars, threadVars, Stopping
<1>2. CASE Client \/ Server \/ UNCHANGED mainAll
  BY <1>2 DEF Client, CmdAccept, CmdRequest, WebClient, Server, CmdServe, WebServe,
     HealthThread, mainAll, mainVars, threadVars, Stopping
<1>3. CASE Quit
  <2>1. Settled
    BY <1>3 DEF Quit, Terminate, Foreseen
  <2> QED
    BY <1>3, <2>1 DEF Quit, Settled, Terminate, WaitBegin, WaitGoto, threadVars, Stopping
<1>4. CASE Sigint
  <2>1. CASE Terminate(Main)
    <3>1. Settled
      BY <2>1 DEF Terminate, Foreseen
    <3> QED
      BY <2>1, <3>1 DEF Settled, Terminate, WaitBegin, WaitGoto, threadVars, Stopping
  <2>2. CASE ~Terminate(Main)
    BY <1>4, <2>2 DEF Sigint, threadVars, Stopping
  <2> QED
    BY <2>1, <2>2
<1>5. ASSUME NEW c \in Caller, WaitStep(c), UNCHANGED mainVars PROVE Stopping'
  <2>1. wpc' = [wpc EXCEPT ![c] = wpc'[c]] /\ wpc[c] # "idle" /\ wpc'[c] # "idle"
    BY <1>5 DEF WaitStep, WaitScan, WaitDeref, WaitJoin, WaitDelete, WaitGoto
  <2>2. \A w \in Worker : life'[w] = "started" => life[w] = "started"
    BY <1>5 DEF WaitStep, WaitScan, WaitDeref, WaitJoin, WaitDelete
  <2> QED
    BY <1>5, <2>1, <2>2 DEF mainVars, Stopping
<1>6. ASSUME NEW c \in Caller, TermWaited(c) PROVE Stopping'
  BY <1>6 DEF TermWaited, threadVars, Stopping
<1>7. ASSUME NEW w \in Worker, WorkerStep(w) PROVE Stopping'
  BY <1>7 DEF WorkerStep, ThreadRegister, ThreadReturn, mainVars, Stopping
<1> QED
  BY <1>1, <1>2, <1>3, <1>4, <1>5, <1>6, <1>7 DEF MainNext, WaitAll

\* A program that is stopping and whose threads are gone stays without threads.
LEMMA GoneStays ==
  ASSUME CallerIInv, Stopping, [MainNext]_mainAll, stop, Gone
  PROVE  Gone'
<1> USE DEF CallerIInv, MainTypeOK, ThreadTypeOK, Gone
<1>1. mainpc # "start"
  BY DEF Stopping
<1> QED
  BY <1>1, ThreadsMove DEF threadVars, ThreadRegister, ThreadReturn, WaitBegin, WaitStep,
     WaitScan, WaitDeref, WaitJoin, WaitDelete

LEMMA LetGoStep ==
  ASSUME CallerIInv, Stopping, LetGo, OneSource, OneSource', [MainNext]_mainAll
  PROVE  LetGo'
<1> USE MainAssumption DEF CallerIInv, MainTypeOK, ThreadTypeOK
<1>1. \A c \in Caller : wpc'[c] = "done" => Gone'
  <2> SUFFICES ASSUME NEW c \in Caller, wpc'[c] = "done" PROVE Gone'
    OBVIOUS
  <2>1. CASE wpc[c] = "done"
    <3>1. stop /\ Gone
      BY <2>1 DEF Stopping, LetGo
    <3> QED
      BY <3>1, GoneStays
  <2>2. CASE wpc[c] # "done"
    <3>1. s_threads = {} /\ WaitScan(c) /\ UNCHANGED <<s_threads, life>>
      BY <2>2, ThreadsMove DEF threadVars, ThreadCreate, ThreadRegister, ThreadReturn, WaitBegin,
         WaitStep, WaitScan, WaitDeref, WaitJoin, WaitDelete, WaitGoto
    <3>2. stop
      BY <3>1 DEF WaitScan, Stopping
    <3> QED
      BY <3>1, <3>2 DEF Registered, Stopping, Gone
  <2> QED
    BY <2>1, <2>2
<1>2. \A c \in Caller : wpc[c] # "idle" => wpc'[c] # "idle"
  BY ThreadsMove DEF threadVars, ThreadCreate, ThreadRegister, ThreadReturn, WaitBegin,
     WaitStep, WaitScan, WaitDeref, WaitJoin, WaitDelete, WaitGoto
<1>3. CASE s_main_go
  <2>1. ASSUME ~s_main_go' PROVE \E c \in Caller : TermWaited(c)
    BY <1>3, <2>1 DEF MainNext, MainThread, MainFnCreate, MainFnReturn, MainLoopEnd, ExitModule,
       ExitHealthFlag, DieOfFreed, Client, CmdAccept, CmdRequest, WebClient, Server, CmdServe,
       WebServe, HealthThread, Quit, Sigint, WaitAll, WorkerStep, mainAll, mainVars
  <2>2. ASSUME ~s_main_go'
        PROVE  Gone' /\ stop' /\ term'[Main] = "no" /\ \E c \in Caller : wpc'[c] # "idle"
    <3>1. PICK c \in Caller : TermWaited(c)
      BY <2>1, <2>2
    <3>2. wpc'[c] = "done" /\ stop' = stop /\ wpc' = wpc /\ stop
      BY <3>1 DEF TermWaited, threadVars, Stopping
    <3>3. term'[Main] = "no"
      <4>1. CASE c = Main
        BY <3>1, <4>1 DEF TermWaited
      <4>2. CASE c # Main
        BY <3>1, <3>2, <4>2, Alone DEF TermWaited, Terminating
      <4> QED
        BY <4>1, <4>2
    <3> QED
      BY <1>1, <3>2, <3>3
  <2> QED
    BY <1>1, <1>3, <2>2 DEF LetGo
<1>4. CASE ~s_main_go
  <2>1. ~s_main_go' /\ stop'
    <3>1. s_main_go' \in {s_main_go, FALSE} /\ stop' \in {stop, TRUE}
      BY DEF MainNext, MainThread, MainFnCreate, MainFnReturn, MainLoopEnd, ExitModule,
         ExitHealthFlag, DieOfFreed, Client, CmdAccept, CmdRequest, WebClient, Server, CmdServe,
         WebServe, HealthThread, Quit, Sigint, Terminate, WaitAll, TermWaited, WorkerStep,
         mainAll, mainVars
    <3>2. s_main_go = FALSE /\ stop = TRUE
      BY <1>4 DEF LetGo
    <3>3. s_main_go' = FALSE /\ stop' = TRUE
      BY <3>1, <3>2
    <3> QED
      BY <3>3
  <2>2. term'[Main] = "no"
    <3>1. CASE Sigint
      <4>1. ~Terminate(Main) \/ term' = term
        <5> SUFFICES ASSUME Terminate(Main), s_sigint_cnt' = 1 PROVE term' = term
          BY <3>1 DEF Sigint, threadVars
        <5>1. s_sigint_cnt = 0
          BY <3>1 DEF Sigint
        <5>2. wpc[Main] = "idle" /\ wpc'[Cmd] = "idle"
          BY <5>1 DEF Terminating, OneSource
        <5>3. wpc[Cmd] = "idle"
          BY <1>2, <5>2
        <5> QED
          BY <1>4, <5>2, <5>3 DEF LetGo
      <4>2. term' = term
        BY <3>1, <4>1 DEF Sigint
      <4> QED
        BY <1>4, <4>2 DEF LetGo
    <3> QED
      BY <1>4, <3>1 DEF LetGo, MainNext, MainThread, MainFnCreate, MainFnReturn, MainLoopEnd,
         ExitModule, ExitHealthFlag, DieOfFreed, Client, CmdAccept, CmdRequest, WebClient, Server,
         CmdServe, WebServe, HealthThread, Quit, Terminate, WaitAll, TermWaited, WorkerStep,
         mainAll, mainVars
  <2> QED
    BY <1>1, <1>2, <1>4, <2>1, <2>2, GoneStays DEF LetGo
<1> QED
  BY <1>3, <1>4

LEMMA ExitInvariant == MainSpec => []ExitIInv
<1>1. MainInit => Stopping /\ LetGo
  BY MainAssumption DEF MainInit, ThreadInit, Stopping, LetGo
<1>2. CallerIInv' /\ ExitIInv /\ [MainNext]_mainAll => (Foreseen => Stopping /\ LetGo)'
  <2> SUFFICES ASSUME CallerIInv', ExitIInv, [MainNext]_mainAll, Foreseen'
               PROVE  Stopping' /\ LetGo'
    OBVIOUS
  <2>1. OneSource /\ OneSource' /\ Foreseen
    BY Leaves DEF ExitIInv, CallerIInv, Foreseen
  <2> QED
    BY <2>1, StoppingStep, LetGoStep DEF ExitIInv
<1>3. CallerIInv /\ (Foreseen => Stopping /\ LetGo) <=> ExitIInv
  BY DEF ExitIInv
<1> QED
  BY <1>1, <1>2, <1>3, CallerInvariant, PTL DEF MainSpec

-----------------------------------------------------------------------------
(* What the invariant gives.                                               *)

(* iw_thread_wait_all leaves no thread unjoined that has run and, if none  *)
(* was still to be created or to enter the table when the program was      *)
(* asked to end, none that was created, for every number of threads.       *)
THEOREM WaitAllJoins == MainSpec => WaitAllWaits
<1> DEFINE Waits == OneSource => \A c \in Caller : wpc[c] # "done" /\ wpc'[c] = "done" =>
                      \A w \in Worker : /\ life[w] \notin {"running", "returned"}
                                        /\ ~early => life[w] \in {"none", "joined"}
<1>1. ExitIInv /\ [MainNext]_mainAll => [Waits]_mainAll
  <2> SUFFICES ASSUME ExitIInv, [MainNext]_mainAll, OneSource,
                      NEW c \in Caller, wpc[c] # "done", wpc'[c] = "done",
                      NEW w \in Worker
               PROVE  /\ life[w] \notin {"running", "returned"}
                      /\ ~early => life[w] \in {"none", "joined"}
    OBVIOUS
  <2> USE DEF ExitIInv, CallerIInv, MainTypeOK, ThreadTypeOK
  <2>1. s_threads = {} /\ wpc[c] # "idle"
    BY ThreadsMove DEF threadVars, ThreadCreate, ThreadRegister, ThreadReturn, WaitBegin,
       WaitStep, WaitScan, WaitDeref, WaitJoin, WaitDelete, WaitGoto
  <2>2. life[w] \notin {"running", "returned"}
    BY <2>1 DEF Registered
  <2>3. ASSUME ~early PROVE life[w] # "started"
    BY <2>1, <2>3 DEF Foreseen, Stopping
  <2> QED
    BY <2>2, <2>3
<1> QED
  BY <1>1, ExitInvariant, PTL DEF MainSpec, WaitAllWaits

(* iw_exit ends no module that a thread still uses, for every number of    *)
(* threads, if one thread terminates the program and not before the client *)
(* threads are in the table.                                               *)
THEOREM ShutdownInOrder == MainSpec => []OrderlyShutdown
<1>1. ExitIInv => OrderlyShutdown
  <2> SUFFICES ASSUME ExitIInv, Foreseen, Alive, NEW i \in 1 .. exitStep
               PROVE  ExitOrder[i] \notin InUse
    BY DEF OrderlyShutdown, Ended
  <2> USE DEF ExitIInv, CallerIInv, MainTypeOK, ThreadTypeOK
  <2>1. ~s_main_go /\ Gone /\ term[Main] = "no" /\ i \in 1 .. 11
    BY DEF Exiting, LetGo, ExitOrder
  <2>2. ExitOrder[i] \notin IF cmdpc \in {"request", "answer"}
                  THEN {"cmd", "syslog", "thread", "mutex", "memory", "cfg", "log"} ELSE {}
    BY <2>1 DEF Exiting, ExitOrder
  <2>3. ExitOrder[i] \notin IF webpc # "end" THEN {"memory", "cfg", "log"} ELSE {}
    BY <2>1 DEF Exiting, ExitOrder
  <2>4. ExitOrder[i] \notin IF healthpc = "check" THEN {"thread", "mutex", "log"} ELSE {}
    BY <2>1 DEF Exiting, ExitOrder
  <2>5. ExitOrder[i] \notin IF \E c \in Caller : wpc[c] \notin {"idle", "done"}
                  THEN {"thread", "log"} ELSE {}
    <3> SUFFICES ASSUME NEW c \in Caller, wpc[c] \notin {"idle", "done"} PROVE i < 7
      BY <2>1 DEF ExitOrder
    <3>1. cmdpc = "answer"
      BY <2>1, MainAssumption DEF Terminating
    <3> QED
      BY <2>1, <3>1 DEF Exiting
  <2>6. ~ \E w \in Worker : life[w] \in {"started", "running"}
    BY <2>1 DEF Gone
  <2> QED
    BY <2>2, <2>3, <2>4, <2>5, <2>6 DEF InUse
<1> QED
  BY <1>1, ExitInvariant, PTL

(* No thread of the library is left when the program leaves iw_exit, and   *)
(* no client thread either, under the conditions of ShutdownInOrder.       *)
THEOREM NothingRuns == MainSpec => []NothingRunsAfterExit
<1>1. ExitIInv => NothingRunsAfterExit
  BY DEF ExitIInv, CallerIInv, LetGo, Gone, Exiting, ExitOrder, NothingRunsAfterExit
<1> QED
  BY <1>1, ExitInvariant, PTL

-----------------------------------------------------------------------------
(* The configuration: its types, that values fit the criteria of their     *)
(* names, that the answers of the page are true, and that what was saved   *)
(* comes back.                                                             *)

(* The inductive invariant: the property, and that the two tables have an  *)
(* entry per name.                                                         *)
CfgIInv ==
  /\ DOMAIN names = Name /\ DOMAIN table = Name
  /\ StoredFitCriteria

(* What can be left under a name by iw_val_store_set_number and the like:  *)
(* what was there, nothing, or a value that fits.                          *)
LEMMA OutcomesFit ==
  ASSUME NEW crit, NEW old, NEW value, NEW outcome \in CreateOutcomes(crit, old, value)
  PROVE  \/ outcome.value = old
         \/ outcome.value = NoValue
         \/ Answer(crit, outcome.value) = "OK"
<1>1. \A o \in SetOutcomes(crit, old, value) :
        \/ o.value = old
        \/ o.value = NoValue
        \/ Answer(crit, o.value) = "OK"
  BY DEF SetOutcomes, IfShort
<1>2. CASE \E o \in SetOutcomes(crit, old, value) : outcome = o \/ outcome = [o EXCEPT !.ret = "OK"]
  <2>1. PICK o \in SetOutcomes(crit, old, value) :
          outcome = o \/ outcome = [o EXCEPT !.ret = "OK"]
    BY <1>2
  <2>2. outcome.value = o.value
    BY <2>1 DEF SetOutcomes, IfShort
  <2> QED BY <1>1, <2>2
<1>3. CASE outcome = [ret |-> "FAILED_TO_CREATE", value |-> old]
  BY <1>3
<1> QED BY <1>2, <1>3 DEF CreateOutcomes, IfShort

(* Storing such an outcome keeps the invariant, also when the criteria of  *)
(* the name have just been added.                                          *)
LEMMA StoreFits ==
  ASSUME CfgIInv, NEW n \in Name, NEW value,
         DOMAIN names' = Name,
         \A m \in Name : m = n \/ names'[m] = names[m],
         names'[n] = names[n] \/ table[n] = NoValue,
         Store(n, CreateOutcomes(names'[n], table[n], value))
  PROVE  CfgIInv'
<1>1. PICK outcome \in CreateOutcomes(names'[n], table[n], value) :
        table' = [table EXCEPT ![n] = outcome.value]
  BY DEF Store
<1>2. \/ outcome.value = table[n]
      \/ outcome.value = NoValue
      \/ Answer(names'[n], outcome.value) = "OK"
  BY <1>1, OutcomesFit
<1> QED BY <1>1, <1>2 DEF CfgIInv, StoredFitCriteria

(* The names after an addition.                                            *)
LEMMA NamesWithKeeps ==
  ASSUME CfgIInv, NEW n \in Name, NEW crit, NEW new \in NamesWith(n, crit)
  PROVE  /\ DOMAIN new = Name
         /\ \A m \in Name : m = n \/ new[m] = names[m]
         /\ new[n] = names[n] \/ table[n] = NoValue
         /\ \A m \in Name : table[m] # NoValue => new[m] = names[m]
<1>1. \A m \in Name : names[m] = NoCriteria => table[m] = NoValue
  BY DEF CfgIInv, StoredFitCriteria, Answer
<1>2. DOMAIN names = Name
  BY DEF CfgIInv
<1>3. CASE new = names
  BY <1>2, <1>3
<1>4. CASE new = [names EXCEPT ![n] = IF @ = NoCriteria THEN crit ELSE @]
  BY <1>1, <1>2, <1>4
<1> QED BY <1>3, <1>4 DEF NamesWith, IfShort

LEMMA CfgInitIInv == CfgInit => CfgIInv
BY DEF CfgInit, StoreInit, CfgIInv, StoredFitCriteria

LEMMA CfgStepIInv == CfgIInv /\ [CfgNext]_allVars => CfgIInv'
<1> SUFFICES ASSUME CfgIInv, [CfgNext]_allVars PROVE CfgIInv'
  OBVIOUS
<1>1. CASE UNCHANGED <<names, table>>
  BY <1>1 DEF CfgIInv, StoredFitCriteria
<1>2. CASE Boot \/ Start \/ SaveOpen \/ SaveWrite \/ Edit \/ UNCHANGED allVars
  BY <1>1, <1>2 DEF Boot, Start, SaveOpen, SaveWrite, Edit, allVars, storeVars
<1>3. CASE Load
  <2>1. CASE UNCHANGED table
    BY <1>1, <1>3, <2>1 DEF Load
  <2>2. CASE /\ table' \in [Name -> Value \union {NoValue}]
             /\ \A n \in Name : table'[n] \in Loaded(n)
    <3>1. names' = names
      BY <1>3 DEF Load
    <3>2. ASSUME NEW n \in Name
          PROVE  table'[n] = table[n] \/ table'[n] = NoValue
                   \/ Answer(names[n], table'[n]) = "OK"
      <4>1. CASE table'[n] = table[n]
        BY <4>1
      <4>2. CASE \E value \in FromJson(file[n]) :
                   \E outcome \in CreateOutcomes(names[n], table[n], value) :
                     table'[n] = outcome.value
        BY <4>2, OutcomesFit
      <4> QED BY <2>2, <4>1, <4>2 DEF Loaded, IfShort
    <3> QED BY <2>2, <3>1, <3>2 DEF CfgIInv, StoredFitCriteria
  <2> QED BY <1>3, <2>1, <2>2 DEF Load
<1>4. CASE Stop
  BY <1>4 DEF Stop, CfgIInv, StoredFitCriteria
<1>5. ASSUME NEW d \in Declarations, AddSetting(d) PROVE CfgIInv'
  <2>1. d.name \in Name
    BY CfgAssumption
  <2>2. names' \in NamesWith(d.name, d.criteria)
    BY <1>5 DEF AddSetting
  <2>3. CASE Store(d.name, CreateOutcomes(names'[d.name], table[d.name], d.default))
    BY <2>1, <2>2, <2>3, NamesWithKeeps, StoreFits
  <2>4. CASE UNCHANGED table
    BY <2>1, <2>2, <2>4, NamesWithKeeps DEF CfgIInv, StoredFitCriteria
  <2> QED BY <1>5, <2>3, <2>4 DEF AddSetting
<1>6. ASSUME NEW d \in Declarations, AddName(d) PROVE CfgIInv'
  <2>1. d.name \in Name
    BY CfgAssumption
  <2>2. names' \in NamesWith(d.name, d.criteria) /\ UNCHANGED table
    BY <1>6 DEF AddName
  <2> QED BY <2>1, <2>2, NamesWithKeeps DEF CfgIInv, StoredFitCriteria
<1>7. ASSUME NEW n \in Name, DeleteName(n) PROVE CfgIInv'
  BY <1>7 DEF DeleteName, CfgIInv, StoredFitCriteria
<1>8. ASSUME NEW n \in Name, NEW value, SetValue(n, value) PROVE CfgIInv'
  BY <1>8, StoreFits DEF SetValue, CfgIInv
<1>9. ASSUME NEW n \in Name, NEW typed \in Text, AssignParameter(n, typed) PROVE CfgIInv'
  <2> DEFINE value == ValueOf(table[n].type, typed)
  <2>1. names' = names /\ Store(n, ExistingOutcomes(n, typed))
    BY <1>9 DEF AssignParameter, SetExistingValue
  <2>2. CASE table[n] # NoValue /\ value # NoValue
    <3>1. ExistingOutcomes(n, typed) = CreateOutcomes(names[n], table[n], value)
      BY <2>2 DEF ExistingOutcomes
    <3> QED BY <2>1, <3>1, StoreFits DEF CfgIInv
  <2>3. CASE table[n] = NoValue \/ value = NoValue
    <3>1. \A outcome \in ExistingOutcomes(n, typed) : outcome.value = table[n]
      BY <2>3 DEF ExistingOutcomes
    <3> QED BY <2>1, <3>1 DEF Store, CfgIInv, StoredFitCriteria
  <2> QED BY <2>2, <2>3
<1> QED
  BY <1>2, <1>3, <1>4, <1>5, <1>6, <1>7, <1>8, <1>9 DEF CfgNext, SetUp

(* Every value in the store of the configuration fits the criteria its     *)
(* name has now (iw_val_store_set checks it, and a name cannot change its  *)
(* criteria and keep its value).                                           *)
THEOREM CfgStoredFitCriteria == CfgSpec => []StoredFitCriteria
<1>1. CfgIInv => StoredFitCriteria
  BY DEF CfgIInv
<1> QED BY <1>1, CfgInitIInv, CfgStepIInv, PTL DEF CfgSpec

-----------------------------------------------------------------------------
(* The types.                                                              *)

\* The members of the two unions of record sets.
LEMMA Values ==
  ASSUME NEW type \in Type, NEW v \in Datum(type)
  PROVE  [type |-> type, v |-> v] \in Value
BY DEF Value

LEMMA ValueParts ==
  ASSUME NEW value \in Value
  PROVE  /\ value.type \in Type /\ value.v \in Datum(value.type)
         /\ value = [type |-> value.type, v |-> value.v]
BY DEF Value

\* A number that fits in an int is stored as it is, and others are cut to one.
LEMMA TruncatedIsInt ==
  ASSUME NEW number \in Int
  PROVE  Truncated(number) \in INT /\ (number \in INT => Truncated(number) = number)
<1> DEFINE half == INT_MAX + 1  range == 2 * half  shifted == number + half
<1>1. half \in Nat \ {0} /\ range \in Nat \ {0} /\ shifted \in Int
  BY ValStoreAssumption
<1>2. Truncated(number) = (shifted % range) - half
  <2>1. number + INT_MAX + 1 = shifted
    BY ValStoreAssumption
  <2> HIDE DEF shifted
  <2> QED
    BY <2>1 DEF Truncated
<1>3. shifted % range \in 0 .. range - 1
  <2> HIDE DEF range, shifted
  <2> QED
    BY <1>1
<1>4. ASSUME number \in INT PROVE shifted % range = shifted
  <2>1. shifted \in 0 .. range - 1
    BY <1>1, <1>4, ValStoreAssumption DEF INT
  <2> HIDE DEF range, shifted
  <2> QED
    BY <1>1, <2>1
<1> QED
  BY <1>1, <1>2, <1>3, <1>4, ValStoreAssumption DEF INT

LEMMA ValueOfText ==
  ASSUME NEW type \in Type, NEW typed \in Text
  PROVE  ValueOf(type, typed) \in Value \union {NoValue}
<1>1. CASE type = "STRING"
  <2>1. ValueOf(type, typed) = [type |-> "STRING", v |-> typed]
    BY <1>1 DEF ValueOf
  <2> QED
    BY <1>1, <2>1, Values DEF Datum, Type
<1>2. CASE type = "NUMBER"
  <2>1. CASE typed \in DOMAIN NumberOf
    <3>1. ValueOf(type, typed) = [type |-> "NUMBER", v |-> Truncated(NumberOf[typed])]
      BY <1>2, <2>1 DEF ValueOf
    <3>2. Truncated(NumberOf[typed]) \in INT
      BY <2>1, ValStoreAssumption, TruncatedIsInt
    <3> QED
      BY <1>2, <3>1, <3>2, Values DEF Datum, Type
  <2>2. CASE typed \notin DOMAIN NumberOf
    BY <1>2, <2>2 DEF ValueOf
  <2> QED
    BY <2>1, <2>2
<1>3. CASE type = "ADDRESS"
  <2>1. CASE typed \in DOMAIN AddressOf
    <3>1. ValueOf(type, typed) = [type |-> "ADDRESS", v |-> AddressOf[typed]]
      BY <1>3, <2>1 DEF ValueOf
    <3>2. AddressOf[typed] \in Address
      BY <2>1 DEF Address
    <3> QED
      BY <1>3, <3>1, <3>2, Values DEF Datum, Type
  <2>2. CASE typed \notin DOMAIN AddressOf
    BY <1>3, <2>2 DEF ValueOf
  <2> QED
    BY <2>1, <2>2
<1> QED
  BY <1>1, <1>2, <1>3 DEF Type

LEMMA FromJsonIsValue ==
  ASSUME NEW json \in Json, NEW value \in FromJson(json)
  PROVE  value \in Value
<1>1. CASE json.kind = "string"
  <2>1. value = [type |-> "STRING", v |-> json.v] /\ json.v \in Text
    BY <1>1 DEF FromJson, Json
  <2> QED
    BY <2>1, Values DEF Datum, Type
<1>2. CASE json.kind = "boolean"
  <2>1. value = [type |-> "NUMBER", v |-> json.v] /\ json.v \in {0, 1}
    BY <1>2 DEF FromJson, Json
  <2>2. json.v \in INT
    BY <2>1, ValStoreAssumption DEF INT
  <2> QED
    BY <2>1, <2>2, Values DEF Datum, Type
<1>3. CASE json.kind = "number"
  <2>1. value \in [type : {"NUMBER"}, v : IF json.v \in INT THEN {json.v} ELSE INT]
    BY <1>3 DEF FromJson
  <2>2. value = [type |-> "NUMBER", v |-> value.v] /\ value.v \in INT
    BY <2>1
  <2> QED
    BY <2>2, Values DEF Datum, Type
<1> QED
  BY <1>1, <1>2, <1>3 DEF Json

LEMMA JsonOfIsJson ==
  ASSUME NEW value \in Value
  PROVE  JsonOf(value) \in Json \union {NoValue}
<1>1. CASE value.type = "NUMBER"
  <2>1. JsonOf(value) = [kind |-> "number", v |-> value.v] /\ value.v \in INT
    BY <1>1, ValueParts DEF JsonOf, Datum
  <2> QED
    BY <2>1, ValStoreAssumption DEF Json, INT
<1>2. CASE value.type = "STRING"
  <2>1. CASE value.v \in Malformed
    <3>1. JsonOf(value) = NoValue
      BY <1>2, <2>1 DEF JsonOf
    <3> QED
      BY <3>1
  <2>2. CASE value.v \notin Malformed
    <3>1. JsonOf(value) = [kind |-> "string", v |-> value.v] /\ value.v \in Text
      BY <1>2, <2>2, ValueParts DEF JsonOf, Datum
    <3> QED
      BY <3>1 DEF Json
  <2> QED
    BY <2>1, <2>2
<1>3. CASE value.type = "ADDRESS"
  <2> DEFINE typed == CHOOSE typed \in DOMAIN AddressOf : AddressOf[typed] = value.v
  <2>1. value.v \in Address
    BY <1>3, ValueParts DEF Datum
  <2>2. typed \in Text
    BY <2>1, ValStoreAssumption DEF Address
  <2>3. JsonOf(value) = [kind |-> "string", v |-> typed]
    BY <1>3 DEF JsonOf
  <2> HIDE DEF typed
  <2> QED
    BY <2>2, <2>3 DEF Json
<1> QED
  BY <1>1, <1>2, <1>3, ValueParts DEF Type

\* What the calls answer and leave under a name.
LEMMA OutcomeTypes ==
  ASSUME NEW crit, NEW old \in Value \union {NoValue}, NEW value \in Value,
         NEW outcome \in CreateOutcomes(crit, old, value)
  PROVE  outcome.ret \in Answers /\ outcome.value \in Value \union {NoValue}
<1>1. Answer(crit, value) \in Answers
  BY DEF Answer, Answers
<1>2. \A o \in SetOutcomes(crit, old, value) :
        /\ o.ret \in Answers /\ o.value \in Value \union {NoValue}
        /\ [o EXCEPT !.ret = "OK"].ret = "OK" /\ [o EXCEPT !.ret = "OK"].value = o.value
  BY <1>1 DEF SetOutcomes, IfShort, Answers
<1>3. CASE outcome = [ret |-> "FAILED_TO_CREATE", value |-> old]
  BY <1>3 DEF Answers
<1>4. CASE \E o \in SetOutcomes(crit, old, value) : outcome = o \/ outcome = [o EXCEPT !.ret = "OK"]
  <2>1. PICK o \in SetOutcomes(crit, old, value) : outcome = o \/ outcome = [o EXCEPT !.ret = "OK"]
    BY <1>4
  <2>2. outcome.ret \in {o.ret, "OK"} /\ outcome.value = o.value
    BY <1>2, <2>1
  <2>3. "OK" \in Answers
    BY DEF Answers
  <2> QED
    BY <1>2, <2>2, <2>3
<1> QED
  BY <1>3, <1>4 DEF CreateOutcomes, IfShort

LEMMA StoreTypes ==
  ASSUME StoreTypeOK, NEW n \in Name, NEW crit, NEW value \in Value,
         Store(n, CreateOutcomes(crit, table[n], value))
  PROVE  /\ table' \in [Name -> Value \union {NoValue}]
         /\ ret' \in Answers
<1>1. table[n] \in Value \union {NoValue}
  BY DEF StoreTypeOK
<1>2. PICK outcome \in CreateOutcomes(crit, table[n], value) :
        ret' = outcome.ret /\ table' = [table EXCEPT ![n] = outcome.value]
  BY DEF Store
<1>3. outcome.ret \in Answers /\ outcome.value \in Value \union {NoValue}
  BY <1>1, OutcomeTypes
<1> QED
  BY <1>2, <1>3 DEF StoreTypeOK

LEMMA CfgTypeStep ==
  ASSUME CfgTypeOK, [CfgNext]_allVars
  PROVE  CfgTypeOK'
<1> USE DEF CfgTypeOK, StoreTypeOK
<1>1. CASE Boot \/ Start \/ UNCHANGED allVars
  BY <1>1 DEF Boot, Start, allVars, storeVars, cfgVars
<1>2. CASE Edit
  BY <1>2, CfgAssumption DEF Edit, storeVars
<1>3. CASE Stop
  BY <1>3 DEF Stop
<1>4. CASE Load
  BY <1>4 DEF Load, IfShort
<1>5. CASE SaveOpen
  <2>1. \A n \in Name : Collected(n) \subseteq Json \union {NoValue}
    BY JsonOfIsJson DEF Collected, IfShort
  <2>2. content' \in Content \union {Damaged}
    BY <1>5, <2>1 DEF SaveOpen, Content
  <2> QED
    BY <1>5, <2>2 DEF SaveOpen, Answers
<1>6. CASE SaveWrite
  BY <1>6 DEF SaveWrite, ReadAs
<1>7. ASSUME NEW d \in Declarations, AddSetting(d) \/ AddName(d) PROVE CfgTypeOK'
  <2>1. d.name \in Name /\ d.criteria \in Criteria /\ d.default \in Value \union {NoValue}
    BY CfgAssumption
  <2>2. names' \in [Name -> Criteria \union {NoCriteria}]
    BY <1>7, <2>1 DEF AddSetting, AddName, NamesWith, IfShort
  <2>3. /\ table' \in [Name -> Value \union {NoValue}]
        /\ ret' \in Answers \union {"none", "true", "false"}
    <3>1. CASE AddSetting(d) /\ d.default # NoValue
      <4>1. Store(d.name, CreateOutcomes(names'[d.name], table[d.name], d.default))
        BY <3>1 DEF AddSetting
      <4> QED
        BY <2>1, <3>1, <4>1, StoreTypes
    <3>2. CASE ~ (AddSetting(d) /\ d.default # NoValue)
      BY <1>7, <3>2 DEF AddSetting, AddName
    <3> QED
      BY <3>1, <3>2
  <2> QED
    BY <1>7, <2>2, <2>3 DEF AddSetting, AddName, cfgVars
<1>8. ASSUME NEW n \in Name, SetUp(n) PROVE CfgTypeOK'
  <2>1. CASE DeleteName(n)
    BY <1>8, <2>1 DEF SetUp, DeleteName, cfgVars
  <2>2. ASSUME NEW value \in Value, SetValue(n, value) PROVE CfgTypeOK'
    <3>1. table' \in [Name -> Value \union {NoValue}] /\ ret' \in Answers
      BY <2>2, StoreTypes DEF SetValue
    <3> QED
      BY <1>8, <2>2, <3>1 DEF SetUp, SetValue, cfgVars
  <2> QED
    BY <1>8, <2>1, <2>2 DEF SetUp
<1>9. ASSUME NEW n \in Name, NEW typed \in Text, AssignParameter(n, typed) PROVE CfgTypeOK'
  <2> DEFINE value == ValueOf(table[n].type, typed)
  <2>1. Store(n, ExistingOutcomes(n, typed))
    BY <1>9 DEF AssignParameter, SetExistingValue
  <2>2. table' \in [Name -> Value \union {NoValue}] /\ ret' \in Answers
    <3>1. CASE table[n] # NoValue /\ value # NoValue
      <4>1. ExistingOutcomes(n, typed) = CreateOutcomes(names[n], table[n], value)
        BY <3>1 DEF ExistingOutcomes
      <4>2. value \in Value
        BY <3>1, ValueParts, ValueOfText
      <4> QED
        BY <2>1, <4>1, <4>2, StoreTypes
    <3>2. CASE table[n] = NoValue \/ value = NoValue
      <4>1. \A outcome \in ExistingOutcomes(n, typed) :
              outcome.value = table[n] /\ outcome.ret \in Answers
        BY <3>2 DEF ExistingOutcomes, Answers
      <4> QED
        BY <2>1, <4>1 DEF Store
    <3> QED
      BY <3>1, <3>2
  <2> QED
    BY <1>9, <2>2 DEF AssignParameter, SetExistingValue
<1> QED
  BY <1>1, <1>2, <1>3, <1>4, <1>5, <1>6, <1>7, <1>8, <1>9 DEF CfgNext

(* The store and the configuration keep their types: what a load reads     *)
(* from any file, what is typed into the page and what is set become       *)
(* numbers that fit in an int, strings and addresses.                      *)
THEOREM CfgTypes == CfgSpec => []CfgTypeOK
<1>1. CfgInit => CfgTypeOK
  BY CfgAssumption DEF CfgInit, StoreInit, CfgTypeOK, StoreTypeOK
<1> QED
  BY <1>1, CfgTypeStep, PTL DEF CfgSpec

-----------------------------------------------------------------------------
(* The answers of the configuration page.                                  *)

(* After "OK" the value is what was typed, after a refusal nothing has     *)
(* changed, for every value, criteria and text but the three exceptions of *)
(* AnswersAreTrue.                                                         *)
THEOREM AnswersTrue == CfgSpec => AnswersAreTrue
<1> DEFINE True ==
      \A n \in Name, typed \in Text :
        /\ AssignParameter(n, typed)
        /\ table[n] # NoValue => table[n].type # "ADDRESS"
        /\ typed \in DOMAIN NumberOf => NumberOf[typed] \in INT
        => \/ ret' = "OK" /\ Reads(table'[n], typed)
           \/ ret' = "FAILED_TO_CREATE" /\ memory = "short"
           \/ ret' \notin {"OK", "FAILED_TO_CREATE"} /\ table' = table
<1>1. CfgTypeOK => True
  <2> SUFFICES ASSUME CfgTypeOK, NEW n \in Name, NEW typed \in Text, AssignParameter(n, typed),
                      table[n] # NoValue => table[n].type # "ADDRESS",
                      typed \in DOMAIN NumberOf => NumberOf[typed] \in INT
               PROVE  \/ ret' = "OK" /\ Reads(table'[n], typed)
                      \/ ret' = "FAILED_TO_CREATE" /\ memory = "short"
                      \/ ret' \notin {"OK", "FAILED_TO_CREATE"} /\ table' = table
    OBVIOUS
  <2> DEFINE old == table[n]  value == ValueOf(old.type, typed)
  <2>1. table \in [Name -> Value \union {NoValue}]
    BY DEF CfgTypeOK, StoreTypeOK
  <2>2. PICK outcome \in ExistingOutcomes(n, typed) :
          ret' = outcome.ret /\ table' = [table EXCEPT ![n] = outcome.value]
    BY DEF AssignParameter, SetExistingValue, Store
  <2>3. CASE old = NoValue \/ value = NoValue
    <3>1. outcome.value = old /\ outcome.ret \in {"NO_SUCH_VALUE", "FAILED_REGEXP"}
      BY <2>2, <2>3 DEF ExistingOutcomes
    <3> QED
      BY <2>1, <2>2, <3>1
  <2>4. CASE old # NoValue /\ value # NoValue
    <3>1. old.type \in {"NUMBER", "STRING"}
      BY <2>1, <2>4, ValueParts DEF Type
    <3>2. value.type # "ADDRESS" /\ Reads(value, typed)
      <4>1. CASE old.type = "STRING"
        <5>1. value = [type |-> "STRING", v |-> typed]
          BY <4>1 DEF ValueOf
        <5> QED
          BY <5>1 DEF Reads
      <4>2. CASE old.type = "NUMBER"
        <5>1. typed \in DOMAIN NumberOf /\ value = [type |-> "NUMBER", v |-> Truncated(NumberOf[typed])]
          BY <2>4, <4>2 DEF ValueOf
        <5>2. Truncated(NumberOf[typed]) = NumberOf[typed]
          BY <5>1, ValStoreAssumption, TruncatedIsInt
        <5> QED
          BY <5>1, <5>2 DEF Reads
      <4> QED
        BY <3>1, <4>1, <4>2
    <3> HIDE DEF value
    <3>3. outcome \in SetOutcomes(names[n], old, value)
            \union IfShort([ret |-> "FAILED_TO_CREATE", value |-> old])
      BY <2>2, <2>4, <3>2 DEF ExistingOutcomes, CreateOutcomes, value
    <3>4. CASE Answer(names[n], value) = "OK"
      BY <2>1, <2>2, <3>2, <3>3, <3>4 DEF SetOutcomes, IfShort
    <3>5. CASE Answer(names[n], value) # "OK"
      <4>1. Answer(names[n], value) # "FAILED_TO_CREATE"
        BY DEF Answer
      <4>2. \/ outcome = [ret |-> Answer(names[n], value), value |-> old]
            \/ memory = "short" /\ outcome.ret = "FAILED_TO_CREATE"
        BY <3>3, <3>5 DEF SetOutcomes, IfShort
      <4> QED
        BY <2>1, <2>2, <3>5, <4>1, <4>2
    <3> QED
      BY <3>4, <3>5
  <2> QED
    BY <2>3, <2>4
<1>2. CfgTypeOK /\ [CfgNext]_allVars => [True]_allVars
  BY <1>1
<1> QED
  BY <1>2, CfgTypes, PTL DEF CfgSpec, AnswersAreTrue

-----------------------------------------------------------------------------
(* What is saved comes back.                                               *)

\* What a save writes for a name when every allocation succeeds.
Kept(criteria, values, n) ==
  IF criteria[n] # NoCriteria /\ criteria[n].persist /\ values[n] # NoValue
  THEN JsonOf(values[n]) ELSE NoValue

KeptOf(criteria, values) == [n \in Name |-> Kept(criteria, values, n)]

\* The file is what was made from the store that `saved' remembers, or no JSON
\* when the parser refuses that, and what is being written is made from the
\* store as it still is.
SavedIsFile ==
  /\ saved # NoValue =>
       \A n \in Name : saved.table[n] # NoValue => Answer(saved.names[n], saved.table[n]) = "OK"
  /\ memory = "ample" /\ saved # NoValue =>
       file = ReadAs(KeptOf(saved.names, saved.table))
  /\ memory = "ample" /\ phase = "saving" =>
       content = KeptOf(names, table)

SavedIInv == CfgTypeOK /\ CfgIInv /\ SavedIsFile

LEMMA SavedStep ==
  ASSUME SavedIInv, [CfgNext]_allVars
  PROVE  SavedIsFile'
<1>1. CASE UNCHANGED <<names, table, memory, phase, file, content, saved>>
  BY <1>1 DEF SavedIInv, SavedIsFile
<1>2. CASE phase' # "saving" /\ UNCHANGED <<memory, file, saved>>
  BY <1>2 DEF SavedIInv, SavedIsFile
<1>3. CASE SaveOpen
  <2>1. CASE iw_cfg_file /\ phase' = "saving"
    <3>1. saved' = NoValue /\ memory' = memory /\ names' = names /\ table' = table
      BY <1>3, <2>1 DEF SaveOpen
    <3>2. ASSUME memory = "ample" PROVE content' = KeptOf(names, table)
      <4>1. \A n \in Name : content'[n] = Kept(names, table, n)
        BY <1>3, <2>1, <3>2 DEF SaveOpen, Collected, Persisted, IfShort, Kept
      <4>2. content' = [n \in Name |-> content'[n]]
        BY <1>3, <2>1 DEF SaveOpen
      <4> QED
        BY <4>1, <4>2 DEF KeptOf
    <3> QED
      BY <3>1, <3>2 DEF SavedIsFile
  <2> QED
    BY <1>2, <1>3, <2>1 DEF SaveOpen
<1>4. CASE SaveWrite
  <2>1. CASE file' = ReadAs(content) /\ saved' = [names |-> names, table |-> table]
    <3>1. saved'.names = names /\ saved'.table = table
      BY <2>1
    <3>2. phase = "saving" /\ phase' = "running" /\ memory' = memory
      BY <1>4 DEF SaveWrite
    <3>3. memory = "ample" => file' = ReadAs(KeptOf(names, table))
      BY <2>1, <3>2 DEF SavedIInv, SavedIsFile
    <3>4. \A n \in Name : table[n] # NoValue => Answer(names[n], table[n]) = "OK"
      BY DEF SavedIInv, CfgIInv, StoredFitCriteria
    <3> QED
      BY <3>1, <3>2, <3>3, <3>4 DEF SavedIsFile
  <2> QED
    BY <1>2, <1>4, <2>1 DEF SaveWrite
<1>5. CASE Edit
  BY <1>5 DEF Edit, storeVars, SavedIInv, SavedIsFile
<1>6. CASE UNCHANGED allVars
  BY <1>1, <1>6 DEF allVars, storeVars, cfgVars
<1>7. CASE Boot \/ Load \/ Start \/ Stop
  BY <1>2, <1>7 DEF Boot, Load, Start, Stop, storeVars
<1>8. ASSUME NEW d \in Declarations, AddSetting(d) \/ AddName(d) PROVE SavedIsFile'
  BY <1>2, <1>8 DEF AddSetting, AddName, cfgVars
<1>9. ASSUME NEW n \in Name, SetUp(n) PROVE SavedIsFile'
  BY <1>2, <1>9 DEF SetUp, DeleteName, SetValue, cfgVars
<1>10. ASSUME NEW n \in Name, NEW typed \in Text, AssignParameter(n, typed) PROVE SavedIsFile'
  BY <1>2, <1>10 DEF AssignParameter, SetExistingValue
<1> QED
  BY <1>3, <1>4, <1>5, <1>6, <1>7, <1>8, <1>9, <1>10 DEF CfgNext

LEMMA SavedInvariant == CfgSpec => []SavedIInv
<1>1. CfgInit => SavedIsFile
  BY DEF CfgInit, SavedIsFile
<1>2. SavedIInv /\ [CfgNext]_allVars => SavedIInv'
  BY CfgTypeStep, CfgStepIInv, SavedStep DEF SavedIInv
<1>3. CfgInit => CfgTypeOK
  BY CfgAssumption DEF CfgInit, StoreInit, CfgTypeOK, StoreTypeOK
<1> QED
  BY <1>1, <1>2, <1>3, CfgInitIInv, PTL DEF CfgSpec, SavedIInv

LEMMA NoValueIsNoJson == NoValue \notin Json
  BY CfgAssumption

\* A number or a string that was written is read as what it was.
LEMMA ReadBack ==
  ASSUME NEW value \in Value, Survivor(value)
  PROVE  FromJson(JsonOf(value)) = {value} /\ JsonOf(value) # NoValue
<1>1. CASE value.type = "NUMBER"
  <2>1. JsonOf(value) = [kind |-> "number", v |-> value.v] /\ value.v \in INT
    BY <1>1, ValueParts DEF JsonOf, Datum
  <2>2. FromJson(JsonOf(value)) = [type : {"NUMBER"}, v : {value.v}]
    <3> DEFINE json == JsonOf(value)
    <3>1. json.kind = "number" /\ json.v = value.v
      BY <2>1
    <3> HIDE DEF json
    <3>2. FromJson(json) = [type : {"NUMBER"}, v : IF json.v \in INT THEN {json.v} ELSE INT]
      BY <3>1 DEF FromJson
    <3> QED
      BY <2>1, <3>1, <3>2 DEF json
  <2>3. \A x \in [type : {"NUMBER"}, v : {value.v}] : x = [type |-> "NUMBER", v |-> value.v]
    OBVIOUS
  <2>4. value = [type |-> "NUMBER", v |-> value.v]
    BY <1>1, ValueParts
  <2>5. [type |-> "NUMBER", v |-> value.v] \in [type : {"NUMBER"}, v : {value.v}]
    OBVIOUS
  <2>6. JsonOf(value) # NoValue
    BY <2>1, NoValueIsNoJson, ValStoreAssumption DEF Json, INT
  <2> QED
    BY <2>2, <2>3, <2>4, <2>5, <2>6
<1>2. CASE value.type = "STRING"
  <2>1. JsonOf(value) = [kind |-> "string", v |-> value.v]
    BY <1>2 DEF JsonOf, Survivor
  <2>2. JsonOf(value) # NoValue
    BY <1>2, <2>1, ValueParts, NoValueIsNoJson DEF Json, Datum
  <2> QED
    BY <1>2, <2>1, <2>2, ValueParts DEF FromJson
<1> QED
  BY <1>1, <1>2 DEF Survivor

\* An address that was saved is read as a string, or was not printed.
LEMMA AddressReadBack ==
  ASSUME NEW value \in Value, value.type = "ADDRESS", NEW read \in FromJson(JsonOf(value))
  PROVE  read \in Value /\ read.type = "STRING" /\ JsonOf(value) # NoValue
<1> DEFINE typed == CHOOSE typed \in DOMAIN AddressOf : AddressOf[typed] = value.v
<1>1. typed \in Text
  BY ValueParts, ValStoreAssumption DEF Datum, Address
<1>2. JsonOf(value) = [kind |-> "string", v |-> typed]
  BY DEF JsonOf
<1> HIDE DEF typed
<1>3. JsonOf(value) \in Json
  BY <1>1, <1>2 DEF Json
<1>4. read.type = "STRING"
  BY <1>2 DEF FromJson
<1> QED
  BY <1>3, <1>4, FromJsonIsValue, NoValueIsNoJson

\* The strings of what was kept are the saved strings and the printed addresses.
LEMMA SpoiltWhen ==
  ASSUME CfgTypeOK, saved # NoValue
  PROVE  ReadAs(KeptOf(saved.names, saved.table)) =
           IF \E n \in Name : Spoils(n) THEN Damaged ELSE KeptOf(saved.names, saved.table)
<1> DEFINE json == KeptOf(saved.names, saved.table)
           Raw(n) == json[n] # NoValue /\ json[n].kind = "string" /\ json[n].v \in Control
<1>1. \A n \in Name : json[n] = Kept(saved.names, saved.table, n)
  BY DEF KeptOf
<1>2. json \in Content /\ json # Damaged
  <2>1. \A n \in Name : json[n] \in Json \union {NoValue}
    BY <1>1, JsonOfIsJson DEF CfgTypeOK, Kept
  <2>2. json \in Content
    BY <2>1 DEF KeptOf, Content
  <2> QED
    BY <2>2, CfgAssumption
<1>3. ASSUME NEW n \in Name PROVE Raw(n) <=> Spoils(n)
  <2> DEFINE value == saved.table[n]
             kept == saved.names[n] # NoCriteria /\ saved.names[n].persist /\ value # NoValue
  <2>1. CASE ~ kept
    BY <1>1, <2>1 DEF Kept, Spoils
  <2>2. CASE kept
    <3>1. json[n] = JsonOf(value) /\ value \in Value
      BY <1>1, <2>2 DEF Kept, CfgTypeOK
    <3>2. CASE value.type = "NUMBER"
      <4>1. JsonOf(value) = [kind |-> "number", v |-> value.v]
        BY <3>2 DEF JsonOf
      <4> QED
        BY <3>1, <3>2, <4>1 DEF Spoils
    <3>3. CASE value.type = "STRING" /\ value.v \in Malformed
      <4>1. JsonOf(value) = NoValue
        BY <3>3 DEF JsonOf
      <4> QED
        BY <3>1, <3>3, <4>1 DEF Spoils
    <3>4. CASE value.type = "STRING" /\ value.v \notin Malformed
      <4>1. JsonOf(value) = [kind |-> "string", v |-> value.v]
        BY <3>4 DEF JsonOf
      <4>2. JsonOf(value) # NoValue
        BY <3>1, <3>4, ReadBack DEF Survivor
      <4> QED
        BY <2>2, <3>1, <3>4, <4>1, <4>2 DEF Spoils
    <3>5. CASE value.type = "ADDRESS"
      <4> DEFINE typed == CHOOSE typed \in DOMAIN AddressOf : AddressOf[typed] = value.v
      <4>1. typed \in DOMAIN AddressOf
        BY <3>1, <3>5, ValueParts DEF Datum, Address
      <4>2. JsonOf(value) = [kind |-> "string", v |-> typed]
        BY <3>5 DEF JsonOf
      <4> HIDE DEF typed
      <4>3. typed \notin Control
        BY <4>1, CfgAssumption
      <4> QED
        BY <3>1, <3>5, <4>2, <4>3 DEF Spoils
    <3> QED
      BY <3>1, <3>2, <3>3, <3>4, <3>5, ValueParts DEF Type
  <2> QED
    BY <2>1, <2>2
<1> QED
  BY <1>2, <1>3 DEF ReadAs

(* A load of a file that the program has written to the end restores all   *)
(* numbers and strings of UTF-8 whose criteria are still what they were,   *)
(* unless one of the strings has a control character, when it restores     *)
(* nothing; whatever was set, saved, edited or cut off by a crash before.  *)
THEOREM SavedComesBack == CfgSpec => PersistedSurvive
<1> DEFINE Survives ==
      Load /\ memory = "ample" /\ saved # NoValue =>
        IF \E n \in Name : Spoils(n) THEN ret' = "false" /\ table' = table
        ELSE /\ ret' = "true"
             /\ \A n \in Name :
                  /\ ~Persisted(n) => table'[n] = table[n]
                  /\ Persisted(n) /\ saved.names[n] = names[n] =>
                       table'[n] = IF saved.table[n] # NoValue /\ Survivor(saved.table[n])
                                   THEN saved.table[n] ELSE table[n]
<1>1. SavedIInv => Survives
  <2> SUFFICES ASSUME SavedIInv, Load, memory = "ample", saved # NoValue PROVE Survives
    OBVIOUS
  <2>1. file = IF \E n \in Name : Spoils(n) THEN Damaged ELSE KeptOf(saved.names, saved.table)
    BY SpoiltWhen DEF SavedIInv, SavedIsFile
  <2>2. CASE \E n \in Name : Spoils(n)
    BY <2>1, <2>2 DEF Load
  <2>3. CASE ~ \E n \in Name : Spoils(n)
    <3>1. file = KeptOf(saved.names, saved.table)
      BY <2>1, <2>3
    <3>2. file # Damaged
      <4>1. \A n \in Name : Kept(saved.names, saved.table, n) \in Json \union {NoValue}
        BY JsonOfIsJson DEF SavedIInv, CfgTypeOK, Kept
      <4>2. KeptOf(saved.names, saved.table) \in Content
        BY <4>1 DEF KeptOf, Content
      <4> QED
        BY <3>1, <4>2, CfgAssumption
    <3>3. ret' = "true" /\ \A n \in Name : table'[n] \in Loaded(n)
      BY <3>2 DEF Load
    <3>4. ASSUME NEW n \in Name, Persisted(n), saved.names[n] = names[n]
          PROVE  table'[n] = IF saved.table[n] # NoValue /\ Survivor(saved.table[n])
                             THEN saved.table[n] ELSE table[n]
      <4> DEFINE value == saved.table[n]
      <4>1. file[n] = Kept(saved.names, saved.table, n)
        BY <3>1 DEF KeptOf
      <4>2. CASE value = NoValue
        <5>1. file[n] = NoValue
          BY <4>1, <4>2 DEF Kept
        <5> QED
          BY <3>3, <3>4, <4>2, <5>1 DEF Loaded
      <4>3. CASE value # NoValue
        <5>1. value \in Value /\ Answer(names[n], value) = "OK"
          BY <3>4, <4>3 DEF SavedIInv, SavedIsFile, CfgTypeOK
        <5>2. file[n] = JsonOf(value)
          BY <3>4, <4>1, <4>3 DEF Kept, Persisted
        <5>3. CASE Survivor(value)
          <6>1. FromJson(file[n]) = {value} /\ file[n] # NoValue
            BY <5>1, <5>2, <5>3, ReadBack
          <6>2. value.type # "ADDRESS"
            BY <5>3 DEF Survivor
          <6>3. CreateOutcomes(names[n], table[n], value) = {[ret |-> "OK", value |-> value]}
            BY <5>1, <6>2 DEF CreateOutcomes, SetOutcomes, IfShort
          <6>4. Loaded(n) = {outcome.value : outcome \in
                               UNION {CreateOutcomes(names[n], table[n], read) : read \in {value}}}
            BY <3>4, <6>1 DEF Loaded, IfShort
          <6>5. table'[n] = value
            <7> HIDE DEF value
            <7>1. \E read \in {value} : \E outcome \in CreateOutcomes(names[n], table[n], read) :
                    table'[n] = outcome.value
              BY <3>3, <6>4
            <7> QED
              BY <6>3, <7>1
          <6> QED
            BY <4>3, <5>3, <6>5
        <5>4. CASE value.type = "STRING" /\ value.v \in Malformed
          <6>1. file[n] = NoValue
            BY <5>2, <5>4 DEF JsonOf
          <6> QED
            BY <3>3, <5>4, <6>1 DEF Loaded, Survivor
        <5>5. CASE value.type = "ADDRESS"
          <6>1. names[n].type = "ADDRESS" /\ names[n] # NoCriteria
            BY <5>1, <5>5 DEF Answer
          <6>2. ASSUME NEW read \in FromJson(file[n])
                PROVE  CreateOutcomes(names[n], table[n], read)
                         = {[ret |-> "INCORRECT_TYPE", value |-> table[n]]}
            <7>1. read.type = "STRING"
              BY <5>1, <5>2, <5>5, <6>2, AddressReadBack
            <7>2. Answer(names[n], read) = "INCORRECT_TYPE"
              BY <6>1, <7>1 DEF Answer
            <7>3. SetOutcomes(names[n], table[n], read)
                    = {[ret |-> "INCORRECT_TYPE", value |-> table[n]]}
              BY <7>2 DEF SetOutcomes
            <7>4. IfShort([ret |-> "FAILED_TO_CREATE", value |-> table[n]]) = {}
              BY DEF IfShort
            <7>5. CreateOutcomes(names[n], table[n], read) = {} \union SetOutcomes(names[n], table[n], read)
              BY <7>1, <7>4 DEF CreateOutcomes
            <7> QED
              BY <7>3, <7>5
          <6>3. Loaded(n) \subseteq {table[n]}
            BY <6>2 DEF Loaded, IfShort
          <6>4. table'[n] = table[n] /\ ~ Survivor(value)
            BY <3>3, <5>5, <6>3 DEF Survivor
          <6> QED
            BY <6>4
        <5> QED
          BY <5>1, <5>3, <5>4, <5>5, ValueParts DEF Type, Survivor
      <4> QED
        BY <4>2, <4>3
    <3>5. ASSUME NEW n \in Name, ~Persisted(n) PROVE table'[n] = table[n]
      BY <3>3, <3>5 DEF Loaded
    <3> QED
      BY <2>3, <3>3, <3>4, <3>5
  <2> QED
    BY <2>2, <2>3
<1>2. SavedIInv /\ [CfgNext]_allVars => [Survives]_allVars
  BY <1>1
<1> QED
  BY <1>2, SavedInvariant, PTL DEF CfgSpec, PersistedSurvive

-----------------------------------------------------------------------------
(* The requests of the web server.  A token that was found is found again  *)
(* when more is there, so that each stage of the parser (iw_web_req.c),    *)
(* the line, the headers and the body, comes to the same whether what it   *)
(* reads arrived at once or in parts.                                      *)

(* Induction, and functions that call themselves.                          *)

(* A set of natural numbers has a least one.                               *)
LEMMA Least ==
  ASSUME NEW T \in SUBSET Nat, T # {}
  PROVE  \E x \in T : \A y \in T : x <= y
<1> DEFINE Below == OpToRel(<, Nat)
<1>1. IsWellFoundedOn(Below, Nat)
  BY NatLessThanWellFounded
<1>2. \A x, y \in Nat : y < x => <<y, x>> \in Below
  BY DEF OpToRel
<1> HIDE DEF Below
<1>3. PICK x \in T : \A y \in T : ~ (<<y, x>> \in Below)
  BY <1>1, WFMin
<1>4. \A y \in T : ~ (y < x)
  BY <1>2, <1>3
<1> QED
  BY <1>3, <1>4

(* Induction over the natural numbers, for sets of them.                   *)
LEMMA SetInduction ==
  ASSUME NEW S, 0 \in S, \A n \in Nat : n \in S => n + 1 \in S
  PROVE  Nat \subseteq S
<1> SUFFICES ASSUME NEW n \in Nat \ S PROVE FALSE
  OBVIOUS
<1>1. PICK x \in Nat \ S : \A y \in Nat \ S : x <= y
  BY Least
<1>2. x # 0 /\ x - 1 \in Nat
  BY <1>1
<1>3. x - 1 \in S
  BY <1>1, <1>2
<1> QED
  BY <1>1, <1>2, <1>3

\* A walk over the numbers: it stops with a value or goes on at another number.
IsWalk(f, Ends, val, next, comb) ==
  \A r \in Nat : f[r] = IF r \in Ends THEN val[r] ELSE comb[r][f[next[r]]]

GoesUp(n, Ends, next) == \A r \in Nat \ Ends : r < next[r] /\ r < n

(* A walk, each step of which goes on at a higher number, and that starts  *)
(* no step from n on, has a result from each number.                       *)
LEMMA ForwardWalk ==
  ASSUME NEW n \in Nat, NEW S, NEW Ends \in SUBSET Nat, NEW val \in [Nat -> S],
         NEW next \in [Nat -> Nat], NEW comb \in [Nat -> [S -> S]], GoesUp(n, Ends, next)
  PROVE  \E f \in [Nat -> S] : IsWalk(f, Ends, val, next, comb)
<1> USE DEF GoesUp, IsWalk
<1> DEFINE Rhs(f, r) == IF r \in Ends THEN val[r] ELSE comb[r][f[next[r]]]
           Good(f, k) == \A r \in Nat : r >= n - k => f[r] = Rhs(f, r)
           Can(k) == \E f \in [Nat -> S] : Good(f, k)
           Done == {k \in Nat : Can(k)}
<1>1. Can(0)
  <2>1. \A r \in Nat : r >= n => r \in Ends
    OBVIOUS
  <2>2. Good(val, 0)
    BY <2>1
  <2> QED
    BY <2>2
<1>2. ASSUME NEW k \in Nat, Can(k) PROVE Can(k + 1)
  <2>1. PICK f \in [Nat -> S] : Good(f, k)
    BY <1>2
  <2> DEFINE at == n - (k + 1)
  <2>2. CASE at \notin Nat
    <3>1. Good(f, k + 1)
      BY <2>1, <2>2
    <3> QED
      BY <3>1
  <2>3. CASE at \in Nat
    <3> DEFINE g == [f EXCEPT ![at] = Rhs(f, at)]
    <3>1. Rhs(f, at) \in S
      <4>1. comb[at] \in [S -> S] /\ f[next[at]] \in S
        BY <2>3
      <4> QED
        BY <4>1, <2>3
    <3>2. g \in [Nat -> S]
      BY <3>1
    <3>3. ASSUME NEW r \in Nat, r >= n - (k + 1) PROVE g[r] = Rhs(g, r)
      <4>1. r \notin Ends => next[r] \in Nat /\ next[r] > r
        OBVIOUS
      <4>2. Rhs(g, r) = Rhs(f, r)
        BY <4>1, <3>3, <2>3
      <4>3. CASE r = at
        BY <4>2, <4>3
      <4>4. CASE r # at
        BY <4>2, <4>4, <3>3, <2>1
      <4> QED
        BY <4>3, <4>4
    <3>4. Good(g, k + 1)
      BY <3>3
    <3> HIDE DEF g
    <3>5. \E h \in [Nat -> S] : Good(h, k + 1)
      BY <3>2, <3>4
    <3> QED
      BY <3>5
  <2> HIDE DEF Can
  <2> QED
    BY <2>2, <2>3
<1> HIDE DEF Can
<1>3. Nat \subseteq Done
  <2>1. 0 \in Done /\ \A j \in Nat : j \in Done => j + 1 \in Done
    BY <1>1, <1>2
  <2> HIDE DEF Done
  <2> QED
    BY <2>1, SetInduction
<1>4. Can(n)
  BY <1>3
<1>5. PICK f \in [Nat -> S] : Good(f, n)
  BY <1>4 DEF Can
<1>6. \A r \in Nat : r >= n - n
  OBVIOUS
<1> QED
  BY <1>5, <1>6

(* Induction from above: what holds of a number if it holds of all larger  *)
(* ones, and of all from n on in any case.                                 *)
LEMMA BackwardInduction ==
  ASSUME NEW n \in Nat, NEW S,
         \A p \in Nat : (p < n => \A q \in Nat : q > p => q \in S) => p \in S
  PROVE  Nat \subseteq S
<1> DEFINE Done == {k \in Nat : \A p \in Nat : p >= n - k => p \in S}
<1>1. 0 \in Done
  OBVIOUS
<1>2. ASSUME NEW k \in Nat, k \in Done PROVE k + 1 \in Done
  <2> SUFFICES ASSUME NEW p \in Nat, p >= n - (k + 1) PROVE p \in S
    OBVIOUS
  <2>1. \A q \in Nat : q > p => q \in S
    <3>1. \A q \in Nat : q > p => q >= n - k
      OBVIOUS
    <3> QED
      BY <1>2, <3>1
  <2> QED
    BY <2>1
<1>3. Nat \subseteq Done
  <2> HIDE DEF Done
  <2> QED
    BY <1>1, <1>2, SetInduction
<1> QED
  BY <1>3

-----------------------------------------------------------------------------
(* Tokens.                                                                 *)

FoundAt(buff, size, offset, token, p, length) ==
  /\ p \in Nat /\ offset <= p /\ p + length <= size
  /\ \A more \in Nat : more >= size => FindToken(buff, more, offset, token) = p

(* A token that is found is there, and what is found in a part is what is  *)
(* found in all of it.                                                     *)
LEMMA TokenFound ==
  ASSUME NEW buff, NEW size \in Nat, NEW offset \in Nat, NEW token, Len(token) \in Nat,
         FindToken(buff, size, offset, token) # NoMatch
  PROVE  FoundAt(buff, size, offset, token, FindToken(buff, size, offset, token), Len(token))
<1> DEFINE Places(s) == {p \in offset .. s : IsToken(buff, s, p, token)}
           p == FindToken(buff, size, offset, token)
<1>1. Places(size) # {} /\ p = Min(Places(size)) /\ Places(size) \in SUBSET Nat
  BY DEF FindToken
<1>2. PICK q \in Places(size) : \A x \in Places(size) : q <= x
  <2> HIDE DEF Places
  <2> QED
    BY <1>1, Least
<1>3. p = q
  BY <1>1, <1>2 DEF Min
<1>4. p \in Nat /\ offset <= p /\ p + Len(token) <= size
  BY <1>2, <1>3 DEF IsToken
<1>5. ASSUME NEW more \in Nat, more >= size PROVE FindToken(buff, more, offset, token) = p
  <2>1. p \in Places(more)
    BY <1>2, <1>3, <1>4, <1>5 DEF IsToken
  <2>2. ASSUME NEW x \in Places(more) PROVE p <= x
    <3>1. CASE x + Len(token) <= size
      <4>1. x \in Places(size)
        BY <3>1 DEF IsToken
      <4> QED
        BY <1>2, <1>3, <4>1
    <3>2. CASE x + Len(token) > size
      BY <1>4, <3>2
    <3> QED
      BY <3>1, <3>2
  <2>3. Min(Places(more)) = p
    BY <2>1, <2>2 DEF Min
  <2> QED
    BY <2>1, <2>3 DEF FindToken
<1> QED
  BY <1>4, <1>5 DEF FoundAt

(* A token that is there stays where it is.                                *)
LEMMA TokenStays ==
  ASSUME NEW buff, NEW size \in Nat, NEW offset \in Nat, NEW token, Len(token) \in Nat,
         NEW more \in Nat, more >= size, IsToken(buff, size, offset, token)
  PROVE  IsToken(buff, more, offset, token)
BY DEF IsToken

\* What is between two places of a part of the text.
Within(index, from, to) ==
  /\ index.start \in Nat /\ index.len \in Nat
  /\ from <= index.start /\ index.start + index.len <= to

LEMMA TrimmedIs ==
  ASSUME NEW buff, NEW from \in Nat, NEW to \in Nat, from <= to
  PROVE  /\ Within(Trimmed(buff, from, to), from, to)
         /\ Trimmed(buff, from, to) \in [start : Nat, len : Nat]
BY DEF Within, Trimmed, Index

LEMMA BlankFound ==
  ASSUME NEW buff, NEW size \in Nat, NEW offset \in Nat, FindToken(buff, size, offset, <<" ">>) # NoMatch
  PROVE  FoundAt(buff, size, offset, <<" ">>, FindToken(buff, size, offset, <<" ">>), 1)
<1> DEFINE token == <<" ">>
<1>1. Len(token) = 1 /\ Len(token) \in Nat
  OBVIOUS
<1> HIDE DEF token
<1>2. FindToken(buff, size, offset, token) # NoMatch
  BY DEF token
<1>3. FoundAt(buff, size, offset, token, FindToken(buff, size, offset, token), Len(token))
  BY <1>1, <1>2, TokenFound
<1>4. FoundAt(buff, size, offset, token, FindToken(buff, size, offset, token), 1)
  BY ONLY <1>1, <1>3 DEF FoundAt
<1> QED
  BY <1>4 DEF token

LEMMA ColonFound ==
  ASSUME NEW buff, NEW size \in Nat, NEW offset \in Nat, FindToken(buff, size, offset, <<":">>) # NoMatch
  PROVE  FoundAt(buff, size, offset, <<":">>, FindToken(buff, size, offset, <<":">>), 1)
<1> DEFINE token == <<":">>
<1>1. Len(token) = 1 /\ Len(token) \in Nat
  OBVIOUS
<1> HIDE DEF token
<1>2. FindToken(buff, size, offset, token) # NoMatch
  BY DEF token
<1>3. FoundAt(buff, size, offset, token, FindToken(buff, size, offset, token), Len(token))
  BY <1>1, <1>2, TokenFound
<1>4. FoundAt(buff, size, offset, token, FindToken(buff, size, offset, token), 1)
  BY ONLY <1>1, <1>3 DEF FoundAt
<1> QED
  BY <1>4 DEF token

LEMMA LineEndFound ==
  ASSUME NEW buff, NEW size \in Nat, NEW offset \in Nat, FindToken(buff, size, offset, CRLF) # NoMatch
  PROVE  FoundAt(buff, size, offset, CRLF, FindToken(buff, size, offset, CRLF), 2)
<1>1. Len(CRLF) = 2 /\ Len(CRLF) \in Nat
  BY DEF CRLF
<1>2. FoundAt(buff, size, offset, CRLF, FindToken(buff, size, offset, CRLF), Len(CRLF))
  BY <1>1, TokenFound
<1> QED
  BY ONLY <1>1, <1>2 DEF FoundAt

-----------------------------------------------------------------------------
(* The request line.                                                       *)

\* The fields of a request that the parser has to find its way by.
Started(r, size) ==
  /\ DOMAIN r = DOMAIN EmptyReq
  /\ r.parse_point \in 0 .. size /\ r.method \in Methods \union {"NONE"}
  /\ r.headers = <<>> /\ r.headers_complete = FALSE /\ r.complete = FALSE

LEMMA LineTypes ==
  ASSUME NEW buff, NEW size \in Nat
  PROVE  LET line == RequestLine(buff, EmptyReq, size) IN
           /\ Started(line.req, size)
           /\ line.result \in {"INCOMPLETE", "ERROR", "LINE"}
           /\ line.result = "INCOMPLETE" => line.req = EmptyReq
           /\ line.result = "LINE" => line.req.method \in Methods
<1> DEFINE blank1  == FindToken(buff, size, 0, <<" ">>)
           method  == Trimmed(buff, 0, blank1)
           blank2  == FindToken(buff, size, blank1 + 1, <<" ">>)
           end     == FindToken(buff, size, blank2 + 1, CRLF)
           uri     == Trimmed(buff, blank1 + 1, blank2)
           uriEnd  == uri.start + uri.len
           mark    == FindToken(buff, uriEnd, blank1 + 1, <<"?">>)
           path    == Index(blank1 + 1, mark - blank1 - 1)
           query   == Query(buff, mark + 1, uriEnd, blank2 + 1)
           read    == [EmptyReq EXCEPT !.parse_point = blank1 + 1]
           methodR == [read EXCEPT !.method = Word(buff, method)]
           pathR   == [methodR EXCEPT !.uri = uri, !.path = uri, !.parse_point = blank2 + 1]
           uriR    == IF mark = NoMatch THEN pathR
                      ELSE [pathR EXCEPT !.path = path, !.parameters = query]
           version == Trimmed(buff, blank2 + 1, end)
           whole   == [uriR EXCEPT !.version = version, !.parse_point = end + 2]
           noLine  == FindToken(buff, size, 0, CRLF) = NoMatch
           line    == RequestLine(buff, EmptyReq, size)
<1>1. line = IF noLine THEN Outcome(EmptyReq, "INCOMPLETE")
             ELSE IF blank1 = NoMatch THEN Outcome(EmptyReq, "ERROR")
             ELSE IF Word(buff, method) \notin Methods THEN Outcome(read, "ERROR")
             ELSE IF blank2 = NoMatch THEN Outcome(methodR, "ERROR")
             ELSE IF end = NoMatch THEN Outcome(uriR, "ERROR")
             ELSE Outcome(whole, "LINE")
  BY DEF RequestLine
<1>2. blank1 # NoMatch => blank1 \in Nat /\ blank1 + 1 <= size
  BY BlankFound DEF FoundAt
<1>3. blank1 # NoMatch /\ blank2 # NoMatch => blank2 \in Nat /\ blank2 + 1 <= size
  <2> HIDE DEF blank1
  <2>1. blank1 # NoMatch => blank1 + 1 \in Nat
    BY <1>2
  <2> DEFINE from == blank1 + 1
  <2> HIDE DEF from
  <2>2. from \in Nat /\ FindToken(buff, size, from, <<" ">>) # NoMatch =>
          /\ FindToken(buff, size, from, <<" ">>) \in Nat
          /\ FindToken(buff, size, from, <<" ">>) + 1 <= size
    BY BlankFound DEF FoundAt
  <2> QED
    BY <2>1, <2>2 DEF from
<1>4. blank1 # NoMatch /\ blank2 # NoMatch /\ end # NoMatch => end \in Nat /\ end + 2 <= size
  <2> HIDE DEF blank1, blank2
  <2>1. blank1 # NoMatch /\ blank2 # NoMatch => blank2 + 1 \in Nat
    BY <1>3
  <2> DEFINE from == blank2 + 1
  <2> HIDE DEF from
  <2>2. from \in Nat /\ FindToken(buff, size, from, CRLF) # NoMatch =>
          /\ FindToken(buff, size, from, CRLF) \in Nat /\ FindToken(buff, size, from, CRLF) + 2 <= size
    BY LineEndFound DEF FoundAt
  <2> QED
    BY <2>1, <2>2 DEF from
<1> HIDE DEF noLine, line, blank1, blank2, end, method, uri, uriEnd, mark, path, query, version
<1>5. Started(EmptyReq, size) /\ EmptyReq.method = "NONE"
  BY DEF Started, EmptyReq
<1>6. blank1 # NoMatch => Started(read, size)
  BY <1>2, <1>5 DEF Started, EmptyReq
<1> HIDE DEF read
<1>7. blank1 # NoMatch /\ Word(buff, method) \in Methods =>
        Started(methodR, size) /\ methodR.method \in Methods
  BY <1>6 DEF Started, EmptyReq
<1> HIDE DEF methodR
<1>8. blank1 # NoMatch /\ Word(buff, method) \in Methods /\ blank2 # NoMatch =>
        Started(pathR, size) /\ pathR.method \in Methods
  BY <1>3, <1>7 DEF Started, EmptyReq
<1> HIDE DEF pathR
<1>9. blank1 # NoMatch /\ Word(buff, method) \in Methods /\ blank2 # NoMatch =>
        Started(uriR, size) /\ uriR.method \in Methods
  BY <1>8 DEF Started, EmptyReq
<1> HIDE DEF uriR
<1>10. blank1 # NoMatch /\ Word(buff, method) \in Methods /\ blank2 # NoMatch /\ end # NoMatch =>
        Started(whole, size) /\ whole.method \in Methods
  BY <1>4, <1>9 DEF Started, EmptyReq
<1> HIDE DEF whole
<1> QED
  BY <1>1, <1>5, <1>6, <1>7, <1>9, <1>10 DEF Outcome, line

(* A request line that is there stays as it is.                            *)
LEMMA LineStays ==
  ASSUME NEW buff, NEW size \in Nat, NEW more \in Nat, more >= size,
         RequestLine(buff, EmptyReq, size).result = "LINE"
  PROVE  RequestLine(buff, EmptyReq, more) = RequestLine(buff, EmptyReq, size)
<1> DEFINE blank1 == FindToken(buff, size, 0, <<" ">>)
           blank2 == FindToken(buff, size, blank1 + 1, <<" ">>)
           end    == FindToken(buff, size, blank2 + 1, CRLF)
<1>1. FindToken(buff, size, 0, CRLF) # NoMatch /\ blank1 # NoMatch /\ blank2 # NoMatch /\ end # NoMatch
  BY DEF RequestLine, Outcome
<1>2. FindToken(buff, more, 0, CRLF) = FindToken(buff, size, 0, CRLF)
  BY <1>1, LineEndFound DEF FoundAt
<1>3. blank1 \in Nat /\ FindToken(buff, more, 0, <<" ">>) = blank1
  BY <1>1, BlankFound DEF FoundAt
<1>4. blank2 \in Nat /\ FindToken(buff, more, blank1 + 1, <<" ">>) = blank2
  <2> DEFINE from == blank1 + 1
  <2>1. from \in Nat
    <3>1. blank1 \in Nat
      BY <1>3
    <3> HIDE DEF blank1, blank2
    <3> QED
      BY ONLY <3>1
  <2>2. FindToken(buff, size, from, <<" ">>) # NoMatch
    BY <1>1
  <2> HIDE DEF blank1, from
  <2>3. /\ FindToken(buff, size, from, <<" ">>) \in Nat
        /\ FindToken(buff, more, from, <<" ">>) = FindToken(buff, size, from, <<" ">>)
    BY <2>1, <2>2, BlankFound DEF FoundAt
  <2> QED
    BY <2>3 DEF from
<1>5. FindToken(buff, more, blank2 + 1, CRLF) = end
  <2> DEFINE from == blank2 + 1
  <2>1. from \in Nat
    <3>1. blank2 \in Nat
      BY <1>4
    <3> HIDE DEF blank1, blank2
    <3> QED
      BY ONLY <3>1
  <2>2. FindToken(buff, size, from, CRLF) # NoMatch
    BY <1>1
  <2> HIDE DEF blank1, blank2, from
  <2>3. FindToken(buff, more, from, CRLF) = FindToken(buff, size, from, CRLF)
    BY <2>1, <2>2, LineEndFound DEF FoundAt
  <2> QED
    BY <2>3 DEF from
<1> QED
  BY <1>2, <1>3, <1>4, <1>5, ZenonT(60) DEF RequestLine

-----------------------------------------------------------------------------
(* The headers.                                                            *)

Colon(buff, size, p) == FindToken(buff, size, p, <<":">>)
LineEnd(buff, size, p) == FindToken(buff, size, Colon(buff, size, p) + 1, CRLF)
NextLine(buff, size, p) == LineEnd(buff, size, p) + 2

HeaderAt(buff, size, p) ==
  [name  |-> Trimmed(buff, p, Colon(buff, size, p)),
   value |-> Trimmed(buff, Colon(buff, size, p) + 1, LineEnd(buff, size, p))]

\* The parser is not past the header line at p.
Stops(buff, size, p) ==
  \/ IsToken(buff, size, p, CRLF) \/ FindToken(buff, size, p, CRLF) = NoMatch
  \/ Colon(buff, size, p) = NoMatch \/ LineEnd(buff, size, p) = NoMatch

\* What it returns from there.
Halted(buff, size, p) ==
  IF IsToken(buff, size, p, CRLF) THEN [result |-> "BODY", point |-> p + 2, found |-> <<>>]
  ELSE IF FindToken(buff, size, p, CRLF) = NoMatch
       THEN [result |-> "INCOMPLETE", point |-> p, found |-> <<>>]
  ELSE IF Colon(buff, size, p) = NoMatch THEN [result |-> "ERROR", point |-> p, found |-> <<>>]
  ELSE [result |-> "ERROR", point |-> Colon(buff, size, p) + 1, found |-> <<>>]

Indices == [start : Nat, len : Nat]
HeaderSet == {h \in [name : Indices, value : Indices] : h.name.start + h.name.len < h.value.start}
Reading == [result : {"BODY", "INCOMPLETE", "ERROR"}, point : Nat, found : Seq(HeaderSet)]

(* A header line that is there is between its ends, and stays as it is.    *)
LEMMA HeaderLine ==
  ASSUME NEW buff, NEW size \in Nat, NEW p \in Nat, ~Stops(buff, size, p)
  PROVE  /\ HeaderAt(buff, size, p) \in HeaderSet
         /\ NextLine(buff, size, p) \in Nat
         /\ p < NextLine(buff, size, p) /\ NextLine(buff, size, p) <= size
         /\ \A more \in Nat : more >= size => /\ ~Stops(buff, more, p)
                                            /\ NextLine(buff, more, p) = NextLine(buff, size, p)
                                            /\ HeaderAt(buff, more, p) = HeaderAt(buff, size, p)
<1> DEFINE colon == Colon(buff, size, p)
           end   == LineEnd(buff, size, p)
<1>1. FoundAt(buff, size, p, <<":">>, colon, 1)
  BY ColonFound DEF Stops, Colon
<1>2. colon \in Nat /\ p <= colon /\ colon + 1 <= size
  BY <1>1 DEF FoundAt
<1>3. ASSUME NEW more \in Nat, more >= size PROVE Colon(buff, more, p) = colon
  BY <1>1, <1>3 DEF FoundAt, Colon
<1> HIDE DEF colon
<1>4. colon + 1 \in Nat
  BY <1>2
<1>5. end = FindToken(buff, size, colon + 1, CRLF) /\ end # NoMatch
  BY DEF LineEnd, Stops, colon
<1>6. FoundAt(buff, size, colon + 1, CRLF, end, 2)
  <2> DEFINE from == colon + 1
  <2>1. from \in Nat /\ end = FindToken(buff, size, from, CRLF)
    BY <1>4, <1>5
  <2> HIDE DEF from, end
  <2>2. FoundAt(buff, size, from, CRLF, end, 2)
    BY <1>5, <2>1, LineEndFound
  <2> QED
    BY <2>2 DEF from
<1>7. end \in Nat /\ colon + 1 <= end /\ end + 2 <= size
  <2> HIDE DEF end
  <2> QED
    BY <1>6 DEF FoundAt
<1>8. ASSUME NEW more \in Nat, more >= size PROVE LineEnd(buff, more, p) = end
  <2>1. FindToken(buff, more, colon + 1, CRLF) = end
    <3> HIDE DEF end
    <3> QED
      BY <1>6, <1>8 DEF FoundAt
  <2> QED
    BY <1>3, <1>8, <2>1 DEF LineEnd
<1>9. NextLine(buff, size, p) = end + 2
  BY DEF NextLine
<1>10. HeaderAt(buff, size, p) = [name  |-> Trimmed(buff, p, colon),
                                  value |-> Trimmed(buff, colon + 1, end)]
  BY DEF HeaderAt, colon
<1> HIDE DEF end
<1>11. HeaderAt(buff, size, p) \in HeaderSet
  <2>1. Within(Trimmed(buff, p, colon), p, colon) /\ Trimmed(buff, p, colon) \in Indices
    BY <1>2, TrimmedIs DEF Indices
  <2>2. /\ Within(Trimmed(buff, colon + 1, end), colon + 1, end)
        /\ Trimmed(buff, colon + 1, end) \in Indices
    <3> DEFINE from == colon + 1
    <3>1. from \in Nat /\ from <= end
      BY <1>2, <1>7
    <3> HIDE DEF from
    <3>2. Within(Trimmed(buff, from, end), from, end) /\ Trimmed(buff, from, end) \in Indices
      BY <1>7, <3>1, TrimmedIs DEF Indices
    <3> QED
      BY <3>2 DEF from
  <2> DEFINE name  == Trimmed(buff, p, colon)
             value == Trimmed(buff, colon + 1, end)
  <2> HIDE DEF name, value
  <2>3. name.start + name.len < value.start
    BY <1>2, <2>1, <2>2 DEF Within, name, value
  <2>4. [name |-> name, value |-> value] \in HeaderSet
    BY <2>1, <2>2, <2>3 DEF HeaderSet, name, value
  <2> QED
    BY <1>10, <2>4 DEF name, value
<1>12. FindToken(buff, size, p, CRLF) # NoMatch /\ ~IsToken(buff, size, p, CRLF)
  BY DEF Stops
<1>13. FoundAt(buff, size, p, CRLF, FindToken(buff, size, p, CRLF), 2)
  BY <1>12, LineEndFound
<1>14. p + 2 <= size
  BY <1>13 DEF FoundAt
<1>15. ASSUME NEW more \in Nat, more >= size
       PROVE  /\ ~Stops(buff, more, p) /\ NextLine(buff, more, p) = NextLine(buff, size, p)
              /\ HeaderAt(buff, more, p) = HeaderAt(buff, size, p)
  <2>1. ~IsToken(buff, more, p, CRLF)
    <3>1. Len(CRLF) = 2
      BY DEF CRLF
    <3> QED
      BY <1>12, <1>14, <1>15, <3>1 DEF IsToken
  <2>2. FindToken(buff, more, p, CRLF) # NoMatch
    BY <1>12, <1>13, <1>15 DEF FoundAt
  <2>3. Colon(buff, more, p) = Colon(buff, size, p) /\ LineEnd(buff, more, p) = LineEnd(buff, size, p)
    BY <1>3, <1>8, <1>15 DEF colon, end
  <2> QED
    BY <2>1, <2>2, <2>3 DEF Stops, NextLine, HeaderAt
<1> QED
  BY <1>2, <1>7, <1>9, <1>11, <1>15

LEMMA HaltedIs ==
  ASSUME NEW buff, NEW size \in Nat, NEW p \in Nat, Stops(buff, size, p)
  PROVE  /\ Halted(buff, size, p) \in Reading
         /\ p <= size => Halted(buff, size, p).point <= size
<1>1. Colon(buff, size, p) # NoMatch => Colon(buff, size, p) \in Nat /\ Colon(buff, size, p) + 1 <= size
  BY ColonFound DEF FoundAt, Colon
<1>2. IsToken(buff, size, p, CRLF) => p + 2 <= size
  <2>1. Len(CRLF) = 2
    BY DEF CRLF
  <2> QED
    BY <2>1 DEF IsToken
<1>3. <<>> \in Seq(HeaderSet)
  OBVIOUS
<1> QED
  BY <1>1, <1>2, <1>3 DEF Halted, Reading

\* One line of the headers, and those that follow it.
Line(buff, size, p, rest) ==
  IF Stops(buff, size, p) THEN Halted(buff, size, p)
  ELSE [rest EXCEPT !.found = <<HeaderAt(buff, size, p)>> \o @]

(* The headers are read line by line, as their definition says.            *)
LEMMA HeadersAre ==
  ASSUME NEW buff, NEW size \in Nat
  PROVE  \A p \in Nat : /\ HeadersFrom(buff, size, p) \in Reading
                        /\ HeadersFrom(buff, size, p) =
                             Line(buff, size, p, HeadersFrom(buff, size, NextLine(buff, size, p)))
<1> DEFINE Ends  == {p \in Nat : Stops(buff, size, p)}
           val   == [p \in Nat |-> IF Stops(buff, size, p) THEN Halted(buff, size, p) ELSE
                                   [result |-> "ERROR", point |-> 0, found |-> <<>>]]
           next  == [p \in Nat |-> IF Stops(buff, size, p) THEN p ELSE NextLine(buff, size, p)]
           comb  == [p \in Nat |-> [rest \in Reading |-> Line(buff, size, p, rest)]]
           Entry(f, p) == Line(buff, size, p, f[NextLine(buff, size, p)])
           headers == CHOOSE f : f = [p \in Nat |-> Entry(f, p)]
<1>1. \A p \in Nat : ~Stops(buff, size, p) => /\ NextLine(buff, size, p) \in Nat
                                        /\ p < NextLine(buff, size, p) /\ NextLine(buff, size, p) <= size
                                        /\ HeaderAt(buff, size, p) \in HeaderSet
  BY HeaderLine
<1>2. ASSUME NEW p \in Nat, NEW rest \in Reading PROVE Line(buff, size, p, rest) \in Reading
  <2>1. CASE Stops(buff, size, p)
    BY <2>1, HaltedIs DEF Line
  <2>2. CASE ~Stops(buff, size, p)
    <3>1. <<HeaderAt(buff, size, p)>> \o rest.found \in Seq(HeaderSet)
      BY <1>1, <2>2 DEF Reading
    <3> QED
      BY <2>2, <3>1 DEF Line, Reading
  <2> QED
    BY <2>1, <2>2
<1>3. /\ Ends \in SUBSET Nat /\ next \in [Nat -> Nat] /\ comb \in [Nat -> [Reading -> Reading]]
  BY <1>1, <1>2
<1>4. val \in [Nat -> Reading]
  <2>1. [result |-> "ERROR", point |-> 0, found |-> <<>>] \in Reading
    BY DEF Reading
  <2> QED
    BY <2>1, HaltedIs
<1>5. GoesUp(size, Ends, next)
  BY <1>1 DEF GoesUp
<1>6. PICK f \in [Nat -> Reading] : IsWalk(f, Ends, val, next, comb)
  <2> HIDE DEF Ends, val, next, comb
  <2> QED
    BY <1>3, <1>4, <1>5, ForwardWalk
<1>7. ASSUME NEW p \in Nat PROVE f[p] = Entry(f, p)
  <2>1. CASE Stops(buff, size, p)
    BY <1>6, <2>1 DEF IsWalk, Line
  <2>2. CASE ~Stops(buff, size, p)
    <3>1. NextLine(buff, size, p) \in Nat /\ f[NextLine(buff, size, p)] \in Reading
      BY <1>1, <2>2
    <3>2. f[p] = comb[p][f[next[p]]]
      BY <1>6, <2>2 DEF IsWalk
    <3> QED
      BY <2>2, <3>1, <3>2
  <2> QED
    BY <2>1, <2>2
<1>8. f = [p \in Nat |-> Entry(f, p)]
  <2> HIDE DEF Entry
  <2> QED
    BY <1>7
<1>9. headers = [p \in Nat |-> Entry(headers, p)]
  <2> HIDE DEF Entry
  <2> QED
    BY <1>8
<1>10. \A p \in Nat : HeadersFrom(buff, size, p) = headers[p]
  BY ZenonT(60) DEF HeadersFrom, Line, Stops, Halted, NextLine, LineEnd, Colon, HeaderAt
<1>11. \A p \in Nat : headers[p] = Entry(headers, p)
  <2> HIDE DEF Entry, headers
  <2> QED
    BY <1>9
<1> DEFINE Good == {p \in Nat : headers[p] \in Reading}
<1>12. Nat \subseteq Good
  <2>1. ASSUME NEW p \in Nat, p < size => \A q \in Nat : q > p => q \in Good PROVE p \in Good
    <3> HIDE DEF headers
    <3>1. CASE Stops(buff, size, p)
      <4>1. headers[p] = Halted(buff, size, p)
        BY <1>11, <3>1 DEF Line
      <4> QED
        BY <3>1, <4>1, HaltedIs
    <3>2. CASE ~Stops(buff, size, p)
      <4>1. headers[NextLine(buff, size, p)] \in Reading
        BY <1>1, <2>1, <3>2
      <4> QED
        BY <1>2, <1>11, <4>1
    <3> QED
      BY <3>1, <3>2
  <2> HIDE DEF Good
  <2> QED
    BY <2>1, BackwardInduction
<1>13. ASSUME NEW p \in Nat
       PROVE  HeadersFrom(buff, size, p) =
                Line(buff, size, p, HeadersFrom(buff, size, NextLine(buff, size, p)))
  <2> HIDE DEF headers
  <2>1. CASE Stops(buff, size, p)
    BY <1>10, <1>11, <2>1 DEF Line
  <2>2. CASE ~Stops(buff, size, p)
    <3>1. HeadersFrom(buff, size, NextLine(buff, size, p)) = headers[NextLine(buff, size, p)]
      BY <1>1, <1>10, <2>2
    <3> QED
      BY <1>10, <1>11, <3>1
  <2> QED
    BY <2>1, <2>2
<1>14. \A p \in Nat : HeadersFrom(buff, size, p) \in Reading
  <2> HIDE DEF headers
  <2> QED
    BY <1>10, <1>12
<1> QED
  BY <1>13, <1>14

LEMMA HeadersEnd ==
  ASSUME NEW buff, NEW size \in Nat
  PROVE  \A p \in 0 .. size : HeadersFrom(buff, size, p).point <= size
<1> DEFINE Good == {p \in Nat : p <= size => HeadersFrom(buff, size, p).point <= size}
<1>1. ASSUME NEW p \in Nat, p < size => \A q \in Nat : q > p => q \in Good PROVE p \in Good
  <2>1. CASE Stops(buff, size, p)
    <3>1. HeadersFrom(buff, size, p) = Halted(buff, size, p)
      BY <2>1, HeadersAre DEF Line
    <3> QED
      BY <2>1, <3>1, HaltedIs
  <2>2. CASE ~Stops(buff, size, p)
    <3> DEFINE q == NextLine(buff, size, p)
    <3>1. q \in Nat /\ p < q /\ q <= size
      BY <2>2, HeaderLine
    <3>4. HeadersFrom(buff, size, p) =
            [HeadersFrom(buff, size, q) EXCEPT !.found = <<HeaderAt(buff, size, p)>> \o @]
      <4>1. HeadersFrom(buff, size, p) = Line(buff, size, p, HeadersFrom(buff, size, q))
        BY HeadersAre
      <4> HIDE DEF q
      <4> QED
        BY <2>2, <4>1 DEF Line
    <3> HIDE DEF q
    <3>2. HeadersFrom(buff, size, q) \in Reading
      BY <3>1, HeadersAre
    <3>3. HeadersFrom(buff, size, p).point = HeadersFrom(buff, size, q).point
      BY <3>2, <3>4 DEF Reading
    <3> QED
      BY <1>1, <3>1, <3>3
  <2> QED
    BY <2>1, <2>2
<1>2. Nat \subseteq Good
  <2> HIDE DEF Good
  <2> QED
    BY <1>1, BackwardInduction
<1> QED
  BY <1>2

\* The headers that were read, and those that are read when there is more.
Resumed(buff, size, more, p) ==
  LET part == HeadersFrom(buff, size, p)
      all  == HeadersFrom(buff, more, p)
      rest == HeadersFrom(buff, more, part.point)
  IN /\ part.result = "BODY" => all = part
     /\ part.result = "INCOMPLETE" => all = [rest EXCEPT !.found = part.found \o @]

(* The headers are the same whether they are read at once or in two parts, *)
(* of which the first ends anywhere.                                       *)
LEMMA HeadersResume ==
  ASSUME NEW buff, NEW size \in Nat, NEW more \in Nat, more >= size
  PROVE  \A p \in Nat : Resumed(buff, size, more, p)
<1> DEFINE Good == {p \in Nat : Resumed(buff, size, more, p)}
<1>1. ASSUME NEW p \in Nat, p < size => \A q \in Nat : q > p => q \in Good PROVE p \in Good
  <2> DEFINE part == HeadersFrom(buff, size, p)
             all  == HeadersFrom(buff, more, p)
  <2>1. part \in Reading /\ all \in Reading
    BY HeadersAre
  <2>2. CASE Stops(buff, size, p)
    <3>1. part = Halted(buff, size, p)
      BY <2>2, HeadersAre DEF Line
    <3>2. CASE part.result = "BODY"
      <4>1. IsToken(buff, size, p, CRLF)
        BY <3>1, <3>2 DEF Halted
      <4>2. Len(CRLF) \in Nat
        BY DEF CRLF
      <4>3. IsToken(buff, more, p, CRLF)
        BY <4>1, <4>2, TokenStays
      <4>4. all = Halted(buff, more, p)
        BY <4>3, HeadersAre DEF Line, Stops
      <4> QED
        BY <3>1, <3>2, <4>1, <4>3, <4>4 DEF Halted, Resumed
    <3>3. CASE part.result = "INCOMPLETE"
      <4>1. part.point = p /\ part.found = <<>>
        BY <3>1, <3>3 DEF Halted
      <4>2. <<>> \o all.found = all.found
        BY <2>1 DEF Reading
      <4>3. [all EXCEPT !.found = <<>> \o @] = all
        BY <2>1, <4>2 DEF Reading
      <4> QED
        BY <3>3, <4>1, <4>3 DEF Resumed
    <3> QED
      BY <3>2, <3>3 DEF Resumed
  <2>3. CASE ~Stops(buff, size, p)
    <3> DEFINE q == NextLine(buff, size, p)
               h == HeaderAt(buff, size, p)
               partq == HeadersFrom(buff, size, q)
               allq  == HeadersFrom(buff, more, q)
               rest  == HeadersFrom(buff, more, partq.point)
    <3>1. /\ q \in Nat /\ p < q /\ q <= size /\ h \in HeaderSet
          /\ ~Stops(buff, more, p) /\ NextLine(buff, more, p) = q /\ HeaderAt(buff, more, p) = h
      BY <2>3, HeaderLine
    <3>2. /\ part = [partq EXCEPT !.found = <<h>> \o @]
          /\ all = [allq EXCEPT !.found = <<h>> \o @]
      <4>1. /\ part = Line(buff, size, p, partq)
            /\ all = Line(buff, more, p, HeadersFrom(buff, more, NextLine(buff, more, p)))
        BY HeadersAre
      <4>2. all = Line(buff, more, p, allq)
        BY <3>1, <4>1
      <4> HIDE DEF part, all, partq, allq, q
      <4> QED
        BY <2>3, <3>1, <4>1, <4>2 DEF Line
    <3>3. Resumed(buff, size, more, q)
      BY <1>1, <3>1
    <3> HIDE DEF q, h
    <3>4. partq \in Reading /\ allq \in Reading
      BY <3>1, HeadersAre
    <3>5. rest \in Reading
      <4>1. partq.point \in Nat
        BY <3>4 DEF Reading
      <4> QED
        BY <4>1, HeadersAre
    <3>6. /\ partq.result = "BODY" => allq = partq
          /\ partq.result = "INCOMPLETE" => allq = [rest EXCEPT !.found = partq.found \o @]
      BY <3>3 DEF Resumed
    <3> HIDE DEF partq, allq, rest, part, all
    <3>7. part.result = partq.result /\ part.point = partq.point /\ part.found = <<h>> \o partq.found
      BY <3>2, <3>4 DEF Reading
    <3>8. part.result = "BODY" => all = part
      BY <3>2, <3>6, <3>7
    <3>9. ASSUME part.result = "INCOMPLETE"
          PROVE  all = [rest EXCEPT !.found = part.found \o @]
      <4>1. allq = [rest EXCEPT !.found = partq.found \o @]
        BY <3>6, <3>7, <3>9
      <4>2. <<h>> \o (partq.found \o rest.found) = (<<h>> \o partq.found) \o rest.found
        <5>1. <<h>> \in Seq(HeaderSet) /\ partq.found \in Seq(HeaderSet) /\ rest.found \in Seq(HeaderSet)
          BY <3>1, <3>4, <3>5 DEF Reading
        <5> DEFINE a == <<h>>
                   b == partq.found
                   c == rest.found
        <5>2. a \in Seq(HeaderSet) /\ b \in Seq(HeaderSet) /\ c \in Seq(HeaderSet)
          BY <5>1
        <5> HIDE DEF a, b, c
        <5>3. (a \o b) \o c = a \o (b \o c)
          BY ONLY <5>2, ConcatAssociative
        <5> QED
          BY <5>3 DEF a, b, c
      <4>3. all = [rest EXCEPT !.found = <<h>> \o (partq.found \o rest.found)]
        BY <3>2, <3>5, <4>1 DEF Reading
      <4> QED
        BY <3>7, <4>2, <4>3
    <3>10. rest = HeadersFrom(buff, more, part.point)
      BY <3>7 DEF rest
    <3> QED
      BY <3>8, <3>9, <3>10 DEF Resumed, part, all
  <2> QED
    BY <2>2, <2>3
<1>2. Nat \subseteq Good
  <2> HIDE DEF Good
  <2> QED
    BY <1>1, BackwardInduction
<1> QED
  BY <1>2

-----------------------------------------------------------------------------
(* The body.                                                               *)

(* Some member of a set of places is the last.                             *)
LEMMA MaxIs ==
  ASSUME NEW n \in Nat, NEW S \in SUBSET (1 .. n), S # {}
  PROVE  Max(S) \in S
<1> DEFINE T == {n - i : i \in S}
<1>1. T \in SUBSET Nat /\ T # {}
  <2>1. \A i \in S : i \in Nat /\ i <= n
    OBVIOUS
  <2>2. \A i \in S : n - i \in Nat
    BY <2>1
  <2>3. PICK i \in S : TRUE
    OBVIOUS
  <2>4. n - i \in T
    OBVIOUS
  <2> QED
    BY <2>2, <2>4
<1>2. PICK x \in T : \A y \in T : x <= y
  <2> HIDE DEF T
  <2> QED
    BY <1>1, Least
<1>3. PICK i \in S : x = n - i
  BY <1>2
<1>4. ASSUME NEW j \in S PROVE i >= j
  <2>1. n - i <= n - j
    BY <1>2, <1>3
  <2> QED
    BY <2>1
<1> QED
  BY <1>4 DEF Max

\* A request whose line and some of whose headers have been read.
Read(r, size) ==
  /\ DOMAIN r = DOMAIN EmptyReq
  /\ r.parse_point \in 0 .. size /\ r.method \in Methods
  /\ r.headers \in Seq(HeaderSet) /\ r.headers_complete \in BOOLEAN /\ r.complete = FALSE

LEMMA BodyLengthIs ==
  ASSUME NEW buff, NEW r, r.headers \in Seq(HeaderSet)
  PROVE  BodyLength(buff, r) \in Nat
<1> DEFINE lengths == {i \in Named(buff, r, "Content-Length") :
                         Word(buff, r.headers[i].value) \in DOMAIN LengthOf}
<1>1. CASE lengths = {}
  BY <1>1 DEF BodyLength
<1>2. CASE lengths # {}
  <2>1. Len(r.headers) \in Nat /\ lengths \in SUBSET (1 .. Len(r.headers))
    BY DEF Named
  <2>2. Max(lengths) \in lengths
    <3> HIDE DEF lengths
    <3> QED
      BY <1>2, <2>1, MaxIs
  <2>3. LengthOf[Word(buff, r.headers[Max(lengths)].value)] \in Nat
    BY <2>2, WebReqAssumption
  <2>4. BodyLength(buff, r) = LengthOf[Word(buff, r.headers[Max(lengths)].value)]
    BY <1>2 DEF BodyLength
  <2> QED
    BY <2>3, <2>4
<1> QED
  BY <1>1, <1>2

\* What the parser may come to.
Parsing(outcome, size) ==
  /\ outcome = Outcome(outcome.req, outcome.result)
  /\ outcome.req.parse_point \in 0 .. size
  /\ outcome.req.method \in Methods \union {"NONE"}
  /\ outcome.req.headers \in Seq(HeaderSet)
  /\ outcome.result \in {"COMPLETE", "INCOMPLETE", "ERROR", "CRASH"}
  /\ outcome.req.complete <=> outcome.result = "COMPLETE"

LEMMA CompleteIs ==
  ASSUME NEW buff, NEW size \in Nat, NEW r, Read(r, size)
  PROVE  Parsing(Complete(buff, r), size) /\ Complete(buff, r).result \in {"COMPLETE", "CRASH"}
<1> DEFINE found == IF IsForm(buff, r)
                    THEN Query(buff, r.content.start, r.content.start + r.content.len, r.parse_point)
                    ELSE <<>>
           more  == [r EXCEPT !.parameters = @ \o found, !.complete = TRUE]
<1>1. Complete(buff, r) = IF Contains(found, NullRead) THEN Outcome(r, "CRASH")
                    ELSE Outcome(more, "COMPLETE")
  BY DEF Complete
<1> HIDE DEF found
<1>2. /\ more.parse_point = r.parse_point /\ more.method = r.method /\ more.headers = r.headers
      /\ more.complete = TRUE
  BY DEF Read, EmptyReq
<1> HIDE DEF more
<1>3. Parsing(Outcome(r, "CRASH"), size)
  BY DEF Parsing, Read, Outcome
<1>4. Parsing(Outcome(more, "COMPLETE"), size)
  BY <1>2 DEF Parsing, Read, Outcome
<1> QED
  BY <1>1, <1>3, <1>4 DEF Outcome

LEMMA BodyIs ==
  ASSUME NEW buff, NEW size \in Nat, NEW r, Read(r, size)
  PROVE  /\ Parsing(Body(buff, r, size), size)
         /\ Body(buff, r, size).result \in {"COMPLETE", "INCOMPLETE", "CRASH"}
         /\ Body(buff, r, size).result = "INCOMPLETE" => Body(buff, r, size).req = r
         /\ \A more \in Nat : more >= size /\ Body(buff, r, size).result = "COMPLETE" =>
                                Body(buff, r, more) = Body(buff, r, size)
<1>1. BodyLength(buff, r) \in Nat /\ r.parse_point \in Nat /\ r.parse_point <= size
  BY BodyLengthIs DEF Read
<1>2. Parsing(Outcome(r, "INCOMPLETE"), size)
  BY DEF Parsing, Read, Outcome
<1>3. CASE BodyLength(buff, r) = 0
  BY <1>3, CompleteIs DEF Body
<1>4. CASE BodyLength(buff, r) # 0 /\ size - r.parse_point < BodyLength(buff, r)
  BY <1>2, <1>4 DEF Body, Outcome
<1>5. CASE BodyLength(buff, r) # 0 /\ ~(size - r.parse_point < BodyLength(buff, r))
  <2>1. r.parse_point + BodyLength(buff, r) \in 0 .. size
    BY <1>1, <1>5
  <2>2. Read(WithBody(buff, r), size)
    BY <2>1 DEF Read, WithBody, EmptyReq
  <2>3. Body(buff, r, size) = Complete(buff, WithBody(buff, r))
    BY <1>5 DEF Body
  <2>4. ASSUME NEW more \in Nat, more >= size
        PROVE  Body(buff, r, more) = Complete(buff, WithBody(buff, r))
    <3>1. ~(more - r.parse_point < BodyLength(buff, r))
      BY <1>1, <1>5, <2>4
    <3> QED
      BY <1>5, <3>1 DEF Body
  <2> QED
    BY <2>2, <2>3, <2>4, CompleteIs
<1> QED
  BY <1>3, <1>4, <1>5

-----------------------------------------------------------------------------
(* The parser.                                                             *)

\* A request with the headers that were read after its line.
WithHeaders(r, read) ==
  [r EXCEPT !.parse_point = read.point, !.headers = @ \o read.found,
            !.headers_complete = (read.result = "BODY")]

\* What becomes of a request with its line.
Continued(buff, r, read, size) ==
  IF read.result # "BODY" THEN Outcome(WithHeaders(r, read), read.result)
  ELSE Body(buff, WithHeaders(r, read), size)

LEMMA WithHeadersIs ==
  ASSUME NEW buff, NEW size \in Nat, NEW r, NEW read \in Reading, DOMAIN r = DOMAIN EmptyReq,
         r.method \in Methods, r.complete = FALSE, r.headers \in Seq(HeaderSet), read.point <= size
  PROVE  /\ Read(WithHeaders(r, read), size)
         /\ WithHeaders(r, read).headers = r.headers \o read.found
         /\ WithHeaders(r, read).headers_complete <=> read.result = "BODY"
<1>1. /\ read.point \in 0 .. size /\ r.headers \o read.found \in Seq(HeaderSet)
      /\ (read.result = "BODY") \in BOOLEAN
  BY DEF Reading
<1> QED
  BY <1>1 DEF WithHeaders, Read, EmptyReq

\* The request with its line and the headers after it.
Line1(buff, size) == RequestLine(buff, EmptyReq, size)
Headers1(buff, size) == HeadersFrom(buff, size, Line1(buff, size).req.parse_point)

(* A request from its beginning.                                           *)
LEMMA ParsedIs ==
  ASSUME NEW buff, NEW size \in Nat
  PROVE  /\ Parsed(buff, EmptyReq, size) =
              IF Line1(buff, size).result # "LINE" THEN Line1(buff, size)
              ELSE Continued(buff, Line1(buff, size).req, Headers1(buff, size), size)
         /\ Headers1(buff, size) \in Reading
         /\ Line1(buff, size).result = "LINE" =>
              Read(WithHeaders(Line1(buff, size).req, Headers1(buff, size)), size)
<1> DEFINE r == Line1(buff, size).req
           read == Headers1(buff, size)
<1>1. Started(r, size) /\ (Line1(buff, size).result = "LINE" => r.method \in Methods)
  BY LineTypes DEF Line1
<1>2. r.parse_point \in 0 .. size /\ r.headers_complete = FALSE
  BY <1>1 DEF Started
<1>3. read \in Reading /\ read.point <= size
  BY <1>2, HeadersAre, HeadersEnd DEF Headers1
<1>4. Line1(buff, size).result = "LINE" => Read(WithHeaders(r, read), size)
  <2> SUFFICES ASSUME Line1(buff, size).result = "LINE" PROVE Read(WithHeaders(r, read), size)
    OBVIOUS
  <2>1. /\ DOMAIN r = DOMAIN EmptyReq /\ r.method \in Methods /\ r.complete = FALSE
        /\ r.headers \in Seq(HeaderSet)
    BY <1>1 DEF Started
  <2> HIDE DEF r, read
  <2> QED
    BY <1>3, <2>1, WithHeadersIs
<1>5. EmptyReq.method = "NONE"
  BY DEF EmptyReq
<1>6. Headers(buff, r, size) = Outcome(WithHeaders(r, read), read.result)
  BY <1>2 DEF Headers, WithHeaders, Headers1
<1>7. Parsed(buff, EmptyReq, size) = IF Line1(buff, size).result # "LINE" THEN Line1(buff, size)
                               ELSE Continued(buff, r, read, size)
  <2>1. Line1(buff, size) = RequestLine(buff, EmptyReq, size)
    BY DEF Line1
  <2> HIDE DEF read
  <2> QED
    BY <1>5, <1>6, <2>1 DEF Parsed, Continued, Outcome
<1> QED
  BY <1>3, <1>4, <1>7

LEMMA ParsedTypes ==
  ASSUME NEW buff, NEW size \in Nat
  PROVE  Parsing(Parsed(buff, EmptyReq, size), size)
<1> DEFINE h == WithHeaders(Line1(buff, size).req, Headers1(buff, size))
<1>1. CASE Line1(buff, size).result # "LINE"
  <2>1. Parsed(buff, EmptyReq, size) = Line1(buff, size)
    BY <1>1, ParsedIs
  <2>2. Started(Line1(buff, size).req, size) /\ Line1(buff, size).result \in {"INCOMPLETE", "ERROR"}
    BY <1>1, LineTypes DEF Line1
  <2>3. Line1(buff, size) = Outcome(Line1(buff, size).req, Line1(buff, size).result)
    BY DEF Line1, RequestLine, Outcome
  <2> QED
    BY <2>1, <2>2, <2>3 DEF Parsing, Started
<1>2. CASE Line1(buff, size).result = "LINE" /\ Headers1(buff, size).result # "BODY"
  <2>1. Parsed(buff, EmptyReq, size) = Outcome(h, Headers1(buff, size).result)
    BY <1>2, ParsedIs DEF Continued
  <2>2. Read(h, size) /\ Headers1(buff, size).result \in {"INCOMPLETE", "ERROR"}
    BY <1>2, ParsedIs DEF Reading
  <2> HIDE DEF h
  <2> QED
    BY <2>1, <2>2 DEF Parsing, Read, Outcome
<1>3. CASE Line1(buff, size).result = "LINE" /\ Headers1(buff, size).result = "BODY"
  <2>1. Parsed(buff, EmptyReq, size) = Body(buff, h, size) /\ Read(h, size)
    BY <1>3, ParsedIs DEF Continued
  <2> HIDE DEF h
  <2> QED
    BY <2>1, BodyIs
<1> QED
  BY <1>1, <1>2, <1>3

(* The parser that is called again when more has come finds what one finds *)
(* that gets all of it at once.                                            *)
LEMMA ParsingResumes ==
  ASSUME NEW buff, NEW size \in Nat, NEW more \in Nat, more >= size,
         Parsed(buff, EmptyReq, size).result = "INCOMPLETE"
  PROVE  Parsed(buff, Parsed(buff, EmptyReq, size).req, more) = Parsed(buff, EmptyReq, more)
<1> DEFINE r    == Line1(buff, size).req
           part == Headers1(buff, size)
           h    == WithHeaders(r, part)
<1>1. CASE Line1(buff, size).result # "LINE"
  <2>1. Parsed(buff, EmptyReq, size) = Line1(buff, size)
    BY <1>1, ParsedIs
  <2>2. Line1(buff, size).req = EmptyReq
    BY <2>1, LineTypes DEF Line1
  <2> QED
    BY <2>1, <2>2
<1>2. CASE Line1(buff, size).result = "LINE"
  <2>1. /\ Line1(buff, more) = Line1(buff, size)
        /\ Headers1(buff, more) = HeadersFrom(buff, more, r.parse_point)
    BY <1>2, LineStays DEF Line1, Headers1
  <2>2. Started(r, size) /\ r.method \in Methods
    BY <1>2, LineTypes DEF Line1
  <2>3. Parsed(buff, EmptyReq, more) = Continued(buff, r, HeadersFrom(buff, more, r.parse_point), more)
    BY <1>2, <2>1, ParsedIs
  <2>4. Parsed(buff, EmptyReq, size) = Continued(buff, r, part, size)
    BY <1>2, ParsedIs
  <2>5. part \in Reading /\ Read(h, size)
    BY <1>2, ParsedIs
  <2>6. part = HeadersFrom(buff, size, r.parse_point) /\ r.parse_point \in Nat
    BY <2>2 DEF Headers1, Started
  <2>7. Resumed(buff, size, more, r.parse_point)
    BY <2>6, HeadersResume
  <2> DEFINE all  == HeadersFrom(buff, more, r.parse_point)
             rest == HeadersFrom(buff, more, part.point)
  <2>8. all \in Reading /\ rest \in Reading
    <3>1. part.point \in Nat
      BY <2>5 DEF Reading
    <3> QED
      BY <2>6, <3>1, HeadersAre
  <2>9. /\ part.result = "BODY" => all = part
        /\ part.result = "INCOMPLETE" => all = [rest EXCEPT !.found = part.found \o @]
    BY <2>6, <2>7 DEF Resumed
  <2>10. h.method # "NONE" /\ h.headers_complete = (part.result = "BODY") /\ h.parse_point = part.point
         /\ h.headers = part.found
    <3>1. /\ DOMAIN r = DOMAIN EmptyReq /\ r.headers = <<>>
      BY <2>2 DEF Started
    <3>2. <<>> \o part.found = part.found
      BY <2>5 DEF Reading
    <3>3. h.method \in Methods
      BY <2>5 DEF Read
    <3> HIDE DEF r, part
    <3> QED
      BY <3>1, <3>2, <3>3 DEF WithHeaders, EmptyReq, Methods
  <2>11. Parsed(buff, h, more) = LET headers == Headers(buff, h, more) IN
                             IF headers.result # "BODY" THEN headers ELSE Body(buff, headers.req, more)
    <3> HIDE DEF h
    <3> QED
      BY <2>10 DEF Parsed, Outcome
  <2>12. CASE part.result = "BODY"
    <3>1. Parsed(buff, EmptyReq, size) = Body(buff, h, size) /\ Body(buff, h, size).result = "INCOMPLETE"
      BY <2>4, <2>12 DEF Continued
    <3>2. Parsed(buff, EmptyReq, size).req = h
      BY <2>5, <3>1, BodyIs
    <3>3. Parsed(buff, h, more) = Body(buff, h, more)
      <4> HIDE DEF h
      <4> QED
        BY <2>10, <2>11, <2>12 DEF Headers, Outcome
    <3>4. Parsed(buff, EmptyReq, more) = Body(buff, h, more)
      BY <2>3, <2>9, <2>12 DEF Continued
    <3> QED
      BY <3>2, <3>3, <3>4
  <2>13. CASE part.result # "BODY"
    <3>1. Parsed(buff, EmptyReq, size) = Outcome(h, part.result)
      BY <2>4, <2>13 DEF Continued
    <3>2. part.result = "INCOMPLETE" /\ Parsed(buff, EmptyReq, size).req = h
      BY <3>1 DEF Outcome
    <3>3. Headers(buff, h, more) = Outcome(WithHeaders(h, rest), rest.result)
      <4> HIDE DEF h, part
      <4> QED
        BY <2>10, <2>13 DEF Headers, WithHeaders
    <3>4. Parsed(buff, h, more) = Continued(buff, h, rest, more)
      <4> HIDE DEF h, rest
      <4> QED
        BY <2>11, <3>3 DEF Continued, Outcome
    <3>5. all.result = rest.result /\ all.point = rest.point /\ all.found = part.found \o rest.found
      <4> HIDE DEF all, rest, part
      <4> QED
        BY <2>8, <2>9, <3>2 DEF Reading
    <3>6. WithHeaders(h, rest) = WithHeaders(r, all)
      <4>1. DOMAIN r = DOMAIN EmptyReq /\ r.headers = <<>>
        BY <2>2 DEF Started
      <4>2. <<>> \o (part.found \o rest.found) = part.found \o rest.found
        <5>1. part.found \in Seq(HeaderSet) /\ rest.found \in Seq(HeaderSet)
          BY <2>5, <2>8 DEF Reading
        <5>2. part.found \o rest.found \in Seq(HeaderSet)
          BY <5>1
        <5> QED
          BY <5>2
      <4>3. <<>> \o part.found = part.found
        BY <2>5 DEF Reading
      <4> HIDE DEF r, part, all, rest
      <4> QED
        BY <3>5, <4>1, <4>2, <4>3 DEF WithHeaders, EmptyReq
    <3>7. Continued(buff, h, rest, more) = Continued(buff, r, all, more)
      <4> HIDE DEF h, r, all, rest
      <4> QED
        BY <3>5, <3>6 DEF Continued
    <3> QED
      BY <2>3, <3>2, <3>4, <3>7
  <2> QED
    BY <2>12, <2>13
<1> QED
  BY <1>1, <1>2

(* A request that is complete stays what it is.                            *)
LEMMA CompleteStays ==
  ASSUME NEW buff, NEW size \in Nat, NEW more \in Nat, more >= size,
         Parsed(buff, EmptyReq, size).result = "COMPLETE"
  PROVE  Parsed(buff, EmptyReq, more) = Parsed(buff, EmptyReq, size)
<1> DEFINE r    == Line1(buff, size).req
           part == Headers1(buff, size)
           h    == WithHeaders(r, part)
<1>1. Line1(buff, size).result = "LINE"
  <2>1. Line1(buff, size).result # "LINE" => Line1(buff, size).result = "COMPLETE"
    BY ParsedIs
  <2> QED
    BY <2>1, LineTypes DEF Line1
<1>2. /\ Line1(buff, more) = Line1(buff, size)
      /\ Headers1(buff, more) = HeadersFrom(buff, more, r.parse_point)
  BY <1>1, LineStays DEF Line1, Headers1
<1>3. Parsed(buff, EmptyReq, size) = Continued(buff, r, part, size) /\ part \in Reading /\ Read(h, size)
  BY <1>1, ParsedIs
<1>4. Parsed(buff, EmptyReq, more) = Continued(buff, r, HeadersFrom(buff, more, r.parse_point), more)
  BY <1>1, <1>2, ParsedIs
<1>5. part.result = "BODY"
  <2>1. part.result # "BODY" => part.result = "COMPLETE"
    BY <1>3 DEF Continued, Outcome
  <2>2. part.result # "COMPLETE"
    <3> HIDE DEF part
    <3> QED
      BY <1>3 DEF Reading
  <2> QED
    BY <2>1, <2>2
<1>6. HeadersFrom(buff, more, r.parse_point) = part
  <2>1. Started(r, size)
    BY LineTypes DEF Line1
  <2>2. r.parse_point \in Nat
    BY <2>1 DEF Started
  <2>3. Resumed(buff, size, more, r.parse_point)
    BY <2>2, HeadersResume
  <2>4. part = HeadersFrom(buff, size, r.parse_point)
    BY DEF Headers1
  <2> HIDE DEF part, r
  <2> QED
    BY <1>5, <2>3, <2>4 DEF Resumed
<1>7. Body(buff, h, size).result = "COMPLETE" /\ Parsed(buff, EmptyReq, size) = Body(buff, h, size)
  BY <1>3, <1>5 DEF Continued
<1>8. Body(buff, h, more) = Body(buff, h, size)
  BY <1>3, <1>7, BodyIs
<1> QED
  BY <1>4, <1>5, <1>6, <1>7, <1>8 DEF Continued

-----------------------------------------------------------------------------
(* The invariant.                                                          *)

ParserIInv ==
  /\ text \in Requests /\ sent = Len(text) /\ len \in 0 .. sent
  /\ len = 0 => req = EmptyReq /\ result = "none"
  /\ len > 0 => Parsed(text, EmptyReq, len) = Outcome(req, result)

LEMMA ParserStart == Init => ParserIInv
<1> SUFFICES ASSUME Init PROVE ParserIInv
  OBVIOUS
<1>1. text \in Seq(STRING)
  BY WebReqAssumption DEF Init
<1> QED
  BY <1>1 DEF Init, ParserIInv

LEMMA ParserStep == ParserIInv /\ [Next]_webReqVars => ParserIInv'
<1> SUFFICES ASSUME ParserIInv, [Next]_webReqVars PROVE ParserIInv'
  OBVIOUS
<1>1. text \in Seq(STRING) /\ sent \in Nat /\ len \in Nat
  BY WebReqAssumption DEF ParserIInv
<1>2. ASSUME NEW more \in 1 .. sent, Feed(more) PROVE ParserIInv'
  <2>1. /\ len' = len + more /\ len' \in Nat /\ len' >= len /\ len' \in 0 .. sent /\ len' > 0
        /\ text' = text /\ sent' = sent
    BY <1>1, <1>2 DEF Feed
  <2>2. Parsed(text, req, len') = Parsed(text, EmptyReq, len')
    <3>1. CASE len = 0
      BY <3>1 DEF ParserIInv
    <3>2. CASE len > 0
      <4>1. Parsed(text, EmptyReq, len).req = req /\ Parsed(text, EmptyReq, len).result = result
        BY <3>2 DEF ParserIInv, Outcome
      <4>2. result # "none"
        <5>1. Parsing(Parsed(text, EmptyReq, len), len)
          BY <1>1, ParsedTypes
        <5> QED
          BY <4>1, <5>1 DEF Parsing
      <4>3. result = "INCOMPLETE"
        BY <1>2, <4>2 DEF Feed
      <4> QED
        BY <1>1, <2>1, <4>1, <4>3, ParsingResumes
    <3> QED
      BY <1>1, <3>1, <3>2
  <2>3. req' = Parsed(text, req, len').req /\ result' = Parsed(text, req, len').result
    BY <1>2 DEF Feed, Parse
  <2>4. Parsed(text, EmptyReq, len') = Outcome(req', result')
    <3>1. Parsing(Parsed(text, EmptyReq, len'), len')
      BY <2>1, ParsedTypes
    <3> QED
      BY <2>2, <2>3, <3>1 DEF Parsing
  <2> QED
    BY <1>2, <2>1, <2>4 DEF ParserIInv
<1>3. ASSUME UNCHANGED webReqVars PROVE ParserIInv'
  BY <1>3 DEF ParserIInv, webReqVars
<1> QED
  BY <1>2, <1>3 DEF Next

LEMMA ParserInvariance == Spec => []ParserIInv
<1> QED
  BY ParserStart, ParserStep, PTL DEF Spec

(* Whatever is sent, and however it is cut, the parser (iw_web_req_parse)  *)
(* stays within what has arrived, reads a method that it knows or none,    *)
(* finds the name of each header before its value, and marks a request     *)
(* complete (req->complete) exactly when it says so.                       *)
THEOREM WebReqTypes == Spec => []WebReqTypeOK
<1>1. ParserIInv => WebReqTypeOK
  <2> SUFFICES ASSUME ParserIInv PROVE WebReqTypeOK
    OBVIOUS
  <2>1. text \in Seq(STRING) /\ sent \in Nat /\ len \in 0 .. Len(text) /\ len \in Nat
    BY WebReqAssumption DEF ParserIInv
  <2>2. CASE len = 0
    <3>1. req = EmptyReq /\ result = "none"
      BY <2>2 DEF ParserIInv
    <3> QED
      BY <2>1, <2>2, <3>1 DEF WebReqTypeOK, EmptyReq
  <2>3. CASE len > 0
    <3>1. Parsing(Parsed(text, EmptyReq, len), len)
      BY <2>1, ParsedTypes
    <3>2. Parsed(text, EmptyReq, len).req = req /\ Parsed(text, EmptyReq, len).result = result
      BY <2>3 DEF ParserIInv, Outcome
    <3>3. /\ req.parse_point \in 0 .. len /\ req.method \in Methods \union {"NONE"}
          /\ req.headers \in Seq(HeaderSet)
          /\ result \in {"COMPLETE", "INCOMPLETE", "ERROR", "CRASH"}
          /\ req.complete <=> result = "COMPLETE"
      BY <3>1, <3>2 DEF Parsing
    <3>4. ASSUME NEW i \in DOMAIN req.headers
          PROVE  req.headers[i].name.start + req.headers[i].name.len < req.headers[i].value.start
      <4>1. req.headers[i] \in HeaderSet
        BY <3>3
      <4> QED
        BY <4>1 DEF HeaderSet
    <3> QED
      BY <2>1, <3>3, <3>4 DEF WebReqTypeOK
  <2> QED
    BY <2>1, <2>2, <2>3
<1> QED
  BY <1>1, ParserInvariance, PTL

(* Every request, cut in every way, is parsed as it is when all of what    *)
(* has arrived is there at once, and one that iw_web_req_parse completed   *)
(* is complete, with the same fields, whatever it might have waited for.   *)
THEOREM CutsAgree == Spec => []CutsDoNotMatter
<1>1. ParserIInv => CutsDoNotMatter
  <2> SUFFICES ASSUME ParserIInv, result = "COMPLETE"
               PROVE  Parsed(text, EmptyReq, sent) = Outcome(req, result)
    BY DEF ParserIInv, CutsDoNotMatter
  <2>1. text \in Seq(STRING) /\ sent \in Nat /\ len \in Nat /\ len <= sent
    BY WebReqAssumption DEF ParserIInv
  <2>2. len > 0 /\ Parsed(text, EmptyReq, len) = Outcome(req, result)
    BY <2>1 DEF ParserIInv
  <2>3. Parsed(text, EmptyReq, len).result = "COMPLETE"
    BY <2>2 DEF Outcome
  <2> QED
    BY <2>1, <2>2, <2>3, CompleteStays
<1> QED
  BY <1>1, ParserInvariance, PTL
=============================================================================
