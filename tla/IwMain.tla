------------------------------- MODULE IwMain -------------------------------
(***************************************************************************)
(* The run of a server from iw_main to the end of iw_exit                  *)
(* (src/src/iw_main.c): the main thread, the command server thread with    *)
(* its "quit" command, the web server thread, the health thread, SIGINT,   *)
(* and the client threads of IwThread.  iw_main_loop_terminate runs where  *)
(* the request arrives: on the command server thread for "quit", in a      *)
(* signal handler on top of the main thread for SIGINT.                    *)
(***************************************************************************)
EXTENDS IwThread, Sequences

CONSTANTS Main, Cmd,      \* the two threads that can run a termination
          RequestSets     \* the termination requests a run may get

ASSUME MainAssumption ==
  /\ Caller = {Main, Cmd} /\ Main # Cmd
  /\ RequestSets \subseteq [quit : Nat, sigint : Nat]

VARIABLES
  pending,       \* the termination requests to come
  mainpc,        \* the main thread: "start", "loop", "exit", "exited", "killed"
  term,          \* per caller, where in iw_main_loop_terminate it is
  s_main_go,
  s_sigint_cnt,
  s_health_go,
  stop,          \* the termination callback has told the client threads to end
  cmdpc, webpc, healthpc,  \* the internal threads
  exitStep,      \* how many steps of iw_exit are done
  early          \* history: a request came before the client threads had run

mainVars == <<pending, mainpc, term, s_main_go, s_sigint_cnt, s_health_go, stop,
              cmdpc, webpc, healthpc, exitStep, early>>
mainAll == <<threadVars, mainVars>>

\* The modules in the order in which iw_exit ends them.
ExitOrder ==
  <<"cmdline", "web_gui", "health", "cmd_srv", "cmd", "syslog",
    "thread", "mutex", "memory", "cfg", "log">>

Ended == {ExitOrder[i] : i \in 1 .. exitStep}

MainTypeOK ==
  /\ ThreadTypeOK
  /\ pending \in [quit : Nat, sigint : Nat]
  /\ mainpc \in {"start", "loop", "exit", "exited", "killed"}
  /\ term \in [Caller -> {"no", "wait"}]
  /\ s_main_go \in BOOLEAN /\ s_health_go \in BOOLEAN /\ stop \in BOOLEAN
  /\ s_sigint_cnt \in Nat
  /\ cmdpc \in {"accept", "request", "answer", "end"}
  /\ webpc \in {"accept", "request", "answer", "end"}
  /\ healthpc \in {"check", "sleep", "end"}
  /\ exitStep \in 0 .. Len(ExitOrder)
  /\ early \in BOOLEAN

MainInit ==
  /\ ThreadInit
  /\ pending \in RequestSets
  /\ mainpc = "start"
  /\ term = [c \in Caller |-> "no"]
  /\ s_main_go = TRUE
  /\ s_sigint_cnt = 0
  /\ s_health_go = TRUE
  /\ stop = FALSE
  /\ cmdpc = "accept"
  /\ webpc = "accept"
  /\ healthpc = "check"
  /\ exitStep = 0
  /\ early = FALSE

Alive == mainpc # "killed"
InHandler == term[Main] # "no"

-----------------------------------------------------------------------------
(* The main thread.                                                        *)

\* main_fn: the program starts its client threads ...
MainFnCreate ==
  /\ mainpc = "start" /\ ~InHandler
  /\ \E w \in Worker : ThreadCreate(w)
  /\ UNCHANGED mainVars

\* ... and returns; the main thread sleeps in its loop.
MainFnReturn ==
  /\ mainpc = "start" /\ ~InHandler
  /\ mainpc' = "loop"
  /\ UNCHANGED <<threadVars, pending, term, s_main_go, s_sigint_cnt, s_health_go,
                 stop, cmdpc, webpc, healthpc, exitStep, early>>

\* The loop ends, iw_main returns and the program calls iw_exit.
MainLoopEnd ==
  /\ mainpc = "loop" /\ ~InHandler
  /\ ~s_main_go
  /\ mainpc' = "exit"
  /\ UNCHANGED <<threadVars, pending, term, s_main_go, s_sigint_cnt, s_health_go,
                 stop, cmdpc, webpc, healthpc, exitStep, early>>

\* Fault: no thread is joined.
ExitModule_NoJoin ==
  /\ mainpc = "exit" /\ ~InHandler
  /\ exitStep < Len(ExitOrder)
  /\ exitStep' = exitStep + 1
  /\ mainpc' = IF exitStep' = Len(ExitOrder) THEN "exited" ELSE "exit"
  /\ UNCHANGED <<threadVars, pending, term, s_main_go, s_sigint_cnt, s_health_go,
                 stop, cmdpc, webpc, healthpc, early>>

\* The next module of iw_exit.  The health flag is cleared on entry, the
\* sockets are shut down, and the modules with a thread join it.
ExitModule ==
  /\ mainpc = "exit" /\ ~InHandler
  /\ exitStep < Len(ExitOrder)
  /\ LET module == ExitOrder[exitStep + 1]
     IN /\ module = "web_gui" => webpc = "end"
        /\ module = "health" => healthpc = "end"
        /\ module = "cmd_srv" => cmdpc = "end"
  /\ exitStep' = exitStep + 1
  /\ mainpc' = IF exitStep' = Len(ExitOrder) THEN "exited" ELSE "exit"
  /\ UNCHANGED <<threadVars, pending, term, s_main_go, s_sigint_cnt, s_health_go,
                 stop, cmdpc, webpc, healthpc, early>>

\* iw_exit has come to a module: its thread is told to end.
Ending(module) ==
  /\ mainpc = "exit"
  /\ exitStep < Len(ExitOrder) /\ ExitOrder[exitStep + 1] = module

ExitHealthFlag ==
  /\ Ending("health") /\ s_health_go
  /\ s_health_go' = FALSE
  /\ UNCHANGED <<threadVars, pending, mainpc, term, s_main_go, s_sigint_cnt,
                 stop, cmdpc, webpc, healthpc, exitStep, early>>

-----------------------------------------------------------------------------
(* The internal threads.  Both servers serve one connection at a time: in  *)
(* "request" they wait in recv, with no timeout, for as long as the client *)
(* likes; in "answer" they go on by themselves.  An accept fails once the  *)
(* socket is shut down.                                                    *)

CmdAccept ==
  /\ cmdpc = "accept" /\ ~Ending("cmd_srv")
  /\ cmdpc' = "request"
  /\ UNCHANGED <<threadVars, pending, mainpc, term, s_main_go, s_sigint_cnt,
                 s_health_go, stop, webpc, healthpc, exitStep, early>>

\* The client sends a command other than "quit", or closes.
CmdRequest ==
  /\ cmdpc = "request"
  /\ cmdpc' = "answer"
  /\ UNCHANGED <<threadVars, pending, mainpc, term, s_main_go, s_sigint_cnt,
                 s_health_go, stop, webpc, healthpc, exitStep, early>>

\* The command is executed and answered, and the connection closed; or the
\* thread ends.
CmdServe ==
  /\ \/ cmdpc = "answer" /\ term[Cmd] = "no" /\ cmdpc' = "accept"
     \/ cmdpc = "accept" /\ Ending("cmd_srv") /\ cmdpc' = "end"
  /\ UNCHANGED <<threadVars, pending, mainpc, term, s_main_go, s_sigint_cnt,
                 s_health_go, stop, webpc, healthpc, exitStep, early>>

WebClient ==
  /\ \/ webpc = "accept" /\ ~Ending("web_gui") /\ webpc' = "request"
     \/ webpc = "request" /\ webpc' = "answer"
  /\ UNCHANGED <<threadVars, pending, mainpc, term, s_main_go, s_sigint_cnt,
                 s_health_go, stop, cmdpc, healthpc, exitStep, early>>

WebServe ==
  /\ \/ webpc = "answer" /\ webpc' = "accept"
     \/ webpc = "accept" /\ Ending("web_gui") /\ webpc' = "end"
  /\ UNCHANGED <<threadVars, pending, mainpc, term, s_main_go, s_sigint_cnt,
                 s_health_go, stop, cmdpc, healthpc, exitStep, early>>

\* The health thread returns when it has found a deadlock, or when its flag is
\* cleared.
HealthThread ==
  /\ \/ healthpc = "check" /\ healthpc' \in {"sleep", "end"}
     \/ healthpc = "sleep" /\ healthpc' = IF s_health_go THEN "check" ELSE "end"
  /\ UNCHANGED <<threadVars, pending, mainpc, term, s_main_go, s_sigint_cnt,
                 s_health_go, stop, cmdpc, webpc, exitStep, early>>

-----------------------------------------------------------------------------
(* Termination.                                                            *)

\* The client threads of the program are created, and are in the table.
Settled == mainpc # "start" /\ \A w \in Worker : life[w] # "started"

\* iw_main_loop_terminate starts on thread c: the termination callback of the
\* program runs, then iw_thread_wait_all.  The callback runs at every request;
\* one that frees what the program has made (that of the philosophers does)
\* need not survive its second run.  iw_cb.shutdown, which "quit" calls before,
\* is set by no program here.
Terminate(c) ==
  /\ early' = (early \/ ~Settled)
  /\ \/ /\ term' = [term EXCEPT ![c] = "wait"]
        /\ stop' = TRUE
        /\ WaitBegin(c)
        /\ UNCHANGED mainpc
     \/ /\ stop
        /\ mainpc' = "killed"
        /\ UNCHANGED <<threadVars, term, stop>>

\* The command "quit" on the command server thread.
Quit ==
  /\ pending.quit > 0
  /\ cmdpc = "request"
  /\ cmdpc' = "answer"
  /\ pending' = [pending EXCEPT !.quit = @ - 1]
  /\ Terminate(Cmd)
  /\ UNCHANGED <<s_main_go, s_sigint_cnt, s_health_go, webpc, healthpc, exitStep>>

\* Fault: the count is not looked at.
Sigint_NoCount ==
  /\ pending.sigint > 0
  /\ mainpc # "exited"
  /\ pending' = [pending EXCEPT !.sigint = @ - 1]
  /\ s_sigint_cnt' = s_sigint_cnt + 1
  /\ Terminate(Main)
  /\ UNCHANGED <<s_main_go, s_health_go, cmdpc, webpc, healthpc, exitStep>>

\* SIGINT: the first one terminates, in the handler; the next one is taken
\* by whatever thread does not block it and ends the process.
Sigint ==
  /\ pending.sigint > 0
  /\ mainpc # "exited"
  /\ pending' = [pending EXCEPT !.sigint = @ - 1]
  /\ s_sigint_cnt' = s_sigint_cnt + 1
  /\ \/ s_sigint_cnt' = 1 /\ Terminate(Main)
     \/ s_sigint_cnt' > 1 /\ mainpc' = "killed" /\ UNCHANGED <<threadVars, term, stop, early>>
  /\ UNCHANGED <<s_main_go, s_health_go, cmdpc, webpc, healthpc, exitStep>>

\* Fault: the main loop is not let go.
TermWaited_FlagKept(c) ==
  /\ term[c] = "wait" /\ wpc[c] = "done"
  /\ term' = [term EXCEPT ![c] = "no"]
  /\ UNCHANGED <<threadVars, pending, mainpc, s_main_go, s_sigint_cnt, s_health_go,
                 stop, cmdpc, webpc, healthpc, exitStep, early>>

\* iw_thread_wait_all has returned, and the main loop is let go.
TermWaited(c) ==
  /\ term[c] = "wait" /\ wpc[c] = "done"
  /\ term' = [term EXCEPT ![c] = "no"]
  /\ s_main_go' = FALSE
  /\ UNCHANGED <<threadVars, pending, mainpc, s_sigint_cnt, s_health_go, stop,
                 cmdpc, webpc, healthpc, exitStep, early>>

\* Two callers of iw_thread_wait_all: the process may die of it.
DieOfFreed ==
  /\ UsesFreed
  /\ mainpc' = "killed"
  /\ UNCHANGED <<threadVars, pending, term, s_main_go, s_sigint_cnt, s_health_go, stop,
                 cmdpc, webpc, healthpc, exitStep, early>>

-----------------------------------------------------------------------------
(* The client threads: they run until they are told to stop.               *)
WorkerStep(w) ==
  /\ ThreadRegister(w) \/ (stop /\ ThreadReturn(w))
  /\ UNCHANGED mainVars

WaitAll(c) == WaitStep(c) /\ UNCHANGED mainVars

MainThread == MainFnCreate \/ MainFnReturn \/ MainLoopEnd \/ ExitModule \/ ExitHealthFlag
Client     == CmdAccept \/ CmdRequest \/ WebClient
Server     == CmdServe \/ WebServe \/ HealthThread

MainNext ==
  /\ Alive
  /\ \/ MainThread
     \/ Client \/ Server
     \/ Quit \/ Sigint \/ DieOfFreed
     \/ \E c \in Caller : WaitAll(c) \/ TermWaited(c)
     \/ \E w \in Worker : WorkerStep(w)

MainSpec == MainInit /\ [][MainNext]_mainAll

\* Every thread of the process runs while the process does.  Nothing is assumed
\* of the clients of the servers, and no request to terminate need come.
MainFairSpec ==
  /\ MainSpec
  /\ WF_mainAll(Alive /\ MainThread)
  /\ WF_mainAll(Alive /\ CmdServe)
  /\ WF_mainAll(Alive /\ WebServe) /\ WF_mainAll(Alive /\ HealthThread)
  /\ \A c \in Caller : WF_mainAll(Alive /\ (WaitAll(c) \/ TermWaited(c)))
  /\ \A w \in Worker : WF_mainAll(Alive /\ WorkerStep(w))

-----------------------------------------------------------------------------
(* Properties.                                                             *)

\* One thread at a time terminates the program: no "quit" beside a SIGINT.
\* With both, two threads are in iw_thread_wait_all and free each other's
\* entries, and nothing holds.
OneSource == s_sigint_cnt = 0 \/ wpc[Cmd] = "idle"

\* In addition no request came before the client threads were in the table.
Foreseen == OneSource /\ ~early

(* What iw_thread_wait_all does of its promise to join all created threads *)
(* (iw_thread.h): when it returns every thread that ever ran is joined,    *)
(* those that entered the table during the call included, and every thread *)
(* that was created, if none was still to enter the table, or still to be  *)
(* created, when the program was asked to end.                             *)
WaitAllWaits ==
  [][OneSource => \A c \in Caller : wpc[c] # "done" /\ wpc'[c] = "done" =>
       \A w \in Worker : /\ life[w] \notin {"running", "returned"}
                         /\ ~early => life[w] \in {"none", "joined"}]_mainAll

\* What the threads that are at work use: the modules their calls enter.
InUse ==
  UNION {IF cmdpc \in {"request", "answer"}
           THEN {"cmd", "syslog", "thread", "mutex", "memory", "cfg", "log"} ELSE {},
         IF webpc # "end" THEN {"memory", "cfg", "log"} ELSE {},
         IF healthpc = "check" THEN {"thread", "mutex", "log"} ELSE {},
         IF \E c \in Caller : wpc[c] \notin {"idle", "done"} THEN {"thread", "log"} ELSE {},
         IF \E w \in Worker : life[w] \in {"started", "running"}
           THEN {"thread", "mutex", "memory", "log"} ELSE {}}

(* iw_exit ends no module that a running thread uses: the shutdown that    *)
(* SIGINT or "quit" starts is an orderly one, if it was Foreseen.          *)
OrderlyShutdown == Foreseen /\ Alive => Ended \intersect InUse = {}

(* When the program has left iw_exit no thread is left but the main one:   *)
(* the internal threads never, the client threads if the end was Foreseen. *)
NothingRunsAfterExit ==
  mainpc = "exited" => /\ cmdpc = "end" /\ webpc = "end" /\ healthpc = "end"
                       /\ Foreseen => \A w \in Worker : life[w] \in {"none", "joined"}

\* No client of the two servers keeps its connection silent for ever.
ClientsSpeak == []<>(cmdpc # "request") /\ []<>(webpc # "request")

(* A request to terminate ends the program, however early it comes, unless *)
(* a client keeps its server in recv: iw_exit joins the thread of that     *)
(* server, and would wait for ever.                                        *)
TerminationEnds ==
  ClientsSpeak /\ []OneSource => (stop ~> mainpc \in {"exited", "killed"})
=============================================================================
