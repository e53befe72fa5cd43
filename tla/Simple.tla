------------------------------- MODULE Simple -------------------------------
(***************************************************************************)
(* The server of src/examples/simple/main.c: the thread serve_data, which  *)
(* relays what a peer sends to all others; the command server thread       *)
(* (IwCmdSrv), which runs "connections", "log client", "log thread",       *)
(* "callstack" and "quit"; and the thread of the web server, which shows   *)
(* the connections on its page.  They share the list s_list, the mutex     *)
(* s_mutex, which is the abstract mutex of MutexSpec, and the log flag of  *)
(* the serving thread.  serve_data adds to the list without the mutex: a   *)
(* reader sees the new node when its address is stored, a single step.     *)
(***************************************************************************)
EXTENDS IwList, IwCmdSrv

CONSTANTS
  Serve, CmdThread, Web,   \* the threads
  SERVE_ID, OTHER_ID,      \* thread ids in a command: of the serving thread, and not
  Fd,                      \* the file descriptors that a peer can get
  Budgets,                 \* bounds: per script of commands, the peers that may
                           \* come, and how many messages and pages there are
  EarlyCommands            \* commands may come before main_callback has returned

\* A peer connects once, so that its name is also the address of its tcp_conn.
Peer == Node
Reader == {CmdThread, Web}
Thread == {Serve} \union Reader
Listen == 0                \* s_sock
NoThread == "nobody"

ASSUME SimpleAssumption ==
  /\ Serve \notin Reader /\ CmdThread # Web /\ NoThread \notin Thread
  /\ Listen \notin Fd
  /\ \A s \in Scripts : Budgets[s] \in [peers : SUBSET Node, messages : Nat, pages : Nat]
  /\ EarlyCommands \in BOOLEAN

VARIABLES
  peer,      \* the connection as the peer sees it
  inbox,     \* per peer, how many messages wait to be received
  budget,    \* peers, messages and pages that may still come
  tree,      \* s_root
  mainpc,    \* main_callback
  s_mutex,   \* TRUE once the mutex is created
  owner,     \* the thread that has s_mutex
  s_list,    \* the connections
  conn,      \* their fd and do_log
  live,      \* the tcp_conn objects that are allocated
  s_keep_going,
  readfds,   \* the set of serve_data
  spc, cur,  \* where serve_data is, and its conn
  log, do_log,    \* the log flag of the serving thread; do_log in serve_data
  killed,    \* SIGPIPE has ended the program
  signalled, \* SIGUSR1 for the serving thread
  rpc, rcur, shown, answer,  \* a reader: where it is, its conn, its output so far
  connected, \* history: the connections in the order of their accept
  relayed,   \* history: how many messages were relayed so far, ...
  since      \* ... and how many when a peer was accepted

peerVars == <<peer, inbox, budget>>
listVars == <<s_list, conn, live, connected, since, relayed>>
serveVars == <<readfds, spc, cur, do_log, killed>>
readerVars == <<rpc, rcur, shown, answer>>
simpleVars == <<peerVars, tree, mainpc, s_mutex, owner, listVars, s_keep_going,
                serveVars, log, signalled, readerVars, cmdVars>>

SimpleTypeOK ==
  /\ peer \in [Peer -> {"away", "waiting", "open", "closed", "reset", "broken", "gone"}]
  /\ inbox \in [Peer -> Nat]
  /\ budget \in [peers : SUBSET Peer, messages : Nat, pages : Nat]
  /\ mainpc \in {"connections", "log client", "mutex", "socket", "running"}
  /\ s_mutex \in BOOLEAN /\ s_keep_going \in BOOLEAN
  /\ owner \in Thread \union {NoThread}
  /\ s_list \in IwList
  /\ conn \in [Peer -> [fd : Fd \union {Listen}, do_log : BOOLEAN, rx : Nat, tx : Nat]]
  /\ live \subseteq Peer
  /\ readfds \subseteq Fd \union {Listen}
  /\ spc \in {"none", "test", "select", "accept", "lock", "walk", "recv", "unlocked",
              "set", "exit", "close", "ended"}
  /\ cur \in Link /\ (spc = "recv" => cur \in Peer)
  /\ log \in BOOLEAN /\ do_log \in BOOLEAN /\ killed \in BOOLEAN /\ signalled \in BOOLEAN
  /\ rpc \in [Reader -> {"idle", "walk", "unlock"}]
  /\ rcur \in [Reader -> Link]
  /\ shown \in [Reader -> Seq(Peer)] /\ answer \in [Reader -> Seq(Peer)]
  /\ connected \in Seq(Peer)
  /\ relayed \in Nat /\ since \in [Peer -> Nat]

SimpleInit ==
  /\ CmdInit
  /\ peer = [p \in Peer |-> "away"]
  /\ inbox = [p \in Peer |-> 0]
  /\ budget = Budgets[script]
  /\ tree = TreeWith(EmptyTree, BuiltIn(TRUE))
  /\ mainpc = "connections"
  /\ s_mutex = FALSE /\ owner = NoThread
  /\ s_list = EmptyList
  /\ conn = [p \in Peer |-> [fd |-> Listen, do_log |-> TRUE, rx |-> 0, tx |-> 0]]
  /\ live = {} /\ connected = << >>
  /\ relayed = 0 /\ since = [p \in Peer |-> 0]
  /\ s_keep_going = TRUE
  /\ readfds = {Listen}
  /\ spc = "none" /\ cur = NULL
  /\ log = TRUE /\ do_log = TRUE /\ killed = FALSE
  /\ signalled = FALSE
  /\ rpc = [r \in Reader |-> "idle"]
  /\ rcur = [r \in Reader |-> NULL]
  /\ shown = [r \in Reader |-> << >>]
  /\ answer = [r \in Reader |-> << >>]

-----------------------------------------------------------------------------
(* main_callback, which runs while the command server serves already.      *)

MainGoto(from, to) == mainpc = from /\ mainpc' = to

MainStep ==
  /\ \/ /\ MainGoto("connections", "log client")
        /\ tree' = CmdAdd(tree, ROOT, "connections", "list_conn_cmd")
        /\ UNCHANGED <<s_mutex, spc>>
     \/ /\ MainGoto("log client", "mutex")
        /\ tree' = CmdAdd(tree, <<"log">>, "client", "log_client")
        /\ UNCHANGED <<s_mutex, spc>>
     \/ /\ MainGoto("mutex", "socket")
        /\ s_mutex' = TRUE
        /\ UNCHANGED <<tree, spc>>
     \/ /\ MainGoto("socket", "running")
        /\ spc' = "test"
        /\ UNCHANGED <<tree, s_mutex>>
  /\ UNCHANGED <<peerVars, owner, listVars, s_keep_going, readfds, cur, do_log, killed,
                 log, signalled, readerVars, cmdVars>>

\* Commands and pages come, if we assume so, once main_callback is done.
Started == EarlyCommands \/ mainpc = "running"

-----------------------------------------------------------------------------
(* The peers.                                                              *)

PeerChange(p, from, to) ==
  /\ peer[p] = from
  /\ peer' = [peer EXCEPT ![p] = to]

\* A peer connects, sends, closes the connection or breaks it, when what was
\* not received yet may be lost.
PeerStep(p) ==
  /\ \/ spc \notin {"none", "ended"} /\ p \in budget.peers
        /\ PeerChange(p, "away", "waiting")
        /\ UNCHANGED <<inbox, budget>>
     \/ /\ peer[p] = "open" /\ budget.messages > 0
        /\ inbox' = [inbox EXCEPT ![p] = @ + 1]
        /\ budget' = [budget EXCEPT !.messages = @ - 1]
        /\ UNCHANGED peer
     \/ PeerChange(p, "open", "closed") /\ UNCHANGED <<inbox, budget>>
     \/ /\ PeerChange(p, "open", "reset")
        /\ inbox' \in {inbox, [inbox EXCEPT ![p] = 0]}
        /\ UNCHANGED budget
  /\ UNCHANGED <<tree, mainpc, s_mutex, owner, listVars, s_keep_going, serveVars, log,
                 signalled, readerVars, cmdVars>>

\* recv on the connection of p returns at once.
Readable(p) == inbox[p] > 0 \/ peer[p] \in {"closed", "reset", "broken"}

-----------------------------------------------------------------------------
(* serve_data.                                                             *)

ServeGoto(from, to) == spc = from /\ spc' = to
ServeLock == owner = NoThread /\ owner' = Serve
ServeUnlock == owner' = NoThread

NotRecv == <<budget, tree, mainpc, s_mutex, s_keep_going, readerVars, cmdVars>>
NotServe == <<NotRecv, killed>>

ServeTest ==
  /\ ServeGoto("test", IF s_keep_going THEN "select" ELSE "exit")
  /\ UNCHANGED <<NotServe, peer, inbox, owner, listVars, readfds, cur, log, do_log, signalled>>

\* Fault: at the timeout the set is left as it is.
ServeSelect_NotCleared ==
  /\ ServeGoto("select", "accept")
  /\ LET ready == {fd \in readfds :
           \/ fd = Listen /\ \E p \in Peer : peer[p] = "waiting"
           \/ \E p \in live : conn[p].fd = fd /\ Readable(p)}
     IN  readfds' = IF ready = {} THEN readfds ELSE ready
  /\ UNCHANGED <<NotServe, peer, inbox, owner, listVars, cur, log, do_log, signalled>>

\* select returns what is ready, or nothing at its timeout.
ServeSelect ==
  /\ ServeGoto("select", "accept")
  /\ readfds' = {fd \in readfds :
       \/ fd = Listen /\ \E p \in Peer : peer[p] = "waiting"
       \/ \E p \in live : conn[p].fd = fd /\ Readable(p)}
  /\ UNCHANGED <<NotServe, peer, inbox, owner, listVars, cur, log, do_log, signalled>>

\* SIGUSR1 breaks a select off, which ends the loop; elsewhere only the
\* handler runs.
ServeSignal ==
  /\ signalled
  /\ signalled' = FALSE
  /\ spc' = IF spc = "select" THEN "exit" ELSE spc
  /\ UNCHANGED <<NotServe, peer, inbox, owner, listVars, readfds, cur, log, do_log>>

FreeFds == Fd \ {conn[p].fd : p \in live}

\* A connection is accepted, if there is a descriptor for it, and added to
\* the list.
ServeAccept ==
  /\ ServeGoto("accept", "lock")
  /\ \/ /\ Listen \in readfds
        /\ \E p \in Peer, fd \in FreeFds :
             /\ PeerChange(p, "waiting", "open")
             /\ conn' = [conn EXCEPT ![p] = [fd |-> fd, do_log |-> TRUE, rx |-> 0, tx |-> 0]]
             /\ live' = live \union {p}
             /\ s_list' = ListAdd(s_list, p)
             /\ connected' = Append(connected, p)
             /\ since' = [since EXCEPT ![p] = relayed]
             /\ UNCHANGED relayed
     \/ /\ Listen \notin readfds \/ FreeFds = {}
        /\ UNCHANGED <<peer, listVars>>
  /\ UNCHANGED <<NotServe, inbox, owner, readfds, cur, log, do_log, signalled>>

\* Fault: the list is walked without the mutex.
ServeWalkBegin_NoLock ==
  /\ ServeGoto("lock", "walk")
  /\ cur' = s_list.head
  /\ UNCHANGED <<NotServe, peer, inbox, owner, listVars, readfds, log, do_log, signalled>>

ServeWalkBegin ==
  /\ ServeGoto("lock", "walk")
  /\ ServeLock
  /\ cur' = s_list.head
  /\ UNCHANGED <<NotServe, peer, inbox, listVars, readfds, log, do_log, signalled>>

\* The next connection of the walk: the thread takes over its log flag if
\* there is something to receive.
ServeWalk ==
  /\ spc = "walk" /\ cur # NULL
  /\ IF conn[cur].fd \in readfds
     THEN spc' = "recv" /\ do_log' = log /\ log' = conn[cur].do_log /\ UNCHANGED cur
     ELSE cur' = s_list.next[cur] /\ UNCHANGED <<spc, do_log, log>>
  /\ UNCHANGED <<NotServe, peer, inbox, owner, listVars, readfds, signalled>>

\* What was received is sent to some connections.
RelayTo(receivers) ==
  /\ inbox[cur] > 0
  /\ inbox' = [inbox EXCEPT ![cur] = @ - 1]
  /\ conn' = [p \in Peer |->
       IF p = cur THEN [conn[p] EXCEPT !.rx = @ + 1]
       ELSE IF p \in receivers THEN [conn[p] EXCEPT !.tx = @ + 1] ELSE conn[p]]
  /\ relayed' = relayed + 1
  /\ UNCHANGED <<peer, s_list, live, connected, since>>

\* The others, and those of them that the walk of the list comes to before p;
\* the list is in the order of `connected'.
Others == {p \in live : conn[p].fd # conn[cur].fd}
OthersBefore(p) == {q \in Others : PlaceOf(connected, q) < PlaceOf(connected, p)}

\* Nobody ignores SIGPIPE.  A peer that has broken its connection: the first
\* send takes the error, the second raises the signal.  One that has closed it
\* refuses what it is sent, and the refusal may come between the two.
SendKills(p) == peer[p] \in {"reset", "broken"}
SendMayKill(p) == SendKills(p) \/ peer[p] = "closed"

\* Fault: the walk through the others begins behind the sender.
Relay_FromSender ==
  /\ RelayTo(Others \ OthersBefore(cur))
  /\ cur' = s_list.next[cur]
  /\ log' = do_log
  /\ UNCHANGED killed

\* What was received is sent to all others.
Relay ==
  /\ \A p \in Others : ~SendKills(p)
  /\ RelayTo(Others)
  /\ cur' = s_list.next[cur]
  /\ log' = do_log
  /\ UNCHANGED killed

\* The program ends in the walk through the others, at p.
RelayKilled ==
  \E p \in Others :
    /\ SendMayKill(p)
    /\ \A q \in OthersBefore(p) : ~SendKills(q)
    /\ RelayTo(OthersBefore(p))
    /\ killed' = TRUE
    /\ UNCHANGED <<cur, log>>

\* recv fails: the connection stays, for the next call to find its end.
RecvError ==
  /\ inbox[cur] = 0 /\ PeerChange(cur, "reset", "broken")
  /\ cur' = s_list.next[cur]
  /\ log' = do_log
  /\ UNCHANGED <<inbox, listVars, killed>>

\* Close the descriptor, take the connection off the list and free it.
Disconnect(p) ==
  /\ peer' = [peer EXCEPT ![p] = "gone"]
  /\ inbox' = [inbox EXCEPT ![p] = 0]
  /\ s_list' = ListRemove(s_list, p)
  /\ live' = live \ {p}
  /\ connected' = Removed(connected, PlaceOf(connected, p))
  /\ UNCHANGED <<conn, since, relayed>>

\* The peer has closed: the thread goes on with the next connection, and
\* keeps the log flag of this one.
EndOfData ==
  /\ inbox[cur] = 0 /\ peer[cur] \in {"closed", "broken"}
  /\ Disconnect(cur)
  /\ cur' = ListRemoved(s_list, cur)
  /\ UNCHANGED <<log, killed>>

ServeRecv ==
  /\ ServeGoto("recv", "walk")
  /\ Relay \/ RelayKilled \/ RecvError \/ EndOfData
  /\ UNCHANGED <<NotRecv, owner, readfds, do_log, signalled>>

\* Fault: the mutex is kept.
ServeWalkEnd_LockKept ==
  /\ ServeGoto("walk", "unlocked") /\ cur = NULL
  /\ UNCHANGED <<NotServe, peer, inbox, owner, listVars, readfds, cur, log, do_log, signalled>>

ServeWalkEnd ==
  /\ ServeGoto("walk", "unlocked") /\ cur = NULL
  /\ ServeUnlock
  /\ UNCHANGED <<NotServe, peer, inbox, listVars, readfds, cur, log, do_log, signalled>>

\* The set for the next select: the server socket and all connections.
ServeSetBegin ==
  /\ ServeGoto("unlocked", "set")
  /\ ServeLock
  /\ readfds' = {Listen}
  /\ cur' = s_list.head
  /\ UNCHANGED <<NotServe, peer, inbox, listVars, log, do_log, signalled>>

ServeSet ==
  /\ spc = "set"
  /\ IF cur # NULL
     THEN /\ readfds' = readfds \union {conn[cur].fd}
          /\ cur' = s_list.next[cur]
          /\ UNCHANGED <<spc, owner>>
     ELSE spc' = "test" /\ ServeUnlock /\ UNCHANGED <<readfds, cur>>
  /\ UNCHANGED <<NotServe, peer, inbox, listVars, log, do_log, signalled>>

ServeExit ==
  /\ ServeGoto("exit", "close")
  /\ ServeLock
  /\ cur' = s_list.head
  /\ UNCHANGED <<NotServe, peer, inbox, listVars, readfds, log, do_log, signalled>>

\* All connections are closed; the successor is read before.
ServeClose ==
  /\ spc = "close"
  /\ IF cur # NULL
     THEN /\ Disconnect(cur)
          /\ cur' = s_list.next[cur]
          /\ UNCHANGED <<spc, owner>>
     ELSE spc' = "ended" /\ ServeUnlock /\ UNCHANGED <<peer, inbox, listVars, cur>>
  /\ UNCHANGED <<NotServe, readfds, log, do_log, signalled>>

ServeStep ==
  /\ ~killed
  /\ \/ ServeTest \/ ServeSelect \/ ServeSignal \/ ServeAccept
     \/ ServeWalkBegin \/ ServeWalk \/ ServeRecv \/ ServeWalkEnd
     \/ ServeSetBegin \/ ServeSet \/ ServeExit \/ ServeClose

-----------------------------------------------------------------------------
(* The readers: list_connections, for the command and for the page, and    *)
(* the walk of log_client.                                                 *)

NotReader == <<peer, inbox, tree, mainpc, s_mutex, s_list, live, connected, since,
               relayed, s_keep_going, serveVars, log, signalled>>

\* The call that the command server thread has to make.
Command == CmdsProcess(tree, info)
Running(fn) == cmdpc = "run" /\ Command.fn = fn

Flags == {"on", "off"}
LogClientArgs(args) == Len(args) >= 2 /\ args[1] \in Peer /\ args[2] \in Flags

\* The reader wants the list: a page is asked for, or a command that is well
\* formed.
Wanted(r) ==
  \/ r = Web /\ Started /\ budget.pages > 0
  \/ r = CmdThread /\ \/ Running("list_conn_cmd")
                      \/ Running("log_client") /\ LogClientArgs(Command.args)

ForLogClient(r) == r = CmdThread /\ Running("log_client")

\* iw_mutex_lock: there is no mutex before main_callback has created it, and
\* the call fails, which nobody looks at.
ReadBegin(r) ==
  /\ rpc[r] = "idle" /\ Wanted(r)
  /\ IF s_mutex THEN owner = NoThread /\ owner' = r ELSE UNCHANGED owner
  /\ rcur' = [rcur EXCEPT ![r] = s_list.head]
  /\ shown' = [shown EXCEPT ![r] = << >>]
  /\ rpc' = [rpc EXCEPT ![r] = IF s_list.head = NULL THEN "unlock" ELSE "walk"]
  /\ answer' = IF s_list.head = NULL /\ ~ForLogClient(r)
               THEN [answer EXCEPT ![r] = << >>] ELSE answer
  /\ budget' = IF r = Web THEN [budget EXCEPT !.pages = @ - 1] ELSE budget
  /\ UNCHANGED <<NotReader, conn, cmdVars>>

\* One connection is printed; at the end of the list the output is complete.
ShowStep(r) ==
  /\ rpc[r] = "walk" /\ ~ForLogClient(r)
  /\ LET next == s_list.next[rcur[r]]
     IN  /\ rcur' = [rcur EXCEPT ![r] = next]
         /\ shown' = [shown EXCEPT ![r] = Append(@, rcur[r])]
         /\ IF next = NULL
            THEN /\ rpc' = [rpc EXCEPT ![r] = "unlock"]
                 /\ answer' = [answer EXCEPT ![r] = shown'[r]]
            ELSE UNCHANGED <<rpc, answer>>
  /\ UNCHANGED <<NotReader, owner, conn, budget, cmdVars>>

\* log_client looks for its address, and sets the flag where it finds it.
LogClientStep ==
  /\ ~killed /\ rpc[CmdThread] = "walk" /\ ForLogClient(CmdThread)
  /\ LET n == rcur[CmdThread]
         args == Command.args
     IN  /\ conn' = IF n = args[1] THEN [conn EXCEPT ![n].do_log = (args[2] = "on")] ELSE conn
         /\ rcur' = [rcur EXCEPT ![CmdThread] = IF n = args[1] THEN n ELSE s_list.next[n]]
         /\ IF n = args[1] \/ s_list.next[n] = NULL
            THEN rpc' = [rpc EXCEPT ![CmdThread] = "unlock"] ELSE UNCHANGED rpc
  /\ UNCHANGED <<NotReader, owner, shown, answer, budget, cmdVars>>

\* iw_mutex_unlock; a command is answered then.
ReadEnd(r) ==
  /\ rpc[r] = "unlock"
  /\ owner' = IF s_mutex THEN NoThread ELSE owner
  /\ rpc' = [rpc EXCEPT ![r] = "idle"]
  /\ rcur' = [rcur EXCEPT ![r] = NULL]
  /\ shown' = [shown EXCEPT ![r] = << >>]
  /\ IF r = CmdThread THEN CmdReply(Command) ELSE UNCHANGED cmdVars
  /\ UNCHANGED <<NotReader, answer, conn, budget>>

-----------------------------------------------------------------------------
(* The command server thread.                                              *)

NotCmd == <<peerVars, tree, mainpc, s_mutex, owner, listVars, serveVars, readerVars>>

\* The serving thread is in the table of threads.
ServeKnown == spc # "none"

\* cmd_log_thread.  A word that is no thread id is an error, but the function
\* goes on with the 0 that strtoll has read, which stands for all threads.
SetLog(args) ==
  /\ log' = IF /\ Len(args) >= 2 /\ args[2] \in Flags
               /\ args[1] # OTHER_ID /\ ServeKnown
            THEN args[2] = "on" ELSE log
  /\ UNCHANGED <<s_keep_going, signalled>>

\* cmd_callstack: SIGUSR1 is sent to a thread of the table.
Callstack(args) ==
  /\ signalled' = (signalled \/ (args # << >> /\ args[1] = SERVE_ID /\ ServeKnown))
  /\ UNCHANGED <<s_keep_going, log>>

\* The commands that need no lock of the program are one step.
CmdSimple ==
  /\ cmdpc = "run" /\ rpc[CmdThread] = "idle"
  /\ \/ Running("cmd_log_thread") /\ SetLog(Command.args)
     \/ Running("cmd_callstack") /\ Callstack(Command.args)
     \/ /\ Command.fn \notin {"cmd_log_thread", "cmd_callstack", "cmd_quit"}
        /\ ~Wanted(CmdThread)
        /\ UNCHANGED <<s_keep_going, log, signalled>>
  /\ CmdReply(Command)
  /\ UNCHANGED NotCmd

\* cmd_quit: main_term, ...
CmdQuit ==
  /\ Running("cmd_quit") /\ s_keep_going
  /\ s_keep_going' = FALSE
  /\ UNCHANGED <<NotCmd, log, signalled, cmdVars>>

\* ... and iw_thread_wait_all joins the serving thread.
CmdQuitDone ==
  /\ Running("cmd_quit") /\ ~s_keep_going
  /\ spc = "ended"
  /\ CmdReply(Command)
  /\ UNCHANGED <<NotCmd, s_keep_going, log, signalled>>

CmdReceive ==
  /\ (Started /\ CmdAccept) \/ CmdRecv \/ CmdGiveUp
  /\ UNCHANGED <<NotCmd, s_keep_going, log, signalled>>

CmdStep == ~killed /\ (CmdReceive \/ CmdSimple \/ CmdQuit \/ CmdQuitDone)
ReadStep(r) == ~killed /\ (ReadBegin(r) \/ ShowStep(r) \/ ReadEnd(r))

SimpleNext ==
  \/ ~killed /\ (MainStep \/ \E p \in Peer : PeerStep(p))
  \/ ServeStep
  \/ CmdStep \/ LogClientStep
  \/ \E r \in Reader : ReadStep(r)

SimpleSpec == SimpleInit /\ [][SimpleNext]_simpleVars

\* The threads run; nothing is asked of peers and clients.
SimpleFairness ==
  /\ WF_simpleVars(ServeStep)
  /\ WF_simpleVars(CmdStep \/ LogClientStep)
  /\ \A r \in Reader : WF_simpleVars(ReadStep(r))

SimpleFairSpec == SimpleSpec /\ SimpleFairness

-----------------------------------------------------------------------------
(* Properties.                                                             *)

(* The list is the open connections in the order of their accept, and the  *)
(* command "connections" and the page show those of one moment, although a *)
(* connection is added without the mutex and freed while others wait for   *)
(* it.                                                                     *)
Connections == INSTANCE ConnSpec WITH Conn <- Peer, open <- connected
ImplementsConnections == Connections!Spec

(* The serving thread, which has the mutex then, never waits in recv:      *)
(* although descriptors are used again, the set that select has filled     *)
(* speaks of the connections that are in the list now.                     *)
RecvDoesNotBlock == spc = "recv" => cur \in live /\ Readable(cur)

\* The commands once main_callback has returned, and what a client should
\* get: the call for its first line, if that fits the buffer with its end.
FullTree ==
  CmdAdd(CmdAdd(TreeWith(EmptyTree, BuiltIn(TRUE)), ROOT, "connections", "list_conn_cmd"),
         <<"log">>, "client", "log_client")

AsSent(client) ==
  LET end == EndOfLine(client.text)
  IN  IF end # 0 /\ end < BuffSize
      THEN CmdsProcess(FullTree, Words(SubSeq(client.text, 1, end - 1))) ELSE Unanswered

(* Every line that has come as a whole is looked up as one command with    *)
(* its words, however it was cut and whatever followed it, and a line that *)
(* does not fit the buffer, or does not end, never is.                     *)
CommandsAsSent == \A i \in 1 .. Len(served) : served[i] = AsSent(script[i])

\* What a connection has sent and got are the messages relayed since it was
\* accepted, but for the last `missing' of them.
Got(p, missing) == conn[p].rx + conn[p].tx + missing = relayed - since[p]

(* What a peer sends gets to every other connection that is open then,     *)
(* once, or the program ends on the way: at a connection that its peer has *)
(* closed or broken, and those behind it miss this one message.            *)
RelayedToAllOthers ==
  IF ~killed THEN \A p \in live : Got(p, 0)
  ELSE \E k \in 1 .. Len(connected) :
         /\ connected[k] # cur /\ SendMayKill(connected[k])
         /\ \A i \in 1 .. Len(connected) :
              Got(connected[i], IF i < k \/ connected[i] = cur THEN 0 ELSE 1)

(* After main_term has told it to end, the serving thread closes every     *)
(* connection and returns, gives the mutex back, and the client that sent  *)
(* "quit" gets its answer, unless the program is killed before.            *)
QuitEndsServer ==
  ~s_keep_going ~> \/ killed
                   \/ /\ spc = "ended" /\ live = {} /\ owner # Serve
                      /\ cmdpc # "run"
=============================================================================
