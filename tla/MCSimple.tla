------------------------------ MODULE MCSimple ------------------------------
EXTENDS Simple, TLC
CONSTANTS p1, p2, p3

MCHashRank == "log" :> 1 @@ "memory" :> 2 @@ "syslog" :> 3

Line(words) == words \o <<CR, LF>>
Show == Client(Line(<<"connections">>), FALSE)
Quit == Client(Line(<<"quit">>), FALSE)
\* Two spaces, and a second line that is never looked at.
LogOff == Client(Line(<<SP, "log", SP, SP, "client", SP, p1, SP, "off">>) \o <<"quit", CR>>, FALSE)
LogBad == Client(Line(<<"log", SP, "thread", SP, "serv", SP, "off">>), FALSE)
Stack == Client(Line(<<"callstack", SP, SERVE_ID>>), FALSE)
LogOnly == Client(Line(<<"log">>), FALSE)
Bare == Client(<<"connections", LF>>, FALSE)
Leaver == Client(<<"connections", CR>>, TRUE)
TooLong == Client(<<"log", SP, "client", SP, p1, SP, SP, SP, SP, SP, SP, SP, "off", CR, LF>>, FALSE)

Budget(peers, messages, pages) == [peers |-> peers, messages |-> messages, pages |-> pages]

\* Many peers with short commands, and commands that are cut in many ways
\* with few peers.
MCBudgets ==
  (<<Quit>> :> Budget({p1, p2}, 2, 0)) @@ (<<Show>> :> Budget({p1, p2, p3}, 0, 0))
  @@ (<<LogOff, Quit>> :> Budget({p1, p2}, 0, 0))
  @@ (<<Stack, Show>> :> Budget({p1}, 1, 1))
  @@ (<<LogBad, LogOnly>> :> Budget({p1}, 1, 0))
  @@ (<<TooLong, Quit>> :> Budget({p1}, 0, 0)) @@ (<<Leaver, Bare>> :> Budget({}, 0, 1))
MCScripts == DOMAIN MCBudgets

\* The calls that these clients should get.
Expected ==
  (Show :> Call("list_conn_cmd", << >>)) @@ (Quit :> Call("cmd_quit", << >>))
  @@ (LogOff :> Call("log_client", <<p1, "off">>))
  @@ (LogBad :> Call("cmd_log_thread", <<"serv", "off">>))
  @@ (Stack :> Call("cmd_callstack", <<SERVE_ID>>)) @@ (LogOnly :> Help)
  @@ (Leaver :> Unanswered) @@ (TooLong :> Unanswered) @@ (Bare :> Unanswered)

ASSUME ExpectedCalls ==
  \A client \in DOMAIN Expected : AsSent(client) = Expected[client]

-----------------------------------------------------------------------------
(* FindParent against the search as iw_cmd_find_parent does it, for every  *)
(* tree with up to two words in three levels.                              *)

TreeWords == {"memory", "log"}

\* The sets of paths below a node, for trees of some depth.
RECURSIVE Trees(_)
Trees(depth) ==
  IF depth = 0 THEN {{}}
  ELSE LET branches(w) == {{}} \union {{<<w>>} \union {<<w>> \o path : path \in paths} :
                                         paths \in Trees(depth - 1)}
       IN  {a \union b : a \in branches("memory"), b \in branches("log")}

\* The node itself is asked first, then its children in their order.
RECURSIVE SearchParent(_, _, _)
SearchParent(paths, node, name) ==
  IF Append(node, name) \in paths THEN {Append(node, name)}
  ELSE LET below(w) == IF Append(node, w) \in paths
                       THEN SearchParent(paths, Append(node, w), name) ELSE {}
       IN  IF below("log") # {} THEN below("log") ELSE below("memory")

ASSUME ParentIsTheFirstFound ==
  \A paths \in Trees(3), name \in TreeWords :
    SearchParent(paths, ROOT, name) =
      LET commands == [path \in paths |-> NoFn]
      IN  IF Found(commands, name) = {} THEN {} ELSE {FindParent(commands, name)}
=============================================================================
