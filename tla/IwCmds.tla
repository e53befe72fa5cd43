------------------------------- MODULE IwCmds -------------------------------
(***************************************************************************)
(* The tree of control commands of src/src/iw_cmds.c: how commands get     *)
(* into it and how a line of words is looked up.  A tree is a function     *)
(* from the path of a node, the words that lead to it, to the function     *)
(* that the node runs; the root s_root has the empty path and is not in    *)
(* the domain.  Words are compared by the hash table; a word is its hash.  *)
(***************************************************************************)
EXTENDS SequencesExt

CONSTANT HashRank   \* the place of a word in the tables, when they are iterated

NoFn == "no function"     \* the cmd_fn of a node that only has children
ROOT == << >>             \* a NULL parent; another one is <<its name>>

EmptyTree == [path \in {} |-> NoFn]

\* The node p comes before the node q in a walk through the tree.
Precedes(p, q) ==
  LET common == {i \in 1 .. Len(p) : i <= Len(q) /\ p[i] # q[i]}
      split == CHOOSE i \in common : \A j \in common : i <= j
  IN  IF common = {} THEN Len(p) < Len(q)
      ELSE HashRank[p[split]] < HashRank[q[split]]

\* iw_cmd_find_parent: a table is looked at as a whole before the tables
\* below it, so the first table that has the name decides.
Found(tree, name) == {path \in DOMAIN tree : Last(path) = name}

FindParent(tree, name) ==
  CHOOSE path \in Found(tree, name) :
    \A other \in Found(tree, name) \ {path} : Precedes(Front(path), Front(other))

\* iw_cmd_add.  An unknown parent is refused; a name that the parent has
\* already keeps what it had.
CmdAdd(tree, parent, cmd, fn) ==
  IF parent # ROOT /\ Found(tree, parent[1]) = {} THEN tree
  ELSE LET node == Append(IF parent = ROOT THEN ROOT ELSE FindParent(tree, parent[1]), cmd)
       IN  [path \in DOMAIN tree \union {node} |->
              IF path \in DOMAIN tree THEN tree[path] ELSE fn]

\* The commands that iw_cmd_init adds, in its order.  Each is <<parent, name,
\* function>>; quit is added if the configuration allows it.
BuiltIn(allow_quit) ==
  << <<ROOT, "help", "cmd_help">>, <<ROOT, "threads", "cmd_thread_dump">>,
     <<ROOT, "mutexes", "cmd_mutex_dump">>, <<ROOT, "callstack", "cmd_callstack">>,
     <<ROOT, "log", NoFn>>, <<<<"log">>, "lvl", "cmd_log_lvl">>,
     <<<<"log">>, "thread", "cmd_log_thread">>,
     <<ROOT, "memory", NoFn>>, <<<<"memory">>, "show", "cmd_memory_show">>,
     <<<<"memory">>, "summary", "cmd_memory_summary">>, <<<<"memory">>, "brief", "cmd_memory_brief">>,
     <<ROOT, "syslog", NoFn>>, <<<<"syslog">>, "show", "cmd_syslog_dump">>,
     <<<<"syslog">>, "clear", "cmd_syslog_clear">>, <<ROOT, "iwver", "cmd_iwver">> >>
  \o IF allow_quit THEN << <<ROOT, "quit", "cmd_quit">> >> ELSE << >>

TreeWith(tree, commands) ==
  FoldLeft(LAMBDA t, c : CmdAdd(t, c[1], c[2], c[3]), tree, commands)

-----------------------------------------------------------------------------
\* iw_cmds_process_internal goes down the tree word by word as long as the
\* nodes have no function: the number of words after which it runs one.
Runs(tree, words) ==
  {k \in 1 .. Len(words) :
     /\ \A j \in 1 .. k : SubSeq(words, 1, j) \in DOMAIN tree
     /\ \A j \in 1 .. k - 1 : tree[SubSeq(words, 1, j)] = NoFn
     /\ tree[SubSeq(words, 1, k)] # NoFn}

\* The function that is called for a line, with the words left for it to
\* read, or the help text.
Call(fn, args) == [fn |-> fn, args |-> args]
Help == Call("iw_cmds_help", << >>)

CmdsProcess(tree, words) ==
  IF Runs(tree, words) = {} THEN Help
  ELSE LET k == CHOOSE n \in Runs(tree, words) : TRUE
       IN  Call(tree[SubSeq(words, 1, k)], SubSeq(words, k + 1, Len(words)))
=============================================================================
