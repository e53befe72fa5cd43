---------------------------- MODULE SimpleProofs ----------------------------
(***************************************************************************)
(* Proofs about the simple example (Simple), for any peers, descriptors,   *)
(* messages and scripts: its types, its list, its messages, and that it    *)
(* implements ConnSpec.                                                    *)
(***************************************************************************)
EXTENDS Simple, IwListProofs, SequenceTheorems

-----------------------------------------------------------------------------
(* The inductive invariant.                                                *)

\* The links of s_list are those of the connections, all others are loose.
Listed ==
  /\ ListIs(s_list, connected)
  /\ live = {connected[i] : i \in 1 .. Len(connected)}
  /\ \A p \in Peer \ live : s_list.next[p] = NULL /\ s_list.prev[p] = NULL

\* A connection has a descriptor of its own, and a peer that has connected.
Descriptors ==
  \A p \in live : /\ peer[p] \in {"open", "closed", "reset", "broken"}
                  /\ conn[p].fd \in Fd
                  /\ \A q \in live : conn[q].fd = conn[p].fd => q = p

\* The set for select has the descriptors of open connections only, ...
SetKnown ==
  spc \in {"none", "test", "select", "accept", "set"} =>
    readfds \subseteq {Listen} \union {conn[p].fd : p \in live}

\* ... and the set that it returns is true until the walk has passed.
ReadyFrom(k) ==
  \A j \in k .. Len(connected) :
    conn[connected[j]].fd \in readfds => Readable(connected[j])

SetTrue ==
  /\ spc \in {"accept", "lock"} => ReadyFrom(1)
  /\ spc \in {"walk", "recv"} /\ ~killed =>
       \A k \in 1 .. Len(connected) : connected[k] = cur => ReadyFrom(k)
  /\ spc \in {"walk", "recv", "set", "close"} => cur \in live \union {NULL}
  /\ spc = "recv" => cur \in live /\ conn[cur].fd \in readfds

\* The thread is created last, and a reader that walks is at a node.
Begun ==
  /\ mainpc # "running" => spc = "none"
  /\ \A r \in Reader : rpc[r] = "walk" => rcur[r] \in Peer

\* All connections have all messages, or the walk through the others of cur
\* ended at one of them.
Relayed ==
  ~killed => \A p \in live : conn[p].rx + conn[p].tx = relayed - since[p]

Missed ==
  killed => /\ spc = "walk"
            /\ \E k \in 1 .. Len(connected) :
                 /\ connected[k] # cur /\ SendMayKill(connected[k])
                 /\ \A i \in 1 .. Len(connected) :
                      Got(connected[i], IF i < k \/ connected[i] = cur THEN 0 ELSE 1)

IInv ==
  /\ SimpleTypeOK /\ Listed /\ Descriptors /\ SetKnown /\ SetTrue /\ Begun
  /\ Relayed /\ Missed

-----------------------------------------------------------------------------
(* What a step does to the list of connections.                            *)

Connects(p, fd) ==
  /\ p \in Peer /\ fd \in FreeFds /\ PeerChange(p, "waiting", "open")
  /\ conn' = [conn EXCEPT ![p] = [fd |-> fd, do_log |-> TRUE, rx |-> 0, tx |-> 0]]
  /\ live' = live \union {p}
  /\ s_list' = ListAdd(s_list, p)
  /\ connected' = Append(connected, p)
  /\ since' = [since EXCEPT ![p] = relayed]
  /\ relayed' = relayed

(* iw_list_add in serve_data: a new connection comes at the end.           *)
LEMMA ConnectsLists ==
  ASSUME IInv, NEW p, NEW fd, Connects(p, fd)
  PROVE  /\ Listed' /\ p \notin live
         /\ s_list' \in IwList /\ connected' \in Seq(Peer) /\ live' \subseteq Peer
<1> USE DEF IInv, Peer
<1>1. p \in Node /\ p \notin live
  BY DEF Connects, PeerChange, Descriptors
<1>2. connected \in Seq(Node) /\ s_list \in IwList /\ live \subseteq Node
  BY DEF SimpleTypeOK
<1>3. Loose(s_list, connected, p)
  BY <1>1 DEF Loose, Listed
<1>4. ListIs(s_list', connected')
  BY <1>1, <1>2, <1>3, AddAppends DEF Listed, Connects
<1>5. connected' \in Seq(Node) /\ live' \subseteq Node
  BY <1>1, <1>2 DEF Connects
<1>6. live' = {connected'[i] : i \in 1 .. Len(connected')}
  BY <1>1, <1>2 DEF Connects, Listed
<1>7. s_list' \in IwList
  BY <1>1, <1>2, ListTypes DEF Connects
<1>8. \A q \in Node \ live' : s_list'.next[q] = NULL /\ s_list'.prev[q] = NULL
  <2>1. \A q \in Node \ live' : q # p /\ q \notin live /\ (s_list.tail # NULL => q # s_list.tail)
    <3>1. s_list.tail # NULL => s_list.tail \in live
      BY <1>2 DEF Listed, ListIs
    <3> QED
      BY <3>1 DEF Connects
  <2> QED
    BY <1>1, <1>2, <2>1 DEF Connects, Listed, ListAdd, IwList, Link
<1> QED
  BY <1>1, <1>4, <1>5, <1>6, <1>7, <1>8 DEF Listed

(* iw_list_delete in serve_data: the others keep their order.              *)
LEMMA DisconnectLists ==
  ASSUME IInv, NEW p \in live, Disconnect(p)
  PROVE  /\ Listed' /\ p \notin live' /\ live' \subseteq live
         /\ s_list' \in IwList /\ connected' \in Seq(Peer)
         /\ \E k \in 1 .. Len(connected) :
              /\ connected[k] = p /\ connected' = Removed(connected, k)
              /\ ListRemoved(s_list, p) = IF k = Len(connected) THEN NULL ELSE connected[k + 1]
<1> USE DEF IInv, Peer
<1> DEFINE k == PlaceOf(connected, p)
<1>1. connected \in Seq(Node) /\ s_list \in IwList /\ live \subseteq Node
  BY DEF SimpleTypeOK
<1>2. k \in 1 .. Len(connected) /\ connected[k] = p
  BY DEF Listed, PlaceOf
<1> HIDE DEF k
<1>3. /\ ListIs(s_list', connected')
      /\ Loose(s_list', connected', p)
      /\ ListRemoved(s_list, p) = IF k = Len(connected) THEN NULL ELSE connected[k + 1]
  BY <1>1, <1>2, RemoveRemoves DEF Disconnect, Listed, k
<1>4. connected' = Removed(connected, k)
  BY DEF Disconnect, k
<1>5. /\ connected' \in Seq(Node) /\ Len(connected') = Len(connected) - 1
      /\ \A i \in 1 .. Len(connected) - 1 :
           connected'[i] = IF i < k THEN connected[i] ELSE connected[i + 1]
  BY <1>1, <1>2, <1>4 DEF Removed
<1>6. \A i, j \in 1 .. Len(connected) : connected[i] = connected[j] => i = j
  BY DEF Listed, ListIs
<1>7. live' = {connected'[i] : i \in 1 .. Len(connected')}
  <2>1. live' = live \ {p}
    BY DEF Disconnect
  <2>2. ASSUME NEW q \in live'
        PROVE  \E i \in 1 .. Len(connected') : q = connected'[i]
    <3>1. PICK j \in 1 .. Len(connected) : q = connected[j]
      BY <2>1 DEF Listed
    <3>2. j # k
      BY <2>1, <2>2, <1>2, <3>1
    <3>3. CASE j < k
      BY <3>1, <3>3, <1>2, <1>5
    <3>4. CASE j > k
      <4>1. j - 1 \in 1 .. Len(connected) - 1 /\ ~(j - 1 < k) /\ (j - 1) + 1 = j
        BY <3>4, <1>2
      <4> QED
        BY <3>1, <4>1, <1>5
    <3> QED
      BY <3>2, <3>3, <3>4, <1>2
  <2>3. ASSUME NEW i \in 1 .. Len(connected')
        PROVE  connected'[i] \in live'
    <3> DEFINE j == IF i < k THEN i ELSE i + 1
    <3>1. j \in 1 .. Len(connected) /\ connected'[i] = connected[j] /\ j # k
      BY <1>1, <1>2, <1>5
    <3> QED
      BY <2>1, <3>1, <1>2, <1>6 DEF Listed
  <2> QED
    BY <2>2, <2>3
<1>8. s_list' \in IwList
  <2>1. s_list.num_elems \in Nat /\ s_list.num_elems > 0
    BY <1>1, <1>2 DEF Listed, ListIs
  <2> QED
    BY <1>1, <1>2, <2>1, ListTypes DEF Disconnect
<1>9. \A q \in Node \ live' : s_list'.next[q] = NULL /\ s_list'.prev[q] = NULL
  <2>1. ASSUME NEW q \in Node \ live', q # p
        PROVE  s_list'.next[q] = NULL /\ s_list'.prev[q] = NULL
    <3>1. q \notin live
      BY <2>1 DEF Disconnect
    <3>2. s_list.next[q] = NULL /\ s_list.prev[q] = NULL
      BY <3>1 DEF Listed
    <3>3. s_list.prev[p] \in live \union {NULL} /\ s_list.next[p] \in live \union {NULL}
      BY <1>1, <1>2 DEF Listed, ListIs
    <3>4. s_list.head # NULL
      BY <1>1, <1>2, ListAssumption DEF Listed, ListIs
    <3> QED
      BY <3>1, <3>2, <3>3, <3>4, <2>1, <1>1, ListAssumption DEF Disconnect, ListRemove, IwList, Link
  <2> QED
    BY <1>3, <2>1 DEF Loose
<1> QED
  BY <1>2, <1>3, <1>4, <1>5, <1>7, <1>8, <1>9 DEF Listed, Disconnect

-----------------------------------------------------------------------------
(* The types, in the parts that a step changes together.                   *)

PeerTypes ==
  /\ peer \in [Peer -> {"away", "waiting", "open", "closed", "reset", "broken", "gone"}]
  /\ inbox \in [Peer -> Nat]
  /\ budget \in [peers : SUBSET Peer, messages : Nat, pages : Nat]

ListPartTypes ==
  /\ s_list \in IwList
  /\ conn \in [Peer -> [fd : Fd \union {Listen}, do_log : BOOLEAN, rx : Nat, tx : Nat]]
  /\ live \subseteq Peer /\ connected \in Seq(Peer)
  /\ relayed \in Nat /\ since \in [Peer -> Nat]

ServeTypes ==
  /\ readfds \subseteq Fd \union {Listen}
  /\ spc \in {"none", "test", "select", "accept", "lock", "walk", "recv", "unlocked",
              "set", "exit", "close", "ended"}
  /\ cur \in Link /\ (spc = "recv" => cur \in Peer)
  /\ log \in BOOLEAN /\ do_log \in BOOLEAN /\ killed \in BOOLEAN /\ signalled \in BOOLEAN

ReaderTypes ==
  /\ rpc \in [Reader -> {"idle", "walk", "unlock"}]
  /\ rcur \in [Reader -> Link]
  /\ shown \in [Reader -> Seq(Peer)] /\ answer \in [Reader -> Seq(Peer)]

MainTypes ==
  /\ mainpc \in {"connections", "log client", "mutex", "socket", "running"}
  /\ s_mutex \in BOOLEAN /\ s_keep_going \in BOOLEAN
  /\ owner \in Thread \union {NoThread}

LEMMA TypeParts ==
  ASSUME SimpleTypeOK
  PROVE  PeerTypes /\ ListPartTypes /\ ServeTypes /\ ReaderTypes /\ MainTypes
BY DEF SimpleTypeOK, PeerTypes, ListPartTypes, ServeTypes, ReaderTypes, MainTypes

LEMMA TypePartsNext ==
  ASSUME PeerTypes', ListPartTypes', ServeTypes', ReaderTypes', MainTypes'
  PROVE  SimpleTypeOK'
BY DEF SimpleTypeOK, PeerTypes, ListPartTypes, ServeTypes, ReaderTypes, MainTypes

-----------------------------------------------------------------------------
(* The steps that leave the connections alone.                             *)

Quiet ==
  /\ UNCHANGED <<peer, inbox, s_list, live, connected, relayed, since>>
  /\ UNCHANGED <<readfds, spc, cur, killed, mainpc>>
  /\ \A p \in Peer : /\ conn'[p].fd = conn[p].fd /\ conn'[p].rx = conn[p].rx
                     /\ conn'[p].tx = conn[p].tx

LEMMA QuietKeeps ==
  ASSUME IInv, Quiet, SimpleTypeOK',
         \A r \in Reader : rpc'[r] = "walk" => rcur'[r] \in Peer
  PROVE  IInv'
<1> USE DEF IInv, Quiet
<1>1. live \subseteq Peer /\ connected \in Seq(Peer)
  BY DEF SimpleTypeOK
<1>2. \A i \in 1 .. Len(connected) : connected[i] \in Peer
  BY <1>1
<1>3. Listed' /\ Begun'
  BY DEF Listed, ListIs, Begun
<1>4. Descriptors' /\ SetKnown' /\ Relayed'
  BY <1>1 DEF Descriptors, SetKnown, Relayed
<1>5. SetTrue'
  BY <1>1, <1>2 DEF SetTrue, ReadyFrom, Readable
<1>6. Missed'
  <2>1. \A i \in 1 .. Len(connected) :
          /\ SendMayKill(connected[i])' <=> SendMayKill(connected[i])
          /\ \A m \in {0, 1} : Got(connected[i], m)' <=> Got(connected[i], m)
    BY <1>2 DEF SendMayKill, SendKills, Got
  <2> QED
    BY <2>1, Zenon DEF Missed
<1> QED
  BY <1>3, <1>4, <1>5, <1>6

(* The readers.                                                            *)
LEMMA ReadersKeep ==
  ASSUME IInv, (\E r \in Reader : ReadStep(r)) \/ LogClientStep
  PROVE  IInv'
<1> USE DEF NotReader, serveVars
<1>1. PeerTypes /\ ListPartTypes /\ ServeTypes /\ ReaderTypes /\ MainTypes
  BY TypeParts DEF IInv
<1>2. /\ \A n \in Peer : s_list.next[n] \in Peer \union {NULL}
      /\ s_list.head \in Peer \union {NULL} /\ Link = Peer \union {NULL}
  BY <1>1 DEF ListPartTypes, IwList, Link, Peer
<1>3. \A r \in Reader : rpc[r] = "walk" => rcur[r] \in Peer
  BY DEF IInv, Begun
<1>4. ASSUME NEW r \in Reader, ReadBegin(r)
      PROVE  IInv'
  <2>1. Quiet
    BY <1>4 DEF ReadBegin, Quiet
  <2>2. /\ UNCHANGED <<mainpc, s_mutex, s_keep_going, s_list, conn, live, connected, relayed, since>>
        /\ UNCHANGED <<readfds, spc, cur, killed, log, do_log, signalled, peer, inbox>>
    BY <1>4 DEF ReadBegin
  <2>3. ListPartTypes' /\ ServeTypes'
    <3>1. ListPartTypes'
      BY <1>1, <2>2 DEF ListPartTypes
    <3>2. ServeTypes'
      BY <1>1, <2>2 DEF ServeTypes
    <3> QED
      BY <3>1, <3>2
  <2>4. MainTypes'
    <3>1. owner' \in {owner, r}
      BY <1>4 DEF ReadBegin
    <3> QED
      BY <1>1, <2>2, <3>1 DEF MainTypes, Thread
  <2>5. PeerTypes'
    <3>1. CASE r = Web
      <4>1. budget.pages > 0
        BY <1>4, <3>1, SimpleAssumption DEF ReadBegin, Wanted
      <4>2. budget' = [budget EXCEPT !.pages = @ - 1]
        BY <1>4, <3>1 DEF ReadBegin
      <4>3. budget' \in [peers : SUBSET Peer, messages : Nat, pages : Nat]
        BY <1>1, <4>1, <4>2 DEF PeerTypes
      <4> QED
        BY <1>1, <2>2, <4>3 DEF PeerTypes
    <3>2. CASE r # Web
      BY <1>1, <1>4, <2>2, <3>2 DEF PeerTypes, ReadBegin
    <3> QED
      BY <3>1, <3>2
  <2>6. ReaderTypes'
    <3>1. rpc' \in [Reader -> {"idle", "walk", "unlock"}] /\ rcur' \in [Reader -> Link]
      BY <1>1, <1>2, <1>4 DEF ReadBegin, ReaderTypes
    <3>2. shown' \in [Reader -> Seq(Peer)] /\ answer' \in [Reader -> Seq(Peer)]
      BY <1>1, <1>4 DEF ReadBegin, ReaderTypes
    <3> QED
      BY <3>1, <3>2 DEF ReaderTypes
  <2>7. \A s \in Reader : rpc'[s] = "walk" => rcur'[s] \in Peer
    BY <1>1, <1>2, <1>3, <1>4 DEF ReadBegin, ReaderTypes
  <2> QED
    BY <2>1, <2>3, <2>4, <2>5, <2>6, <2>7, QuietKeeps, TypePartsNext
<1>5. ASSUME NEW r \in Reader, ShowStep(r)
      PROVE  IInv'
  <2>1. Quiet
    BY <1>5 DEF ShowStep, Quiet
  <2>2. /\ UNCHANGED <<mainpc, s_mutex, s_keep_going, s_list, conn, live, connected, relayed, since>>
        /\ UNCHANGED <<readfds, spc, cur, killed, log, do_log, signalled, peer, inbox, owner, budget>>
    BY <1>5 DEF ShowStep
  <2>3. ListPartTypes' /\ ServeTypes' /\ MainTypes' /\ PeerTypes'
    <3>1. ListPartTypes'
      BY <1>1, <2>2 DEF ListPartTypes
    <3>2. ServeTypes'
      BY <1>1, <2>2 DEF ServeTypes
    <3>3. MainTypes'
      BY <1>1, <2>2 DEF MainTypes
    <3>4. PeerTypes'
      BY <1>1, <2>2 DEF PeerTypes
    <3> QED
      BY <3>1, <3>2, <3>3, <3>4
  <2>4. rcur[r] \in Peer /\ s_list.next[rcur[r]] \in Peer \union {NULL}
    BY <1>2, <1>3, <1>5 DEF ShowStep
  <2>5. rpc' \in [Reader -> {"idle", "walk", "unlock"}] /\ rcur' \in [Reader -> Link]
    BY <1>1, <1>2, <1>5, <2>4 DEF ShowStep, ReaderTypes
  <2>6. shown' \in [Reader -> Seq(Peer)]
    <3>1. shown[r] \in Seq(Peer)
      BY <1>1 DEF ReaderTypes
    <3>2. Append(shown[r], rcur[r]) \in Seq(Peer)
      BY <2>4, <3>1
    <3> QED
      BY <1>1, <1>5, <3>2 DEF ShowStep, ReaderTypes
  <2>7. answer' \in [Reader -> Seq(Peer)]
    <3>1. shown'[r] \in Seq(Peer)
      BY <2>6
    <3> QED
      BY <1>1, <1>5, <3>1 DEF ShowStep, ReaderTypes
  <2>8. \A s \in Reader : rpc'[s] = "walk" => rcur'[s] \in Peer
    BY <1>1, <1>3, <1>5, <2>4 DEF ShowStep, ReaderTypes
  <2>9. ReaderTypes'
    BY <2>5, <2>6, <2>7 DEF ReaderTypes
  <2> QED
    BY <2>1, <2>3, <2>8, <2>9, QuietKeeps, TypePartsNext
<1>6. ASSUME NEW r \in Reader, ReadEnd(r)
      PROVE  IInv'
  <2>1. Quiet
    BY <1>6 DEF ReadEnd, Quiet
  <2>2. /\ UNCHANGED <<mainpc, s_mutex, s_keep_going, s_list, conn, live, connected, relayed, since>>
        /\ UNCHANGED <<readfds, spc, cur, killed, log, do_log, signalled, peer, inbox, budget, answer>>
    BY <1>6 DEF ReadEnd
  <2>3. ListPartTypes' /\ ServeTypes' /\ PeerTypes'
    <3>1. ListPartTypes'
      BY <1>1, <2>2 DEF ListPartTypes
    <3>2. ServeTypes'
      BY <1>1, <2>2 DEF ServeTypes
    <3>3. PeerTypes'
      BY <1>1, <2>2 DEF PeerTypes
    <3> QED
      BY <3>1, <3>2, <3>3
  <2>4. MainTypes'
    <3>1. owner' \in {owner, NoThread}
      BY <1>6 DEF ReadEnd
    <3> QED
      BY <1>1, <2>2, <3>1 DEF MainTypes
  <2>5. ReaderTypes'
    <3>1. rpc' \in [Reader -> {"idle", "walk", "unlock"}] /\ rcur' \in [Reader -> Link]
      BY <1>1, <1>2, <1>6 DEF ReadEnd, ReaderTypes
    <3>2. shown' \in [Reader -> Seq(Peer)]
      BY <1>1, <1>6 DEF ReadEnd, ReaderTypes
    <3> QED
      BY <1>1, <2>2, <3>1, <3>2 DEF ReaderTypes
  <2>6. \A s \in Reader : rpc'[s] = "walk" => rcur'[s] \in Peer
    BY <1>1, <1>3, <1>6 DEF ReadEnd, ReaderTypes
  <2> QED
    BY <2>1, <2>3, <2>4, <2>5, <2>6, QuietKeeps, TypePartsNext
<1>7. ASSUME LogClientStep
      PROVE  IInv'
  <2>1. rcur[CmdThread] \in Peer /\ CmdThread \in Reader
    BY <1>3, <1>7 DEF LogClientStep, Reader
  <2>2. /\ UNCHANGED <<mainpc, s_mutex, s_keep_going, s_list, live, connected, relayed, since>>
        /\ UNCHANGED <<readfds, spc, cur, killed, log, do_log, signalled, peer, inbox, owner, budget>>
        /\ UNCHANGED <<shown, answer>>
    BY <1>7 DEF LogClientStep
  <2>3. PICK b \in BOOLEAN : conn' \in {conn, [conn EXCEPT ![rcur[CmdThread]].do_log = b]}
    BY <1>7 DEF LogClientStep
  <2>4. /\ conn' \in [Peer -> [fd : Fd \union {Listen}, do_log : BOOLEAN, rx : Nat, tx : Nat]]
        /\ \A p \in Peer : /\ conn'[p].fd = conn[p].fd /\ conn'[p].rx = conn[p].rx
                           /\ conn'[p].tx = conn[p].tx
    <3>1. conn \in [Peer -> [fd : Fd \union {Listen}, do_log : BOOLEAN, rx : Nat, tx : Nat]]
      BY <1>1 DEF ListPartTypes
    <3>2. CASE conn' = conn
      BY <3>1, <3>2
    <3>3. CASE conn' = [conn EXCEPT ![rcur[CmdThread]].do_log = b]
      BY <2>1, <3>1, <3>3
    <3> QED
      BY <2>3, <3>2, <3>3
  <2>5. Quiet
    BY <2>2, <2>4 DEF Quiet
  <2>6. ListPartTypes' /\ ServeTypes' /\ MainTypes' /\ PeerTypes'
    <3>1. ListPartTypes'
      BY <1>1, <2>2, <2>4 DEF ListPartTypes
    <3>2. ServeTypes'
      BY <1>1, <2>2 DEF ServeTypes
    <3>3. MainTypes'
      BY <1>1, <2>2 DEF MainTypes
    <3>4. PeerTypes'
      BY <1>1, <2>2 DEF PeerTypes
    <3> QED
      BY <3>1, <3>2, <3>3, <3>4
  <2>7. rpc' \in [Reader -> {"idle", "walk", "unlock"}] /\ rcur' \in [Reader -> Link]
    BY <1>1, <1>2, <1>7, <2>1 DEF LogClientStep, ReaderTypes
  <2>8. ReaderTypes'
    BY <1>1, <2>2, <2>7 DEF ReaderTypes
  <2>9. \A s \in Reader : rpc'[s] = "walk" => rcur'[s] \in Peer
    BY <1>1, <1>2, <1>3, <1>7, <2>1 DEF LogClientStep, ReaderTypes
  <2> QED
    BY <2>5, <2>6, <2>8, <2>9, QuietKeeps, TypePartsNext
<1> QED
  BY <1>4, <1>5, <1>6, <1>7 DEF ReadStep

(* The command server thread.                                              *)
LEMMA CommandsKeep ==
  ASSUME IInv, CmdStep
  PROVE  IInv'
<1> USE DEF IInv, NotCmd, listVars, peerVars, serveVars, readerVars
<1>1. Quiet
  BY DEF CmdStep, CmdReceive, CmdSimple, CmdQuit, CmdQuitDone, Quiet
<1>2. log' \in BOOLEAN /\ signalled' \in BOOLEAN /\ s_keep_going' \in BOOLEAN
  BY DEF CmdStep, CmdReceive, CmdSimple, CmdQuit, CmdQuitDone, SetLog, Callstack, SimpleTypeOK
<1>3. /\ UNCHANGED <<peer, inbox, budget, mainpc, s_mutex, owner, s_list, conn, live, readfds>>
      /\ UNCHANGED <<spc, cur, do_log, killed, rpc, rcur, shown, answer, connected, relayed, since>>
  BY DEF CmdStep, CmdReceive, CmdSimple, CmdQuit, CmdQuitDone
<1>4. SimpleTypeOK'
  <2>1. /\ peer' \in [Peer -> {"away", "waiting", "open", "closed", "reset", "broken", "gone"}]
        /\ inbox' \in [Peer -> Nat]
        /\ budget' \in [peers : SUBSET Peer, messages : Nat, pages : Nat]
    BY <1>3 DEF SimpleTypeOK
  <2>2. /\ mainpc' \in {"connections", "log client", "mutex", "socket", "running"}
        /\ s_mutex' \in BOOLEAN /\ owner' \in Thread \union {NoThread}
        /\ readfds' \subseteq Fd \union {Listen}
        /\ do_log' \in BOOLEAN /\ killed' \in BOOLEAN
    BY <1>3 DEF SimpleTypeOK
  <2>3. /\ s_list' \in IwList
        /\ conn' \in [Peer -> [fd : Fd \union {Listen}, do_log : BOOLEAN, rx : Nat, tx : Nat]]
        /\ live' \subseteq Peer /\ connected' \in Seq(Peer)
        /\ relayed' \in Nat /\ since' \in [Peer -> Nat]
    BY <1>3 DEF SimpleTypeOK
  <2>4. /\ spc' \in {"none", "test", "select", "accept", "lock", "walk", "recv", "unlocked",
                     "set", "exit", "close", "ended"}
        /\ cur' \in Link /\ (spc' = "recv" => cur' \in Peer)
    BY <1>3 DEF SimpleTypeOK
  <2>5. /\ rpc' \in [Reader -> {"idle", "walk", "unlock"}]
        /\ rcur' \in [Reader -> Link]
        /\ shown' \in [Reader -> Seq(Peer)] /\ answer' \in [Reader -> Seq(Peer)]
    BY <1>3 DEF SimpleTypeOK
  <2> QED
    BY <1>2, <2>1, <2>2, <2>3, <2>4, <2>5 DEF SimpleTypeOK
<1> QED
  BY <1>1, <1>3, <1>4, QuietKeeps DEF Begun

(* main_callback and the peers.                                            *)
LEMMA MainKeeps ==
  ASSUME IInv, MainStep, ~killed
  PROVE  IInv'
<1>1. PeerTypes /\ ListPartTypes /\ ServeTypes /\ ReaderTypes /\ MainTypes
  BY TypeParts DEF IInv
<1>2. /\ UNCHANGED <<peer, inbox, budget, owner, s_list, conn, live, connected, relayed, since>>
      /\ UNCHANGED <<s_keep_going, readfds, cur, do_log, killed, log, signalled, rpc, rcur, shown, answer>>
  BY DEF MainStep, peerVars, listVars, readerVars
<1>3. /\ spc' \in {"none", "test"} /\ spc = "none" /\ (mainpc' # "running" => spc' = "none")
      /\ mainpc' \in {"log client", "mutex", "socket", "running"} /\ s_mutex' \in BOOLEAN
  BY <1>1 DEF IInv, Begun, MainTypes, MainStep, MainGoto
<1>4. PeerTypes' /\ ListPartTypes' /\ ServeTypes' /\ ReaderTypes' /\ MainTypes'
  <2>1. PeerTypes'
    BY <1>1, <1>2, <1>3 DEF PeerTypes
  <2>2. ListPartTypes'
    BY <1>1, <1>2, <1>3 DEF ListPartTypes
  <2>3. ServeTypes'
    BY <1>1, <1>2, <1>3 DEF ServeTypes
  <2>4. ReaderTypes'
    BY <1>1, <1>2, <1>3 DEF ReaderTypes
  <2>5. MainTypes'
    BY <1>1, <1>2, <1>3 DEF MainTypes
  <2> QED
    BY <2>1, <2>2, <2>3, <2>4, <2>5
<1>5. Listed' /\ Relayed' /\ Descriptors'
  <2>1. Listed'
    BY <1>2, SMTT(20) DEF IInv, Listed, ListIs
  <2>2. Descriptors' /\ Relayed'
    BY <1>2 DEF IInv, Descriptors, Relayed
  <2> QED
    BY <2>1, <2>2
<1>6. SetKnown' /\ SetTrue' /\ Begun' /\ Missed'
  BY <1>2, <1>3 DEF IInv, SetKnown, SetTrue, Begun, Missed
<1> QED
  BY <1>4, <1>5, <1>6, TypePartsNext DEF IInv

LEMMA PeersKeep ==
  ASSUME IInv, NEW p \in Peer, PeerStep(p), ~killed
  PROVE  IInv'
<1>1. PeerTypes /\ ListPartTypes /\ ServeTypes /\ ReaderTypes /\ MainTypes
  BY TypeParts DEF IInv
<1>2. /\ UNCHANGED <<mainpc, s_mutex, owner, s_list, conn, live, connected, relayed, since>>
      /\ UNCHANGED <<s_keep_going, readfds, spc, cur, do_log, killed, log, signalled, rpc, rcur, shown, answer>>
  BY DEF PeerStep, listVars, serveVars, readerVars
<1>3. /\ \A q \in Peer \ {p} : peer'[q] = peer[q] /\ inbox'[q] = inbox[q]
      /\ p \in live => peer'[p] \in {"open", "closed", "reset", "broken"}
      /\ Readable(p) => Readable(p)'
  BY <1>1 DEF IInv, Descriptors, PeerTypes, Readable, PeerStep, PeerChange
<1>4. PeerTypes'
  <2>1. peer' \in [Peer -> {"away", "waiting", "open", "closed", "reset", "broken", "gone"}]
    BY <1>1 DEF PeerTypes, PeerStep, PeerChange
  <2>2. inbox' \in [Peer -> Nat]
    BY <1>1 DEF PeerTypes, PeerStep, PeerChange
  <2>3. budget' \in [peers : SUBSET Peer, messages : Nat, pages : Nat]
    <3>1. budget' \in {budget, [budget EXCEPT !.messages = @ - 1]}
      BY DEF PeerStep
    <3>2. budget' # budget => budget.messages > 0
      BY DEF PeerStep
    <3> QED
      BY <1>1, <3>1, <3>2 DEF PeerTypes
  <2> QED
    BY <2>1, <2>2, <2>3 DEF PeerTypes
<1>5. ListPartTypes' /\ ServeTypes' /\ ReaderTypes' /\ MainTypes'
  <2>1. ListPartTypes'
    BY <1>1, <1>2 DEF ListPartTypes
  <2>2. ServeTypes'
    BY <1>1, <1>2 DEF ServeTypes
  <2>3. ReaderTypes' /\ MainTypes'
    <3>1. ReaderTypes'
      BY <1>1, <1>2 DEF ReaderTypes
    <3>2. MainTypes'
      BY <1>1, <1>2 DEF MainTypes
    <3> QED
      BY <3>1, <3>2
  <2> QED
    BY <2>1, <2>2, <2>3
<1>6. Listed' /\ Relayed' /\ SetKnown' /\ Begun' /\ Missed'
  <2>1. Listed'
    BY <1>2 DEF IInv, Listed, ListIs
  <2>2. Relayed' /\ SetKnown' /\ Begun' /\ Missed'
    BY <1>2 DEF IInv, Relayed, SetKnown, Begun, Missed
  <2> QED
    BY <2>1, <2>2
<1>7. Descriptors'
  <2>1. \A q \in live : peer'[q] \in {"open", "closed", "reset", "broken"}
    BY <1>1, <1>3 DEF IInv, Descriptors, ListPartTypes
  <2> QED
    BY <1>2, <2>1 DEF IInv, Descriptors
<1>8. \A q \in Peer : Readable(q) => Readable(q)'
  BY <1>3 DEF Readable
<1>9. \A i \in 1 .. Len(connected) : connected[i] \in Peer
  BY <1>1 DEF ListPartTypes
<1>10. \A k : k \in 1 .. Len(connected) /\ ReadyFrom(k) => ReadyFrom(k)'
  BY <1>2, <1>8, <1>9 DEF ReadyFrom
<1>11. SetTrue'
  <2>1. ReadyFrom(1) => ReadyFrom(1)'
    BY <1>2, <1>8, <1>9 DEF ReadyFrom
  <2> QED
    BY <1>2, <1>10, <2>1 DEF IInv, SetTrue
<1> QED
  BY <1>4, <1>5, <1>6, <1>7, <1>11, TypePartsNext DEF IInv

-----------------------------------------------------------------------------
(* serve_data.                                                             *)

\* What every step of serve_data leaves alone.
LEMMA ServeLeaves ==
  ASSUME IInv, ServeStep
  PROVE  /\ UNCHANGED <<budget, mainpc, s_mutex, s_keep_going, rpc, rcur, shown, answer>>
         /\ owner' \in Thread \union {NoThread}
         /\ Begun' /\ ReaderTypes' /\ MainTypes'
         /\ ~killed
<1>1. PeerTypes /\ ListPartTypes /\ ServeTypes /\ ReaderTypes /\ MainTypes
  BY TypeParts DEF IInv
<1>2. /\ UNCHANGED <<budget, mainpc, s_mutex, s_keep_going, rpc, rcur, shown, answer>>
      /\ owner' \in {owner, Serve, NoThread}
      /\ spc = "none" => spc' = "none"
  <2> USE DEF NotServe, NotRecv, readerVars, ServeGoto, ServeLock, ServeUnlock
  <2>1. CASE ServeTest \/ ServeSelect \/ ServeAccept \/ ServeWalkBegin \/ ServeWalk
    BY <2>1 DEF ServeTest, ServeSelect, ServeAccept, ServeWalkBegin, ServeWalk
  <2>2. CASE ServeSignal
    BY <2>2 DEF ServeSignal
  <2>3. CASE ServeRecv
    BY <2>3 DEF ServeRecv
  <2>4. CASE ServeWalkEnd \/ ServeSetBegin \/ ServeSet \/ ServeExit \/ ServeClose
    BY <2>4 DEF ServeWalkEnd, ServeSetBegin, ServeSet, ServeExit, ServeClose
  <2> QED
    BY <2>1, <2>2, <2>3, <2>4 DEF ServeStep
<1>3. owner' \in Thread \union {NoThread}
  BY <1>1, <1>2 DEF MainTypes, Thread
<1>4. ReaderTypes' /\ MainTypes'
  <2>1. ReaderTypes'
    BY <1>1, <1>2, <1>3 DEF ReaderTypes
  <2>2. MainTypes'
    BY <1>1, <1>2, <1>3 DEF MainTypes
  <2> QED
    BY <2>1, <2>2
<1>5. Begun'
  BY <1>2 DEF IInv, Begun
<1> QED
  BY <1>2, <1>3, <1>4, <1>5 DEF ServeStep

\* The links of s_list lead from one connection to the next.
LEMMA Successor ==
  ASSUME IInv, NEW p \in live
  PROVE  \E k \in 1 .. Len(connected) :
           /\ connected[k] = p
           /\ s_list.next[p] = IF k = Len(connected) THEN NULL ELSE connected[k + 1]
           /\ s_list.next[p] \in live \union {NULL}
           /\ \A j \in 1 .. Len(connected) : connected[j] = p => j = k
<1> USE DEF IInv
<1>1. connected \in Seq(Peer)
  BY DEF SimpleTypeOK
<1>2. PICK k \in 1 .. Len(connected) : connected[k] = p
  BY DEF Listed
<1>3. s_list.next[p] = IF k = Len(connected) THEN NULL ELSE connected[k + 1]
  BY <1>2 DEF Listed, ListIs
<1>4. k # Len(connected) => connected[k + 1] \in live
  <2>1. k # Len(connected) => k + 1 \in 1 .. Len(connected)
    BY <1>1, <1>2
  <2> QED
    BY <2>1 DEF Listed
<1>5. \A j \in 1 .. Len(connected) : connected[j] = p => j = k
  BY <1>2 DEF Listed, ListIs
<1> QED
  BY <1>2, <1>3, <1>4, <1>5

\* The first connection.
LEMMA First ==
  ASSUME IInv
  PROVE  s_list.head \in live \union {NULL}
<1>1. connected \in Seq(Peer)
  BY DEF IInv, SimpleTypeOK
<1>2. s_list.head = IF connected = << >> THEN NULL ELSE connected[1]
  BY DEF IInv, Listed, ListIs
<1>3. connected # << >> => connected[1] \in live
  BY <1>1 DEF IInv, Listed
<1> QED
  BY <1>2, <1>3

\* The steps of serve_data that only walk: peers and connections stay.
Walks ==
  /\ UNCHANGED <<peer, inbox, s_list, conn, live, connected, since, relayed, killed>>
  /\ ServeTypes'

LEMMA WalksKeeps ==
  ASSUME IInv, ServeStep, Walks, SetKnown', SetTrue'
  PROVE  IInv'
<1>1. PeerTypes /\ ListPartTypes
  BY TypeParts DEF IInv
<1>2. PeerTypes' /\ ListPartTypes' /\ ServeTypes'
  <2>1. PeerTypes'
    BY <1>1, ServeLeaves DEF PeerTypes, Walks
  <2>2. ListPartTypes'
    BY <1>1, ServeLeaves DEF ListPartTypes, Walks
  <2>3. ServeTypes'
    BY <1>1, ServeLeaves DEF ServeTypes, Walks
  <2> QED
    BY <2>1, <2>2, <2>3
<1>3. Listed'
  BY DEF IInv, Walks, Listed, ListIs
<1>4. Descriptors' /\ Relayed' /\ Missed'
  BY ServeLeaves DEF IInv, Walks, Descriptors, Relayed, Missed
<1> QED
  BY <1>2, <1>3, <1>4, ServeLeaves, TypePartsNext DEF IInv

LEMMA WalkingKeeps ==
  ASSUME IInv, ~killed,
         ServeTest \/ ServeSelect \/ ServeSignal \/ ServeWalkBegin \/ ServeWalk
           \/ ServeWalkEnd \/ ServeSetBegin \/ ServeSet \/ ServeExit
  PROVE  IInv'
<1> USE DEF ServeGoto, listVars
<1>1. ServeStep /\ ServeTypes /\ ListPartTypes
  BY TypeParts DEF ServeStep, IInv
<1>2. /\ s_list.head \in live \union {NULL} /\ live \subseteq Peer /\ Link = Peer \union {NULL}
      /\ NULL \notin Peer /\ Listen \notin Fd
      /\ \A j \in 1 .. Len(connected) : connected[j] \in live
      /\ connected \in Seq(Peer)
      /\ \A p \in live : conn[p].fd \in Fd
  BY <1>1, First, ListAssumption, SimpleAssumption DEF Link, Peer, ListPartTypes, IInv, Listed, Descriptors
<1>3. UNCHANGED <<peer, inbox, s_list, conn, live, connected, since, relayed, killed>>
  BY DEF NotServe, ServeTest, ServeSelect, ServeSignal, ServeWalkBegin, ServeWalk,
         ServeWalkEnd, ServeSetBegin, ServeSet, ServeExit
<1>4. \A k : ReadyFrom(k)' <=> \A j \in k .. Len(connected) :
                                 conn[connected[j]].fd \in readfds' => Readable(connected[j])
  BY <1>3 DEF ReadyFrom, Readable
<1>5. CASE ServeTest
  <2>1. UNCHANGED <<readfds, cur, log, do_log, signalled>> /\ spc = "test" /\ spc' \in {"select", "exit"}
    BY <1>5 DEF ServeTest
  <2>2. Walks
    BY <1>1, <1>3, <2>1 DEF Walks, ServeTypes
  <2>3. SetKnown' /\ SetTrue'
    BY <1>3, <2>1 DEF IInv, SetKnown, SetTrue
  <2> QED
    BY <1>1, <2>2, <2>3, WalksKeeps
<1>6. CASE ServeSelect
  <2>1. UNCHANGED <<cur, log, do_log, signalled>> /\ spc = "select" /\ spc' = "accept"
    BY <1>6 DEF ServeSelect
  <2>2. /\ readfds' \subseteq readfds
        /\ \A fd \in readfds' : fd = Listen \/ \E p \in live : conn[p].fd = fd /\ Readable(p)
    BY <1>6 DEF ServeSelect
  <2>3. Walks
    BY <1>1, <1>3, <2>1, <2>2 DEF Walks, ServeTypes
  <2>4. SetKnown'
    BY <1>3, <2>1, <2>2 DEF IInv, SetKnown
  <2>5. \A q \in live : conn[q].fd \in readfds' => Readable(q)
    BY <1>2, <2>2 DEF IInv, Descriptors
  <2>6. ReadyFrom(1)'
    BY <1>2, <1>4, <2>5
  <2>7. SetTrue'
    BY <2>1, <2>6 DEF SetTrue
  <2> QED
    BY <1>1, <2>3, <2>4, <2>7, WalksKeeps
<1>7. CASE ServeSignal
  <2>1. /\ UNCHANGED <<readfds, cur, log, do_log>> /\ signalled' = FALSE
        /\ spc' = spc \/ spc' = "exit"
    BY <1>7 DEF ServeSignal
  <2>2. Walks
    BY <1>1, <1>3, <2>1 DEF Walks, ServeTypes
  <2>3. SetKnown'
    BY <1>3, <2>1 DEF IInv, SetKnown
  <2>4. \A k : ReadyFrom(k)' <=> ReadyFrom(k)
    BY <1>4, <2>1 DEF ReadyFrom
  <2>5. SetTrue'
    BY <1>3, <2>1, <2>4 DEF IInv, SetTrue
  <2> QED
    BY <1>1, <2>2, <2>3, <2>5, WalksKeeps
<1>8. CASE ServeWalkBegin
  <2>1. /\ UNCHANGED <<readfds, log, do_log, signalled>> /\ spc = "lock" /\ spc' = "walk"
        /\ cur' = s_list.head
    BY <1>8 DEF ServeWalkBegin
  <2>2. Walks
    BY <1>1, <1>2, <1>3, <2>1 DEF Walks, ServeTypes
  <2>3. \A k \in 1 .. Len(connected) : ReadyFrom(k)'
    <3>1. ReadyFrom(1)
      BY <2>1 DEF IInv, SetTrue
    <3> QED
      BY <1>4, <2>1, <3>1 DEF ReadyFrom
  <2>4. SetKnown' /\ SetTrue'
    BY <1>2, <1>3, <2>1, <2>3 DEF SetKnown, SetTrue
  <2> QED
    BY <1>1, <2>2, <2>4, WalksKeeps
<1>9. CASE ServeWalk
  <2>1. /\ UNCHANGED <<readfds, signalled>> /\ spc = "walk" /\ cur \in live
        /\ log' \in BOOLEAN /\ do_log' \in BOOLEAN
    BY <1>1, <1>2, <1>9 DEF ServeWalk, IInv, SetTrue, ServeTypes, ListPartTypes
  <2>2. PICK k \in 1 .. Len(connected) :
           /\ connected[k] = cur
           /\ s_list.next[cur] = IF k = Len(connected) THEN NULL ELSE connected[k + 1]
           /\ s_list.next[cur] \in live \union {NULL}
           /\ \A j \in 1 .. Len(connected) : connected[j] = cur => j = k
    BY <2>1, Successor
  <2>3. ReadyFrom(k)
    BY <2>1, <2>2 DEF IInv, SetTrue
  <2>4. \A i : ReadyFrom(i)' <=> ReadyFrom(i)
    BY <1>4, <2>1 DEF ReadyFrom
  <2>5. SetKnown'
    BY <1>9, <2>1 DEF ServeWalk, SetKnown
  <2>6. CASE conn[cur].fd \in readfds
    <3>1. spc' = "recv" /\ cur' = cur
      BY <1>9, <2>6 DEF ServeWalk
    <3>2. Walks
      BY <1>1, <1>2, <1>3, <2>1, <3>1 DEF Walks, ServeTypes
    <3>3. SetTrue'
      BY <1>3, <2>1, <2>4, <2>6, <3>1 DEF IInv, SetTrue
    <3> QED
      BY <1>1, <2>5, <3>2, <3>3, WalksKeeps
  <2>7. CASE conn[cur].fd \notin readfds
    <3>1. spc' = "walk" /\ cur' = s_list.next[cur]
      BY <1>9, <2>1, <2>7 DEF ServeWalk
    <3>2. Walks
      BY <1>1, <1>2, <1>3, <2>1, <2>2, <3>1 DEF Walks, ServeTypes
    <3>3. \A i \in 1 .. Len(connected) : connected[i] = cur' => ReadyFrom(i)
      <4>1. ASSUME NEW i \in 1 .. Len(connected), connected[i] = cur'
            PROVE  ReadyFrom(i)
        <5>1. k # Len(connected) /\ connected[i] = connected[k + 1]
          BY <1>2, <2>2, <3>1, <4>1
        <5>2. k + 1 \in 1 .. Len(connected)
          BY <1>2, <5>1
        <5>3. i = k + 1
          BY <5>1, <5>2 DEF IInv, Listed, ListIs
        <5> QED
          BY <2>3, <5>3 DEF ReadyFrom
      <4> QED
        BY <4>1
    <3>4. SetTrue'
      BY <1>3, <2>2, <2>4, <3>1, <3>3 DEF SetTrue
    <3> QED
      BY <1>1, <2>5, <3>2, <3>4, WalksKeeps
  <2> QED
    BY <2>6, <2>7
<1>10. CASE ServeWalkEnd
  <2>1. UNCHANGED <<readfds, cur, log, do_log, signalled>> /\ spc' = "unlocked"
    BY <1>10 DEF ServeWalkEnd
  <2>2. Walks
    BY <1>1, <1>3, <2>1 DEF Walks, ServeTypes
  <2>3. SetKnown' /\ SetTrue'
    BY <2>1 DEF SetKnown, SetTrue
  <2> QED
    BY <1>1, <2>2, <2>3, WalksKeeps
<1>11. CASE ServeSetBegin
  <2>1. /\ UNCHANGED <<log, do_log, signalled>> /\ spc' = "set"
        /\ readfds' = {Listen} /\ cur' = s_list.head
    BY <1>11 DEF ServeSetBegin
  <2>2. Walks
    BY <1>1, <1>2, <1>3, <2>1 DEF Walks, ServeTypes
  <2>3. SetKnown' /\ SetTrue'
    BY <1>2, <1>3, <2>1 DEF SetKnown, SetTrue
  <2> QED
    BY <1>1, <2>2, <2>3, WalksKeeps
<1>12. CASE ServeSet
  <2>1. UNCHANGED <<log, do_log, signalled>> /\ spc = "set" /\ cur \in live \union {NULL}
    BY <1>12 DEF ServeSet, IInv, SetTrue
  <2>2. CASE cur # NULL
    <3>1. spc' = "set" /\ readfds' = readfds \union {conn[cur].fd} /\ cur' = s_list.next[cur]
      BY <1>12, <2>1, <2>2 DEF ServeSet
    <3>2. cur' \in live \union {NULL}
      BY <2>1, <2>2, <3>1, Successor
    <3>3. Walks
      BY <1>1, <1>2, <1>3, <2>1, <2>2, <3>1, <3>2 DEF Walks, ServeTypes
    <3>4. SetKnown' /\ SetTrue'
      BY <1>3, <2>1, <2>2, <3>1, <3>2 DEF IInv, SetKnown, SetTrue
    <3> QED
      BY <1>1, <3>3, <3>4, WalksKeeps
  <2>3. CASE cur = NULL
    <3>1. spc' = "test" /\ UNCHANGED <<readfds, cur>>
      BY <1>12, <2>3 DEF ServeSet
    <3>2. Walks
      BY <1>1, <1>3, <2>1, <3>1 DEF Walks, ServeTypes
    <3>3. SetKnown' /\ SetTrue'
      BY <1>3, <2>1, <3>1 DEF IInv, SetKnown, SetTrue
    <3> QED
      BY <1>1, <3>2, <3>3, WalksKeeps
  <2> QED
    BY <2>2, <2>3
<1>13. CASE ServeExit
  <2>1. UNCHANGED <<readfds, log, do_log, signalled>> /\ spc' = "close" /\ cur' = s_list.head
    BY <1>13 DEF ServeExit
  <2>2. Walks
    BY <1>1, <1>2, <1>3, <2>1 DEF Walks, ServeTypes
  <2>3. SetKnown' /\ SetTrue'
    BY <1>2, <1>3, <2>1 DEF SetKnown, SetTrue
  <2> QED
    BY <1>1, <2>2, <2>3, WalksKeeps
<1> QED
  BY <1>5, <1>6, <1>7, <1>8, <1>9, <1>10, <1>11, <1>12, <1>13

(* A connection is accepted: its descriptor is in no set yet.              *)
LEMMA AcceptKeeps ==
  ASSUME IInv, ServeAccept, ~killed
  PROVE  IInv'
<1>1. ServeStep /\ PeerTypes /\ ServeTypes /\ ListPartTypes
  BY TypeParts DEF ServeStep, IInv
<1>2. /\ UNCHANGED <<inbox, readfds, cur, log, do_log, killed, signalled>>
      /\ spc = "accept" /\ spc' = "lock"
  BY DEF ServeAccept, ServeGoto, NotServe
<1>3. ServeTypes'
  BY <1>1, <1>2 DEF ServeTypes
<1>4. /\ connected \in Seq(Peer) /\ live \subseteq Peer
      /\ \A i \in 1 .. Len(connected) : connected[i] \in live
  BY <1>1 DEF ListPartTypes, IInv, Listed
<1>5. CASE UNCHANGED <<peer, listVars>>
  <2>1. Walks
    BY <1>2, <1>3, <1>5 DEF Walks, listVars
  <2>2. SetKnown'
    BY <1>2 DEF SetKnown
  <2>3. ReadyFrom(1)
    BY <1>2 DEF IInv, SetTrue
  <2>4. ReadyFrom(1)'
    BY <1>2, <1>5, <2>3 DEF ReadyFrom, Readable, listVars
  <2>5. SetTrue'
    BY <1>2, <2>4 DEF SetTrue
  <2> QED
    BY <1>1, <2>1, <2>2, <2>5, WalksKeeps
<1>6. ASSUME NEW p \in Peer, NEW fd \in FreeFds, Connects(p, fd)
      PROVE  IInv'
  <2>1. /\ Listed' /\ p \notin live
        /\ s_list' \in IwList /\ connected' \in Seq(Peer) /\ live' \subseteq Peer
    BY <1>6, ConnectsLists
  <2>2. /\ fd \in Fd /\ fd # Listen /\ \A q \in live : conn[q].fd # fd
        /\ live' = live \union {p} /\ connected' = Append(connected, p)
        /\ relayed' = relayed
    BY <1>6, SimpleAssumption DEF Connects, FreeFds
  <2>3. /\ conn'[p] = [fd |-> fd, do_log |-> TRUE, rx |-> 0, tx |-> 0]
        /\ \A q \in Peer \ {p} : conn'[q] = conn[q]
        /\ conn' \in [Peer -> [fd : Fd \union {Listen}, do_log : BOOLEAN, rx : Nat, tx : Nat]]
    <3>1. conn \in [Peer -> [fd : Fd \union {Listen}, do_log : BOOLEAN, rx : Nat, tx : Nat]]
      BY <1>1 DEF ListPartTypes
    <3>2. conn' = [conn EXCEPT ![p] = [fd |-> fd, do_log |-> TRUE, rx |-> 0, tx |-> 0]]
      BY <1>6 DEF Connects
    <3> QED
      BY <2>2, <3>1, <3>2
  <2>4. /\ since'[p] = relayed /\ \A q \in Peer \ {p} : since'[q] = since[q]
        /\ since' \in [Peer -> Nat] /\ relayed \in Nat
    BY <1>1, <1>6 DEF Connects, ListPartTypes
  <2>5. /\ peer' \in [Peer -> {"away", "waiting", "open", "closed", "reset", "broken", "gone"}]
        /\ peer'[p] = "open" /\ \A q \in Peer \ {p} : peer'[q] = peer[q]
    BY <1>1, <1>6 DEF Connects, PeerChange, PeerTypes
  <2>6. PeerTypes'
    BY <1>1, <1>2, <2>5, ServeLeaves DEF PeerTypes
  <2>7. ListPartTypes'
    BY <2>1, <2>2, <2>3, <2>4 DEF ListPartTypes
  <2>8. Descriptors'
    <3>1. \A q \in live' : peer'[q] \in {"open", "closed", "reset", "broken"} /\ conn'[q].fd \in Fd
      BY <1>4, <2>1, <2>2, <2>3, <2>5, SMTT(20) DEF IInv, Descriptors
    <3>2. \A q, r \in live' : conn'[r].fd = conn'[q].fd => r = q
      BY <1>4, <2>1, <2>2, <2>3 DEF IInv, Descriptors
    <3> QED
      BY <3>1, <3>2 DEF Descriptors
  <2>9. Relayed' /\ Missed'
    <3>1. conn'[p].rx + conn'[p].tx = relayed' - since'[p]
      BY <2>2, <2>3, <2>4
    <3>2. \A q \in live : conn'[q].rx + conn'[q].tx = relayed' - since'[q]
      BY <1>4, <2>1, <2>2, <2>3, <2>4 DEF IInv, Relayed
    <3> QED
      BY <1>2, <2>2, <3>1, <3>2 DEF Relayed, Missed
  <2>10. SetKnown'
    BY <1>2 DEF SetKnown
  <2>11. ReadyFrom(1)'
    <3>1. conn'[p].fd \notin readfds'
      BY <1>2, <2>2, <2>3 DEF IInv, SetKnown
    <3>2. /\ \A i \in 1 .. Len(connected) : connected'[i] = connected[i]
          /\ Len(connected') = Len(connected) + 1 /\ connected'[Len(connected) + 1] = p
      BY <1>4, <2>2
    <3>3. \A q \in live : /\ conn'[q].fd = conn[q].fd
                          /\ Readable(q)' <=> Readable(q)
      BY <1>2, <1>4, <2>1, <2>3, <2>5 DEF Readable
    <3>4. ReadyFrom(1)
      BY <1>2 DEF IInv, SetTrue
    <3>5. ASSUME NEW j \in 1 .. Len(connected'), conn'[connected'[j]].fd \in readfds'
          PROVE  Readable(connected[j])'
      <4>1. j # Len(connected) + 1
        BY <3>1, <3>2, <3>5
      <4>2. j \in 1 .. Len(connected) /\ connected'[j] = connected[j]
        BY <1>4, <3>2, <4>1
      <4> QED
        BY <1>2, <1>4, <3>3, <3>4, <3>5, <4>2 DEF ReadyFrom
    <3> QED
      BY <3>5 DEF ReadyFrom
  <2>12. SetTrue'
    BY <1>2, <2>11 DEF SetTrue
  <2> QED
    BY <1>1, <1>3, <2>1, <2>6, <2>7, <2>8, <2>9, <2>10, <2>12, ServeLeaves, TypePartsNext DEF IInv
<1> QED
  BY <1>5, <1>6 DEF ServeAccept, Connects

(* A connection is taken off the list: what is known of the others stays.  *)
LEMMA DisconnectKeeps ==
  ASSUME IInv, ServeStep, NEW p \in live, Disconnect(p), ServeTypes', SetTrue',
         UNCHANGED killed,
         spc' \notin {"none", "test", "select", "accept", "set"}
  PROVE  IInv'
<1>1. PeerTypes /\ ListPartTypes
  BY TypeParts DEF IInv
<1>2. /\ Listed' /\ p \notin live' /\ live' \subseteq live
      /\ s_list' \in IwList /\ connected' \in Seq(Peer)
  BY DisconnectLists
<1>3. UNCHANGED <<conn, since, relayed, budget>>
  BY ServeLeaves DEF Disconnect
<1>4. /\ peer' \in [Peer -> {"away", "waiting", "open", "closed", "reset", "broken", "gone"}]
      /\ inbox' \in [Peer -> Nat]
      /\ \A q \in Peer \ {p} : peer'[q] = peer[q] /\ inbox'[q] = inbox[q]
  BY <1>1 DEF Disconnect, PeerTypes
<1>5. PeerTypes'
  BY <1>1, <1>3, <1>4 DEF PeerTypes
<1>6. ListPartTypes'
  BY <1>1, <1>2, <1>3 DEF ListPartTypes
<1>7. Descriptors' /\ Relayed' /\ SetKnown' /\ Missed'
  <2>1. live \subseteq Peer
    BY <1>1 DEF ListPartTypes
  <2>2. Descriptors'
    BY <1>2, <1>3, <1>4, <2>1 DEF IInv, Descriptors
  <2>3. Relayed'
    BY <1>2, <1>3 DEF IInv, Relayed
  <2> QED
    BY <2>2, <2>3, ServeLeaves DEF SetKnown, Missed
<1> QED
  BY <1>2, <1>5, <1>6, <1>7, ServeLeaves, TypePartsNext DEF IInv

LEMMA CloseKeeps ==
  ASSUME IInv, ServeClose, ~killed
  PROVE  IInv'
<1>1. ServeStep /\ ServeTypes /\ ListPartTypes /\ PeerTypes
  BY TypeParts DEF ServeStep, IInv
<1>2. UNCHANGED <<readfds, log, do_log, killed, signalled>> /\ cur \in live \union {NULL}
  BY DEF ServeClose, IInv, SetTrue, NotServe
<1>3. CASE cur # NULL
  <2>1. Disconnect(cur) /\ cur' = s_list.next[cur] /\ spc' = "close" /\ cur \in live
    BY <1>2, <1>3 DEF ServeClose
  <2>2. cur' \in live' \union {NULL}
    <3>1. PICK k \in 1 .. Len(connected) :
            /\ connected[k] = cur
            /\ s_list.next[cur] = IF k = Len(connected) THEN NULL ELSE connected[k + 1]
            /\ s_list.next[cur] \in live \union {NULL}
            /\ \A j \in 1 .. Len(connected) : connected[j] = cur => j = k
      BY <2>1, Successor
    <3>2. connected \in Seq(Peer)
      BY <1>1 DEF ListPartTypes
    <3>3. s_list.next[cur] # cur
      BY <1>3, <3>1, <3>2
    <3> QED
      BY <2>1, <3>1, <3>3 DEF Disconnect
  <2>3. live' \subseteq Peer
    BY <1>1, <2>1 DEF ListPartTypes, Disconnect
  <2>4. ServeTypes'
    BY <1>1, <1>2, <2>1, <2>2, <2>3 DEF ServeTypes, Link, Peer
  <2>5. SetTrue'
    BY <2>1, <2>2 DEF SetTrue
  <2> QED
    BY <1>1, <1>2, <2>1, <2>4, <2>5, DisconnectKeeps
<1>4. CASE cur = NULL
  <2>1. spc' = "ended" /\ UNCHANGED <<peer, inbox, listVars, cur>>
    BY <1>4 DEF ServeClose
  <2>2. ServeTypes'
    BY <1>1, <1>2, <2>1 DEF ServeTypes
  <2>3. Walks
    BY <1>2, <2>1, <2>2 DEF Walks, listVars
  <2>4. SetKnown' /\ SetTrue'
    BY <2>1 DEF SetKnown, SetTrue
  <2> QED
    BY <1>1, <2>3, <2>4, WalksKeeps
<1> QED
  BY <1>3, <1>4

\* The others have descriptors of their own.
LEMMA OthersAre ==
  ASSUME IInv, cur \in live
  PROVE  Others = live \ {cur}
BY DEF IInv, Descriptors, Others

GotNext(p, missing) == conn'[p].rx + conn'[p].tx + missing = relayed' - since'[p]

\* A message of cur that goes to some of the others.
LEMMA RelayToKeeps ==
  ASSUME IInv, NEW receivers \in SUBSET Others, RelayTo(receivers), cur \in live,
         UNCHANGED budget
  PROVE  /\ PeerTypes' /\ ListPartTypes' /\ Listed' /\ Descriptors'
         /\ \A p \in Peer : conn'[p].fd = conn[p].fd
         /\ \A p \in Peer \ {cur} : Readable(p)' <=> Readable(p)
         /\ ~killed => \A p \in live : GotNext(p, IF p = cur \/ p \in receivers THEN 0 ELSE 1)
<1>1. PeerTypes /\ ListPartTypes
  BY TypeParts DEF IInv
<1>2. live \subseteq Peer /\ cur \in Peer /\ receivers \subseteq live \ {cur}
  BY <1>1, OthersAre DEF ListPartTypes
<1>3. /\ inbox[cur] > 0 /\ inbox' = [inbox EXCEPT ![cur] = @ - 1]
      /\ relayed' = relayed + 1
      /\ UNCHANGED <<peer, s_list, live, connected, since>>
  BY DEF RelayTo
<1>4. /\ conn \in [Peer -> [fd : Fd \union {Listen}, do_log : BOOLEAN, rx : Nat, tx : Nat]]
      /\ conn' = [p \in Peer |->
           IF p = cur THEN [conn[p] EXCEPT !.rx = @ + 1]
           ELSE IF p \in receivers THEN [conn[p] EXCEPT !.tx = @ + 1] ELSE conn[p]]
  BY <1>1 DEF RelayTo, ListPartTypes
<1>5. /\ conn' \in [Peer -> [fd : Fd \union {Listen}, do_log : BOOLEAN, rx : Nat, tx : Nat]]
      /\ \A p \in Peer : conn'[p].fd = conn[p].fd
  <2> DEFINE Conn == [fd : Fd \union {Listen}, do_log : BOOLEAN, rx : Nat, tx : Nat]
  <2>1. \A p \in Peer : conn'[p] \in Conn /\ conn'[p].fd = conn[p].fd
    <3>1. ASSUME NEW p \in Peer, NEW c \in Conn
          PROVE  [c EXCEPT !.rx = @ + 1] \in Conn /\ [c EXCEPT !.tx = @ + 1] \in Conn
      OBVIOUS
    <3>2. \A p \in Peer : \/ conn'[p] = [conn[p] EXCEPT !.rx = @ + 1]
                          \/ conn'[p] = [conn[p] EXCEPT !.tx = @ + 1]
                          \/ conn'[p] = conn[p]
      BY <1>4
    <3>3. \A p \in Peer : conn[p] \in Conn
      BY <1>4
    <3> QED
      BY <3>1, <3>2, <3>3
  <2>2. conn' \in [Peer -> Conn]
    <3> HIDE DEF Conn
    <3> QED
      BY <1>4, <2>1
  <2> QED
    BY <2>1, <2>2
<1>6. PeerTypes'
  <2>1. inbox' \in [Peer -> Nat]
    <3>1. inbox \in [Peer -> Nat] /\ inbox[cur] - 1 \in Nat
      BY <1>1, <1>2, <1>3 DEF PeerTypes
    <3> QED
      BY <1>3, <3>1
  <2> QED
    BY <1>1, <1>3, <2>1 DEF PeerTypes
<1>7. ListPartTypes'
  BY <1>1, <1>3, <1>5 DEF ListPartTypes
<1>8. Listed'
  <2>1. Listed
    BY DEF IInv
  <2> QED
    BY <1>3, <2>1 DEF Listed
<1>9. Descriptors'
  BY <1>2, <1>3, <1>5, SMTT(20) DEF IInv, Descriptors
<1>10. ASSUME NEW p \in Peer \ {cur} PROVE Readable(p)' <=> Readable(p)
  <2>1. inbox'[p] = inbox[p] /\ peer' = peer
    BY <1>1, <1>3, <1>10 DEF PeerTypes
  <2> QED
    BY <2>1 DEF Readable
<1>11. ASSUME ~killed, NEW p \in live
       PROVE  GotNext(p, IF p = cur \/ p \in receivers THEN 0 ELSE 1)
  <2> DEFINE rx == conn[p].rx  tx == conn[p].tx  first == since[p]
  <2>1. rx \in Nat /\ tx \in Nat /\ first \in Nat /\ relayed \in Nat /\ rx + tx = relayed - first
    <3>1. conn[p] \in [fd : Fd \union {Listen}, do_log : BOOLEAN, rx : Nat, tx : Nat]
      BY <1>2, <1>4
    <3>2. relayed \in Nat /\ since[p] \in Nat
      BY <1>1, <1>2 DEF ListPartTypes
    <3> QED
      BY <1>11, <3>1, <3>2 DEF IInv, Relayed
  <2>2. relayed' = relayed + 1 /\ since'[p] = first
    BY <1>3
  <2>3. CASE p = cur
    <3>1. conn'[p] = [conn[p] EXCEPT !.rx = @ + 1]
      BY <1>2, <1>4, <2>3
    <3>2. conn'[p].rx = rx + 1 /\ conn'[p].tx = tx
      BY <1>2, <1>4, <3>1
    <3> HIDE DEF rx, tx, first
    <3>3. (rx + 1) + tx + 0 = (relayed + 1) - first
      BY <2>1
    <3> QED
      BY <2>2, <2>3, <3>2, <3>3 DEF GotNext
  <2>4. CASE p \in receivers
    <3>1. conn'[p] = [conn[p] EXCEPT !.tx = @ + 1]
      BY <1>2, <1>4, <2>4
    <3>2. conn'[p].rx = rx /\ conn'[p].tx = tx + 1
      BY <1>2, <1>4, <3>1
    <3> HIDE DEF rx, tx, first
    <3>3. rx + (tx + 1) + 0 = (relayed + 1) - first
      BY <2>1
    <3> QED
      BY <2>2, <2>4, <3>2, <3>3 DEF GotNext
  <2>5. CASE p # cur /\ p \notin receivers
    <3>1. conn'[p].rx = rx /\ conn'[p].tx = tx
      BY <1>2, <1>4, <2>5
    <3> HIDE DEF rx, tx, first
    <3>2. rx + tx + 1 = (relayed + 1) - first
      BY <2>1
    <3> QED
      BY <2>2, <2>5, <3>1, <3>2 DEF GotNext
  <2> QED
    BY <2>3, <2>4, <2>5
<1> QED
  BY <1>5, <1>6, <1>7, <1>8, <1>9, <1>10, <1>11

(* recv, whatever it finds: the walk goes on behind the connection.        *)
LEMMA RecvKeeps ==
  ASSUME IInv, ServeRecv, ~killed
  PROVE  IInv'
<1>1. ServeStep /\ ServeTypes /\ ListPartTypes /\ PeerTypes
  BY TypeParts DEF ServeStep, IInv
<1>2. UNCHANGED <<readfds, do_log, signalled>> /\ spc = "recv" /\ spc' = "walk" /\ cur \in live
  BY DEF ServeRecv, ServeGoto, IInv, SetTrue
<1>3. PICK k \in 1 .. Len(connected) :
        /\ connected[k] = cur
        /\ s_list.next[cur] = IF k = Len(connected) THEN NULL ELSE connected[k + 1]
        /\ s_list.next[cur] \in live \union {NULL}
        /\ \A j \in 1 .. Len(connected) : connected[j] = cur => j = k
  BY <1>2, Successor
<1>4. ReadyFrom(k)
  BY <1>2, <1>3 DEF IInv, SetTrue
<1>5. /\ connected \in Seq(Peer) /\ live \subseteq Peer /\ cur \in Peer
      /\ \A i \in 1 .. Len(connected) : connected[i] \in live
      /\ \A i, j \in 1 .. Len(connected) : connected[i] = connected[j] => i = j
      /\ Link = Peer \union {NULL} /\ NULL \notin Peer
  BY <1>1, <1>2, ListAssumption DEF ListPartTypes, IInv, Listed, ListIs, Link, Peer
<1>6. SetKnown'
  BY <1>2 DEF SetKnown
<1>7. CASE Relay
  <2>1. /\ RelayTo(Others) /\ cur' = s_list.next[cur] /\ log' = do_log
        /\ UNCHANGED <<killed, live, connected>>
    BY <1>7 DEF Relay, RelayTo
  <2>2. UNCHANGED budget
    BY <1>1, ServeLeaves
  <2>3. /\ PeerTypes' /\ ListPartTypes' /\ Listed' /\ Descriptors'
        /\ \A p \in Peer : conn'[p].fd = conn[p].fd
        /\ \A p \in Peer \ {cur} : Readable(p)' <=> Readable(p)
        /\ \A p \in live : GotNext(p, IF p = cur \/ p \in Others THEN 0 ELSE 1)
    BY <1>2, <2>1, <2>2, RelayToKeeps
  <2>4. ServeTypes'
    BY <1>1, <1>2, <1>3, <1>5, <2>1 DEF ServeTypes
  <2>5. Relayed' /\ Missed'
    <3>1. \A p \in live : GotNext(p, 0)
      BY <1>2, <2>3, OthersAre
    <3>2. ASSUME NEW p \in live PROVE conn'[p].rx + conn'[p].tx = relayed' - since'[p]
      <4>1. conn'[p].rx + conn'[p].tx + 0 = relayed' - since'[p]
        BY <3>1 DEF GotNext
      <4>2. conn'[p].rx \in Nat /\ conn'[p].tx \in Nat
        BY <1>5, <2>3 DEF ListPartTypes
      <4> QED
        BY <4>1, <4>2
    <3> QED
      BY <2>1, <3>2 DEF Relayed, Missed
  <2>6. SetTrue'
    <3>1. ASSUME NEW i \in 1 .. Len(connected), connected[i] = cur',
                 NEW j \in i .. Len(connected), conn'[connected[j]].fd \in readfds
          PROVE  Readable(connected[j])'
      <4>1. k # Len(connected) /\ k + 1 \in 1 .. Len(connected) /\ i = k + 1
        BY <1>3, <1>5, <2>1, <3>1
      <4>2. j \in k .. Len(connected) /\ j \in 1 .. Len(connected) /\ j # k
        BY <4>1
      <4>3. connected[j] \in Peer /\ connected[j] # cur
        BY <1>3, <1>5, <4>2
      <4>4. Readable(connected[j])
        BY <1>4, <2>3, <3>1, <4>2, <4>3 DEF ReadyFrom
      <4> QED
        BY <2>1, <2>3, <4>3, <4>4 DEF Readable
    <3>2. \A i \in 1 .. Len(connected') : connected'[i] = cur' => ReadyFrom(i)'
      BY <1>2, <2>1, <3>1 DEF ReadyFrom
    <3> QED
      BY <1>2, <1>3, <2>1, <3>2 DEF SetTrue
  <2> QED
    BY <1>1, <1>6, <2>3, <2>4, <2>5, <2>6, ServeLeaves, TypePartsNext DEF IInv
<1>8. CASE RelayKilled
  <2>1. PICK p \in Others :
          SendMayKill(p) /\ RelayTo(OthersBefore(p)) /\ killed' = TRUE /\ UNCHANGED <<cur, log>>
    BY <1>8 DEF RelayKilled
  <2>2. UNCHANGED budget /\ OthersBefore(p) \in SUBSET Others
    BY <1>1, ServeLeaves DEF OthersBefore
  <2>3. /\ PeerTypes' /\ ListPartTypes' /\ Listed' /\ Descriptors'
        /\ \A q \in live : GotNext(q, IF q = cur \/ q \in OthersBefore(p) THEN 0 ELSE 1)
    BY <1>2, <2>1, <2>2, RelayToKeeps
  <2>4. UNCHANGED <<peer, live, connected>>
    BY <2>1 DEF RelayTo
  <2>5. ServeTypes'
    BY <1>1, <1>2, <1>5, <2>1 DEF ServeTypes
  <2>6. SetTrue'
    BY <1>2, <2>1, <2>4 DEF SetTrue
  <2>7. Relayed'
    BY <2>1 DEF Relayed
  <2>8. Missed'
    <3>1. \A i \in 1 .. Len(connected) : PlaceOf(connected, connected[i]) = i
      BY <1>5 DEF PlaceOf
    <3>2. PICK m \in 1 .. Len(connected) : connected[m] = p /\ p # cur
      BY <1>2, OthersAre DEF IInv, Listed
    <3>3. \A i \in 1 .. Len(connected) :
            connected[i] \in OthersBefore(p) <=> i < m /\ connected[i] # cur
      BY <1>2, <1>5, <3>1, <3>2, OthersAre DEF OthersBefore
    <3>4. ASSUME NEW i \in 1 .. Len(connected)
          PROVE  GotNext(connected[i], IF i < m \/ connected[i] = cur THEN 0 ELSE 1)
      <4>1. GotNext(connected[i], IF connected[i] = cur \/ connected[i] \in OthersBefore(p)
                                  THEN 0 ELSE 1)
        BY <1>5, <2>3, <2>4, <3>4
      <4> QED
        BY <3>3, <4>1, <2>1, <2>4
    <3>5. SendMayKill(connected[m])'
      BY <2>1, <2>4, <3>2 DEF SendMayKill, SendKills
    <3>6. connected'[m] # cur' /\ Len(connected') = Len(connected)
      BY <2>1, <2>4, <3>2
    <3>7. \A i \in 1 .. Len(connected') :
            Got(connected[i], IF i < m \/ connected[i] = cur THEN 0 ELSE 1)'
      BY <2>1, <2>4, <3>4 DEF Got, GotNext
    <3> QED
      BY <1>2, <2>4, <3>5, <3>6, <3>7 DEF Missed
  <2> QED
    BY <1>1, <1>6, <2>3, <2>5, <2>6, <2>7, <2>8, ServeLeaves, TypePartsNext DEF IInv
<1>9. CASE RecvError
  <2>1. /\ peer' = [peer EXCEPT ![cur] = "broken"]
        /\ cur' = s_list.next[cur] /\ log' = do_log
        /\ UNCHANGED <<inbox, s_list, conn, live, connected, since, relayed, killed>>
    BY <1>9 DEF RecvError, PeerChange, listVars
  <2>2. ServeTypes'
    BY <1>1, <1>2, <1>3, <1>5, <2>1 DEF ServeTypes
  <2>3. PeerTypes' /\ peer'[cur] = "broken" /\ \A q \in Peer \ {cur} : peer'[q] = peer[q]
    BY <1>1, <1>5, <2>1, ServeLeaves DEF PeerTypes
  <2>4. ListPartTypes'
    BY <1>1, <2>1 DEF ListPartTypes
  <2>5. Listed' /\ Relayed' /\ Missed'
    <3>1. Listed'
      <4>1. Listed
        BY DEF IInv
      <4> QED
        BY <2>1, <4>1 DEF Listed, ListIs
    <3>2. Relayed' /\ Missed'
      BY <2>1 DEF IInv, Relayed, Missed
    <3> QED
      BY <3>1, <3>2
  <2>6. Descriptors'
    BY <1>5, <2>1, <2>3 DEF IInv, Descriptors
  <2>7. SetTrue'
    <3>1. ASSUME NEW i \in 1 .. Len(connected), connected[i] = cur',
                 NEW j \in i .. Len(connected), conn[connected[j]].fd \in readfds
          PROVE  Readable(connected[j])'
      <4>1. k # Len(connected) /\ k + 1 \in 1 .. Len(connected) /\ i = k + 1
        BY <1>3, <1>5, <2>1, <3>1
      <4>2. j \in k .. Len(connected) /\ j \in 1 .. Len(connected) /\ j # k
        BY <4>1
      <4>3. connected[j] \in Peer /\ connected[j] # cur
        BY <1>3, <1>5, <4>2
      <4>4. Readable(connected[j])
        BY <1>4, <3>1, <4>2, <4>3 DEF ReadyFrom
      <4> QED
        BY <2>1, <2>3, <4>3, <4>4 DEF Readable
    <3>2. \A i \in 1 .. Len(connected') : connected'[i] = cur' => ReadyFrom(i)'
      BY <1>2, <2>1, <3>1 DEF ReadyFrom
    <3> QED
      BY <1>2, <1>3, <2>1, <3>2 DEF SetTrue
  <2> QED
    BY <1>1, <1>6, <2>2, <2>3, <2>4, <2>5, <2>6, <2>7, ServeLeaves, TypePartsNext DEF IInv
<1>10. CASE EndOfData
  <2>1. Disconnect(cur) /\ cur' = ListRemoved(s_list, cur) /\ log' = log /\ killed' = killed
    BY <1>10 DEF EndOfData
  <2>2. PICK i \in 1 .. Len(connected) :
          /\ connected[i] = cur /\ connected' = Removed(connected, i)
          /\ ListRemoved(s_list, cur) = IF i = Len(connected) THEN NULL ELSE connected[i + 1]
    BY <1>2, <2>1, DisconnectLists
  <2>3. i = k
    BY <1>3, <2>2
  <2>4. /\ Len(connected') = Len(connected) - 1
        /\ \A j \in 1 .. Len(connected) - 1 :
             connected'[j] = IF j < k THEN connected[j] ELSE connected[j + 1]
    BY <1>5, <2>2, <2>3 DEF Removed
  <2>5. cur' = IF k = Len(connected) THEN NULL ELSE connected[k + 1]
    BY <2>1, <2>2, <2>3
  <2>6. cur' \in live' \union {NULL}
    BY <1>3, <1>5, <2>1, <2>5 DEF Disconnect
  <2>7. ServeTypes'
    BY <1>1, <1>2, <1>5, <2>1, <2>6 DEF ServeTypes, Disconnect
  <2>8. conn' = conn /\ \A q \in Peer \ {cur} : peer'[q] = peer[q] /\ inbox'[q] = inbox[q]
    BY <1>1, <2>1 DEF Disconnect, PeerTypes
  <2>9. SetTrue'
    <3>1. ASSUME NEW m \in 1 .. Len(connected'), connected'[m] = cur',
                 NEW j \in m .. Len(connected'), conn[connected'[j]].fd \in readfds,
                 NEW q, q = connected'[j]
          PROVE  Readable(q)'
      <4>1. k # Len(connected) /\ k + 1 \in 1 .. Len(connected) /\ cur' = connected[k + 1]
        <5>1. connected'[m] # NULL
          BY <1>5, <2>4, <3>1
        <5> QED
          BY <1>5, <2>5, <3>1, <5>1
      <4>2. m = k
        BY <1>5, <2>4, <3>1, <4>1
      <4>3. j + 1 \in k .. Len(connected) /\ j + 1 \in 1 .. Len(connected) /\ j + 1 # k
        BY <1>5, <2>4, <3>1, <4>2
      <4>4. connected'[j] = connected[j + 1]
        BY <2>4, <3>1, <4>2
      <4>5. q \in Peer /\ q # cur /\ q = connected[j + 1]
        BY <1>3, <1>5, <3>1, <4>3, <4>4
      <4>6. Readable(q)
        BY <1>4, <3>1, <4>3, <4>4, <4>5 DEF ReadyFrom
      <4> QED
        BY <2>8, <4>5, <4>6 DEF Readable
    <3>2. \A m \in 1 .. Len(connected') : connected'[m] = cur' => ReadyFrom(m)'
      BY <1>2, <2>8, <3>1 DEF ReadyFrom, Readable
    <3> QED
      BY <1>2, <2>6, <3>2 DEF SetTrue
  <2> QED
    BY <1>1, <1>2, <2>1, <2>7, <2>9, DisconnectKeeps
<1> QED
  BY <1>7, <1>8, <1>9, <1>10 DEF ServeRecv

-----------------------------------------------------------------------------
(* The theorems.                                                           *)

LEMMA InitIInv == SimpleInit => IInv
<1> SUFFICES ASSUME SimpleInit PROVE IInv
  OBVIOUS
<1> USE DEF SimpleInit
<1>1. PeerTypes
  BY SimpleAssumption DEF PeerTypes, CmdInit, Peer
<1>2. ListPartTypes
  BY DEF ListPartTypes, EmptyList, IwList, Link, Peer
<1>3. ServeTypes /\ MainTypes
  BY DEF ServeTypes, MainTypes, Link
<1>4. ReaderTypes
  BY DEF ReaderTypes, Link
<1>5. SimpleTypeOK
  BY <1>1, <1>2, <1>3, <1>4 DEF SimpleTypeOK, PeerTypes, ListPartTypes, ServeTypes, MainTypes, ReaderTypes
<1>6. Listed
  BY DEF Listed, ListIs, EmptyList, Peer
<1>7. Descriptors /\ SetKnown /\ SetTrue /\ Begun /\ Relayed /\ Missed
  BY DEF Descriptors, SetKnown, SetTrue, Begun, Relayed, Missed
<1> QED
  BY <1>5, <1>6, <1>7 DEF IInv

LEMMA StepIInv == IInv /\ [SimpleNext]_simpleVars => IInv'
<1> SUFFICES ASSUME IInv, [SimpleNext]_simpleVars PROVE IInv'
  OBVIOUS
<1>1. CASE SimpleNext
  <2>1. CASE ServeStep
    BY <2>1, ServeLeaves, WalkingKeeps, AcceptKeeps, RecvKeeps, CloseKeeps DEF ServeStep
  <2> QED
    BY <1>1, <2>1, MainKeeps, PeersKeep, CommandsKeep, ReadersKeep DEF SimpleNext
<1>2. CASE UNCHANGED simpleVars
  <2>1. /\ UNCHANGED <<peer, inbox, budget, mainpc, s_mutex, owner, s_list, conn, live, readfds>>
        /\ UNCHANGED <<spc, cur, killed, log, do_log, rpc, rcur, shown, answer, connected>>
        /\ UNCHANGED <<relayed, since, s_keep_going, signalled>>
    BY <1>2 DEF simpleVars, peerVars, listVars, serveVars, readerVars
  <2>2. SimpleTypeOK'
    <3>1. PeerTypes /\ ListPartTypes /\ ServeTypes /\ ReaderTypes /\ MainTypes
      BY TypeParts DEF IInv
    <3>2. PeerTypes' /\ ListPartTypes'
      <4>1. PeerTypes'
        BY <2>1, <3>1 DEF PeerTypes
      <4>2. ListPartTypes'
        BY <2>1, <3>1 DEF ListPartTypes
      <4> QED
        BY <4>1, <4>2
    <3>3. ServeTypes'
      BY <2>1, <3>1 DEF ServeTypes
    <3>4. ReaderTypes' /\ MainTypes'
      <4>1. ReaderTypes'
        BY <2>1, <3>1 DEF ReaderTypes
      <4>2. MainTypes'
        BY <2>1, <3>1 DEF MainTypes
      <4> QED
        BY <4>1, <4>2
    <3> QED
      BY <3>2, <3>3, <3>4, TypePartsNext
  <2>3. Quiet
    BY <2>1 DEF Quiet
  <2> QED
    BY <2>1, <2>2, <2>3, QuietKeeps DEF IInv, Begun
<1> QED
  BY <1>1, <1>2

(* The invariant that all others follow from.                              *)
THEOREM SimpleInductive == SimpleSpec => []IInv
BY InitIInv, StepIInv, PTL DEF SimpleSpec

(* The state of main.c has its types, with any peers, descriptors and      *)
(* scripts of commands.                                                    *)
THEOREM SimpleTypes == SimpleSpec => []SimpleTypeOK
<1>1. IInv => SimpleTypeOK
  BY DEF IInv
<1> QED
  BY <1>1, SimpleInductive, PTL

(* serve_data, which has s_mutex, never waits in recv for a peer.          *)
THEOREM ServeNeverBlocks == SimpleSpec => []RecvDoesNotBlock
<1>1. IInv => RecvDoesNotBlock
  <2> SUFFICES ASSUME IInv, spc = "recv", ~killed PROVE cur \in live /\ Readable(cur)
    BY DEF RecvDoesNotBlock, IInv, Missed
  <2>1. cur \in live /\ conn[cur].fd \in readfds
    BY DEF IInv, SetTrue
  <2>2. PICK k \in 1 .. Len(connected) : connected[k] = cur
    BY <2>1 DEF IInv, Listed
  <2>3. ReadyFrom(k)
    BY <2>2 DEF IInv, SetTrue
  <2>4. k \in k .. Len(connected)
    BY <2>2
  <2> QED
    BY <2>1, <2>2, <2>3, <2>4 DEF ReadyFrom
<1> QED
  BY <1>1, SimpleInductive, PTL

(* What a peer sends gets once to every other connection that is open, or  *)
(* the program is killed by SIGPIPE at one whose peer has closed or broken *)
(* it, and exactly those from there on miss this last message: with any    *)
(* peers, in any order, and any descriptors.                               *)
THEOREM EveryoneGetsIt == SimpleSpec => []RelayedToAllOthers
<1>1. IInv => RelayedToAllOthers
  <2> SUFFICES ASSUME IInv PROVE RelayedToAllOthers
    OBVIOUS
  <2>1. CASE ~killed
    <3>1. ASSUME NEW p \in live PROVE Got(p, 0)
      <4>1. conn[p].rx \in Nat /\ conn[p].tx \in Nat
        BY DEF IInv, SimpleTypeOK
      <4>2. conn[p].rx + conn[p].tx = relayed - since[p]
        BY <2>1 DEF IInv, Relayed
      <4> QED
        BY <4>1, <4>2 DEF Got
    <3> QED
      BY <2>1, <3>1 DEF RelayedToAllOthers
  <2>2. CASE killed
    BY <2>2 DEF IInv, Missed, RelayedToAllOthers
  <2> QED
    BY <2>1, <2>2
<1> QED
  BY <1>1, SimpleInductive, PTL

(* The links of s_list are always those of the open connections, in the    *)
(* order of their accept.                                                  *)
THEOREM ListOfConnections == SimpleSpec => []ListIs(s_list, connected)
<1>1. IInv => ListIs(s_list, connected)
  BY DEF IInv, Listed
<1> QED
  BY <1>1, SimpleInductive, PTL

-----------------------------------------------------------------------------
(* The refinement: the example implements ConnSpec, if no command and no   *)
(* page comes before main_callback has created s_mutex.  A connection is   *)
(* only taken off the list by the thread that has the mutex, so that what  *)
(* a reader has shown is the list up to where it is.                       *)

\* Who is inside of a walk has the mutex, and a command that walks runs.
Locks ==
  /\ mainpc \in {"socket", "running"} => s_mutex
  /\ cmdpc # "accept" => mainpc = "running"
  /\ \A r \in Reader : rpc[r] # "idle" => owner = r /\ mainpc = "running"
  /\ rpc[CmdThread] # "idle" => Running("list_conn_cmd") \/ Running("log_client")
  /\ spc \in {"walk", "recv", "set", "close"} => owner = Serve

\* A reader that shows is at a connection, and has shown those before it.
Shows(r) ==
  \E k \in 1 .. Len(connected) :
    /\ connected[k] = rcur[r] /\ Len(shown[r]) = k - 1
    /\ \A i \in 1 .. k - 1 : shown[r][i] = connected[i]

Shown == \A r \in Reader : rpc[r] = "walk" /\ ~ForLogClient(r) => Shows(r)

CInv == IInv /\ Locks /\ Shown

\* A step of ConnSpec, or none.
ConnStep == Connections!Next \/ UNCHANGED <<connected, answer>>

(* main_callback and the peers.                                            *)
LEMMA MainConn ==
  ASSUME CInv, MainStep \/ \E p \in Peer : PeerStep(p)
  PROVE  Locks' /\ Shown' /\ ConnStep
<1>1. /\ UNCHANGED <<owner, connected, rpc, rcur, shown, answer, cmdpc, info>>
      /\ mainpc = "running" => UNCHANGED <<mainpc, tree, s_mutex, spc>>
  BY DEF MainStep, MainGoto, PeerStep, listVars, readerVars, cmdVars, serveVars
<1>2. /\ \A r \in Reader : rpc[r] # "idle" => mainpc = "running"
      /\ cmdpc # "accept" => mainpc = "running"
      /\ CmdThread \in Reader
  BY DEF CInv, Locks, Reader
<1>3. /\ mainpc' \in {"socket", "running"} => s_mutex'
      /\ spc' \in {"walk", "recv", "set", "close"} => spc = spc'
  BY DEF CInv, Locks, MainStep, MainGoto, PeerStep, serveVars
<1>4. Locks'
  BY <1>1, <1>2, <1>3 DEF CInv, Locks, Running, Command
<1>5. ASSUME NEW r \in Reader, rpc'[r] = "walk", ~ForLogClient(r)'
      PROVE  Shows(r)'
  <2>1. rpc[r] = "walk" /\ ~ForLogClient(r)
    BY <1>1, <1>2, <1>5 DEF ForLogClient, Running, Command
  <2> QED
    BY <1>1, <2>1 DEF CInv, Shown, Shows
<1> QED
  BY <1>1, <1>4, <1>5 DEF Shown, ConnStep

(* serve_data: an accept appends, and only the thread that has the mutex   *)
(* takes a connection off the list.                                        *)
LEMMA ServeConn ==
  ASSUME CInv, ServeStep
  PROVE  Locks' /\ Shown' /\ ConnStep
<1>1. /\ UNCHANGED <<mainpc, s_mutex, rpc, rcur, shown, answer, cmdpc, info, tree>>
      /\ spc' \in {"walk", "recv", "set", "close"} => owner' = Serve
      /\ owner' = owner \/ owner = NoThread \/ owner = Serve
      /\ \/ connected' = connected
         \/ spc \in {"recv", "close"} /\ cur \in Peer /\ Disconnect(cur)
         \/ \E p \in Peer, fd \in FreeFds : Connects(p, fd)
  <2> USE DEF NotServe, NotRecv, readerVars, cmdVars, listVars, ServeGoto, ServeLock, ServeUnlock
  <2>1. cur \in live \union {NULL} \/ spc \notin {"walk", "recv", "set", "close"}
    BY DEF CInv, IInv, SetTrue
  <2>2. live \subseteq Peer /\ (spc = "recv" => cur \in Peer)
    BY DEF CInv, IInv, SimpleTypeOK
  <2>3. spc \in {"walk", "recv", "set", "close"} => owner = Serve
    BY DEF CInv, Locks
  <2>4. CASE ServeTest \/ ServeSelect \/ ServeSignal \/ ServeWalkBegin
    BY <2>3, <2>4 DEF ServeTest, ServeSelect, ServeSignal, ServeWalkBegin
  <2>5. CASE ServeWalk
    BY <2>3, <2>5 DEF ServeWalk
  <2>6. CASE ServeWalkEnd \/ ServeSetBegin \/ ServeExit
    BY <2>3, <2>6 DEF ServeWalkEnd, ServeSetBegin, ServeExit
  <2>7. CASE ServeSet
    BY <2>3, <2>7 DEF ServeSet
  <2>8. CASE ServeAccept
    BY <2>8 DEF ServeAccept, Connects
  <2>9. CASE ServeRecv
    BY <2>2, <2>3, <2>9 DEF ServeRecv, Relay, RelayKilled, RelayTo, RecvError, EndOfData
  <2>10. CASE ServeClose
    BY <2>1, <2>2, <2>3, <2>10 DEF ServeClose
  <2> QED
    BY <2>4, <2>5, <2>6, <2>7, <2>8, <2>9, <2>10 DEF ServeStep
<1>2. \A r \in Reader : rpc[r] # "idle" => owner = r /\ r # Serve /\ r # NoThread
  BY SimpleAssumption DEF CInv, Locks, Thread
<1>3. \A r \in Reader : rpc[r] # "idle" => owner' = owner
  BY <1>1, <1>2
<1>4. Locks'
  <2>1. \A r \in Reader : rpc'[r] # "idle" => owner' = r /\ mainpc' = "running"
    BY <1>1, <1>3 DEF CInv, Locks
  <2>2. rpc'[CmdThread] # "idle" => Running("list_conn_cmd")' \/ Running("log_client")'
    BY <1>1 DEF CInv, Locks, Running, Command
  <2> QED
    BY <1>1, <2>1, <2>2 DEF CInv, Locks
<1>5. CASE connected' = connected
  <2>1. ASSUME NEW r \in Reader, rpc'[r] = "walk", ~ForLogClient(r)'
        PROVE  Shows(r)'
    <3>1. rpc[r] = "walk" /\ ~ForLogClient(r)
      BY <1>1, <2>1 DEF ForLogClient, Running, Command
    <3> QED
      BY <1>1, <1>5, <3>1 DEF CInv, Shown, Shows
  <2>2. Shown'
    BY <2>1 DEF Shown
  <2>3. ConnStep
    BY <1>1, <1>5 DEF ConnStep
  <2> QED
    BY <1>4, <2>2, <2>3
<1>6. CASE spc \in {"recv", "close"} /\ cur \in Peer /\ Disconnect(cur)
  <2>1. owner = Serve /\ cur \in live
    <3>1. cur \in live \union {NULL} /\ NULL \notin Peer
      BY <1>6, ListAssumption DEF CInv, IInv, SetTrue, Peer
    <3> QED
      BY <1>6, <3>1 DEF CInv, Locks
  <2>2. Shown'
    BY <1>1, <1>2, <2>1 DEF Shown
  <2>3. PICK k \in 1 .. Len(connected) :
          connected[k] = cur /\ connected' = Removed(connected, k)
    BY <1>6, <2>1, DisconnectLists DEF CInv
  <2>4. Connections!Close(cur)
    BY <1>1, <2>3 DEF Connections!Close, Connections!Place, Removed
  <2> QED
    BY <1>4, <1>6, <2>2, <2>4 DEF ConnStep, Connections!Next
<1>7. ASSUME NEW p \in Peer, NEW fd \in FreeFds, Connects(p, fd)
      PROVE  Shown' /\ ConnStep
  <2>1. connected' = Append(connected, p) /\ connected \in Seq(Peer)
    BY <1>7 DEF Connects, CInv, IInv, SimpleTypeOK
  <2>2. /\ Len(connected') = Len(connected) + 1
        /\ \A i \in 1 .. Len(connected) : connected'[i] = connected[i]
    BY <2>1
  <2>3. ASSUME NEW r \in Reader, rpc'[r] = "walk", ~ForLogClient(r)'
        PROVE  Shows(r)'
    <3>1. Shows(r)
      BY <1>1, <2>3 DEF CInv, Shown, ForLogClient, Running, Command
    <3>2. PICK k \in 1 .. Len(connected) :
            /\ connected[k] = rcur[r] /\ Len(shown[r]) = k - 1
            /\ \A i \in 1 .. k - 1 : shown[r][i] = connected[i]
      BY <3>1 DEF Shows
    <3>3. k \in 1 .. Len(connected') /\ \A i \in 1 .. k : i \in 1 .. Len(connected)
      BY <2>1, <2>2
    <3> QED
      BY <1>1, <2>2, <3>2, <3>3 DEF Shows
  <2>4. \A k \in 1 .. Len(connected) : connected[k] # p
    BY <1>7, ConnectsLists DEF CInv, IInv, Listed
  <2>5. Connections!Accept(p)
    BY <1>1, <2>1, <2>4 DEF Connections!Accept, Connections!Place
  <2> QED
    BY <2>3, <2>5 DEF Shown, ConnStep, Connections!Next
<1> QED
  BY <1>1, <1>4, <1>5, <1>6, <1>7

(* The command server thread.                                              *)
LEMMA CommandConn ==
  ASSUME CInv, CmdStep, ~EarlyCommands
  PROVE  Locks' /\ Shown' /\ ConnStep
<1> USE DEF NotCmd, listVars, readerVars, serveVars
<1>1. UNCHANGED <<mainpc, s_mutex, owner, spc, rpc, rcur, shown, answer, connected, tree>>
  BY DEF CmdStep, CmdReceive, CmdSimple, CmdQuit, CmdQuitDone
<1>2. CmdThread \in Reader
  BY DEF Reader
<1>3. rpc[CmdThread] # "idle" => UNCHANGED <<cmdpc, info>>
  <2> SUFFICES ASSUME rpc[CmdThread] # "idle" PROVE UNCHANGED <<cmdpc, info>>
    OBVIOUS
  <2>1. cmdpc = "run" /\ Command.fn \in {"list_conn_cmd", "log_client"}
    BY DEF CInv, Locks, Running
  <2> QED
    BY <2>1 DEF CmdStep, CmdReceive, CmdAccept, CmdRecv, CmdGiveUp, CmdSimple,
                CmdQuit, CmdQuitDone, Running
<1>4. cmdpc' # "accept" => mainpc = "running"
  <2>1. CASE cmdpc = "accept"
    BY <2>1 DEF CmdStep, CmdReceive, CmdAccept, CmdRecv, CmdGiveUp, CmdSimple,
                CmdQuit, CmdQuitDone, Running, Started, CmdReply
  <2>2. CASE cmdpc # "accept"
    BY <2>2 DEF CInv, Locks
  <2> QED
    BY <2>1, <2>2
<1>5. Locks'
  BY <1>1, <1>2, <1>3, <1>4 DEF CInv, Locks, Running, Command
<1>6. ASSUME NEW r \in Reader, rpc'[r] = "walk", ~ForLogClient(r)'
      PROVE  Shows(r)'
  <2>1. ~ForLogClient(r)
    BY <1>1, <1>3, <1>6 DEF ForLogClient, Running, Command
  <2> QED
    BY <1>1, <1>6, <2>1 DEF CInv, Shown, Shows
<1> QED
  BY <1>1, <1>5, <1>6 DEF Shown, ConnStep

(* The readers: what is shown when the walk has come to the end is the     *)
(* whole list.                                                             *)
LEMMA ReadersConn ==
  ASSUME CInv, (\E r \in Reader : ReadStep(r)) \/ LogClientStep, ~EarlyCommands
  PROVE  Locks' /\ Shown' /\ ConnStep
<1>1. UNCHANGED <<mainpc, s_mutex, s_list, connected, tree, spc>>
  BY DEF ReadStep, ReadBegin, ShowStep, ReadEnd, LogClientStep, NotReader, serveVars
<1>2. ReaderTypes /\ CmdThread \in Reader /\ connected \in Seq(Peer) /\ NULL \notin Peer
  BY TypeParts, ListAssumption DEF CInv, IInv, SimpleTypeOK, Reader, Peer
<1>3. ASSUME NEW r \in Reader, NEW s \in Reader, rpc[r] # "idle" \/ owner = NoThread, s # r
      PROVE  rpc[s] = "idle"
  BY <1>3, SimpleAssumption DEF CInv, Locks, Thread
<1>4. ASSUME NEW r \in Reader, ReadBegin(r)
      PROVE  Locks' /\ Shown' /\ ConnStep
  <2>1. /\ rpc[r] = "idle" /\ Wanted(r) /\ UNCHANGED <<cmdpc, info>>
        /\ rcur' = [rcur EXCEPT ![r] = s_list.head]
        /\ shown' = [shown EXCEPT ![r] = << >>]
        /\ rpc' = [rpc EXCEPT ![r] = IF s_list.head = NULL THEN "unlock" ELSE "walk"]
        /\ answer' = IF s_list.head = NULL /\ ~ForLogClient(r)
                     THEN [answer EXCEPT ![r] = << >>] ELSE answer
    BY <1>4 DEF ReadBegin, cmdVars
  <2>2. mainpc = "running" /\ s_mutex
    BY <2>1, <1>4 DEF Wanted, Started, Running, CInv, Locks
  <2>3. owner = NoThread /\ owner' = r
    BY <1>4, <2>2 DEF ReadBegin
  <2>4. \A s \in Reader : s # r => rpc[s] = "idle" /\ rpc'[s] = "idle"
    BY <1>2, <1>3, <2>1, <2>3 DEF ReaderTypes
  <2>5. r = CmdThread => Running("list_conn_cmd") \/ Running("log_client")
    BY <2>1, SimpleAssumption DEF Wanted
  <2>6. Locks'
    <3>1. spc \notin {"walk", "recv", "set", "close"}
      BY <2>3, SimpleAssumption DEF CInv, Locks, Thread
    <3>2. rpc'[CmdThread] # "idle" => r = CmdThread
      BY <1>2, <2>4
    <3> QED
      BY <1>1, <2>1, <2>2, <2>3, <2>4, <2>5, <3>1, <3>2 DEF Locks, Running, Command
  <2>7. s_list.head = IF connected = << >> THEN NULL ELSE connected[1]
    BY DEF CInv, IInv, Listed, ListIs
  <2>8. Shown'
    <3>1. ASSUME NEW s \in Reader, rpc'[s] = "walk"
          PROVE  Shows(s)'
      <4>1. s = r /\ s_list.head # NULL
        BY <1>2, <2>1, <2>4, <3>1 DEF ReaderTypes
      <4>2. connected # << >> /\ 1 \in 1 .. Len(connected) /\ connected[1] = s_list.head
        BY <1>2, <2>7, <4>1
      <4>3. rcur'[r] = s_list.head /\ shown'[r] = << >>
        BY <1>2, <2>1 DEF ReaderTypes
      <4> QED
        BY <1>1, <4>1, <4>2, <4>3 DEF Shows
    <3> QED
      BY <3>1 DEF Shown
  <2>9. ConnStep
    <3>1. CASE s_list.head = NULL /\ ~ForLogClient(r)
      <4>1. connected = << >>
        <5>1. connected # << >> => connected[1] \in Peer
          BY <1>2
        <5> QED
          BY <1>2, <2>7, <3>1, <5>1
      <4>2. Connections!Show(r)
        BY <1>1, <2>1, <3>1, <4>1 DEF Connections!Show
      <4> QED
        BY <4>2 DEF ConnStep, Connections!Next
    <3>2. CASE ~(s_list.head = NULL /\ ~ForLogClient(r))
      BY <1>1, <2>1, <3>2 DEF ConnStep
    <3> QED
      BY <3>1, <3>2
  <2> QED
    BY <2>6, <2>8, <2>9
<1>5. ASSUME NEW r \in Reader, ShowStep(r)
      PROVE  Locks' /\ Shown' /\ ConnStep
  <2> DEFINE next == s_list.next[rcur[r]]
  <2>1. /\ rpc[r] = "walk" /\ ~ForLogClient(r) /\ UNCHANGED <<cmdpc, info, owner>>
        /\ rcur' = [rcur EXCEPT ![r] = next]
        /\ shown' = [shown EXCEPT ![r] = Append(@, rcur[r])]
        /\ IF next = NULL
           THEN /\ rpc' = [rpc EXCEPT ![r] = "unlock"]
                /\ answer' = [answer EXCEPT ![r] = shown'[r]]
           ELSE UNCHANGED <<rpc, answer>>
    BY <1>5 DEF ShowStep, cmdVars
  <2>2. \A s \in Reader : s # r => rpc[s] = "idle"
    BY <1>3, <2>1
  <2>3. \A s \in Reader : rpc'[s] # "idle" => rpc[s] # "idle"
    BY <1>2, <2>1 DEF ReaderTypes
  <2>4. Locks'
    BY <1>1, <1>2, <2>1, <2>3 DEF CInv, Locks, Running, Command
  <2>5. PICK k \in 1 .. Len(connected) :
          /\ connected[k] = rcur[r] /\ Len(shown[r]) = k - 1
          /\ \A i \in 1 .. k - 1 : shown[r][i] = connected[i]
    BY <2>1 DEF CInv, Shown, Shows
  <2>6. next = IF k = Len(connected) THEN NULL ELSE connected[k + 1]
    BY <2>5 DEF CInv, IInv, Listed, ListIs
  <2>7. /\ shown[r] \in Seq(Peer) /\ rcur[r] \in Peer
        /\ shown'[r] = Append(shown[r], rcur[r]) /\ rcur'[r] = next
    BY <1>2, <2>1, <2>5 DEF ReaderTypes
  <2>8. /\ shown'[r] \in Seq(Peer) /\ Len(shown'[r]) = k
        /\ \A i \in 1 .. k : shown'[r][i] = connected[i]
    BY <2>5, <2>7
  <2> HIDE DEF next
  <2>9. CASE next = NULL
    <3>1. k = Len(connected)
      BY <1>2, <2>5, <2>6, <2>9
    <3>2. shown'[r] = connected
      BY <1>2, <2>8, <3>1, SeqEqual
    <3>3. Connections!Show(r)
      BY <1>1, <2>1, <2>9, <3>2 DEF Connections!Show
    <3>4. \A s \in Reader : rpc'[s] # "walk"
      BY <1>2, <2>1, <2>2, <2>9 DEF ReaderTypes
    <3> QED
      BY <2>4, <3>3, <3>4 DEF Shown, ConnStep, Connections!Next
  <2>10. CASE next # NULL
    <3>1. k + 1 \in 1 .. Len(connected) /\ connected[k + 1] = next
      BY <2>6, <2>10, <1>2
    <3>2. Shows(r)'
      BY <1>1, <2>7, <2>8, <3>1 DEF Shows
    <3>3. Shown'
      BY <2>1, <2>2, <2>10, <3>2 DEF Shown
    <3> QED
      BY <1>1, <2>1, <2>4, <2>10, <3>3 DEF ConnStep
  <2> QED
    BY <2>9, <2>10
<1>6. ASSUME NEW r \in Reader, ReadEnd(r)
      PROVE  Locks' /\ Shown' /\ ConnStep
  <2>1. /\ rpc[r] = "unlock" /\ rpc' = [rpc EXCEPT ![r] = "idle"] /\ answer' = answer
        /\ owner' = NoThread \/ owner' = owner
        /\ r # CmdThread => UNCHANGED <<cmdpc, info>>
        /\ r = CmdThread => cmdpc' = "accept"
    BY <1>6 DEF ReadEnd, cmdVars, CmdReply, CmdClose
  <2>2. \A s \in Reader : rpc'[s] = "idle"
    BY <1>2, <1>3, <2>1 DEF ReaderTypes
  <2>3. spc \notin {"walk", "recv", "set", "close"}
    BY <2>1, SimpleAssumption DEF CInv, Locks
  <2>4. Locks'
    BY <1>1, <1>2, <2>1, <2>2, <2>3 DEF CInv, Locks
  <2> QED
    BY <1>1, <2>1, <2>2, <2>4 DEF Shown, ConnStep
<1>7. ASSUME LogClientStep
      PROVE  Locks' /\ Shown' /\ ConnStep
  <2>1. /\ rpc[CmdThread] = "walk" /\ ForLogClient(CmdThread)
        /\ UNCHANGED <<cmdpc, info, owner, answer>>
        /\ \A s \in Reader : rpc'[s] # "idle" => rpc[s] # "idle"
    BY <1>2, <1>7 DEF LogClientStep, ReaderTypes, cmdVars
  <2>2. Locks'
    BY <1>1, <1>2, <2>1 DEF CInv, Locks, Running, Command
  <2>3. ForLogClient(CmdThread)'
    BY <1>1, <2>1 DEF ForLogClient, Running, Command
  <2>4. \A s \in Reader : s # CmdThread => rpc'[s] = "idle"
    BY <1>2, <1>3, <2>1
  <2> QED
    BY <1>1, <2>1, <2>2, <2>3, <2>4 DEF Shown, ConnStep
<1> QED
  BY <1>4, <1>5, <1>6, <1>7 DEF ReadStep

-----------------------------------------------------------------------------
LEMMA InitConn == SimpleInit => CInv /\ Connections!Init
<1> SUFFICES ASSUME SimpleInit PROVE CInv /\ Connections!Init
  OBVIOUS
<1>1. Locks /\ Shown
  BY DEF SimpleInit, CmdInit, Locks, Shown, Reader
<1>2. Connections!Init
  BY DEF SimpleInit, Connections!Init
<1> QED
  BY <1>1, <1>2, InitIInv DEF CInv

LEMMA StepConn ==
  ASSUME ~EarlyCommands, CInv, [SimpleNext]_simpleVars
  PROVE  CInv' /\ ConnStep
<1>1. IInv'
  BY StepIInv DEF CInv
<1>2. CASE SimpleNext
  BY <1>1, <1>2, MainConn, ServeConn, CommandConn, ReadersConn DEF SimpleNext, CInv
<1>3. CASE UNCHANGED simpleVars
  <2>1. /\ UNCHANGED <<mainpc, s_mutex, owner, spc, rpc, rcur, shown, answer, connected, tree>>
        /\ UNCHANGED <<cmdpc, info>>
    BY <1>3 DEF simpleVars, listVars, serveVars, readerVars, cmdVars
  <2>2. Locks' /\ Shown'
    BY <2>1 DEF CInv, Locks, Shown, Shows, ForLogClient, Running, Command
  <2> QED
    BY <1>1, <2>1, <2>2 DEF CInv, ConnStep
<1> QED
  BY <1>2, <1>3

(* With any peers, descriptors and scripts of commands, the list is the    *)
(* open connections in their order, and what the command "connections" and *)
(* the page show was open at one moment.                                   *)
THEOREM ServerImplements ==
  ASSUME ~EarlyCommands
  PROVE  SimpleSpec => ImplementsConnections
<1>1. SimpleInit => CInv /\ Connections!Init
  BY InitConn
<1>2. CInv /\ [SimpleNext]_simpleVars => CInv' /\ [Connections!Next]_<<connected, answer>>
  BY StepConn DEF ConnStep
<1> QED
  BY <1>1, <1>2, PTL DEF SimpleSpec, ImplementsConnections, Connections!Spec

-----------------------------------------------------------------------------
(* The commands.  Where the line ends does not depend on what has come     *)
(* after it, nor on how much of what follows has come already.             *)

Ends(text) == {i \in 1 .. Len(text) - 1 : text[i] = CR /\ text[i + 1] = LF}

(* strstr in iw_cmd_srv_parse_request finds the first end of a line.       *)
LEMMA EndIsFirst ==
  ASSUME NEW S, NEW text \in Seq(S)
  PROVE  IF Ends(text) = {} THEN EndOfLine(text) = 0
         ELSE EndOfLine(text) \in Ends(text) /\ \A j \in Ends(text) : EndOfLine(text) <= j
<1>1. CASE Ends(text) = {}
  BY <1>1 DEF EndOfLine, Ends
<1>2. CASE Ends(text) # {}
  <2>1. Ends(text) \in SUBSET Nat
    BY DEF Ends
  <2>2. \E i \in Ends(text) : \A j \in Ends(text) : i <= j
    BY <1>2, <2>1, Least
  <2>3. EndOfLine(text) = CHOOSE i \in Ends(text) : \A j \in Ends(text) : i <= j
    BY <1>2 DEF EndOfLine, Ends
  <2> QED
    BY <1>2, <2>2, <2>3
<1> QED
  BY <1>1, <1>2

(* What has come so far tells the end of the line, if that is in it.       *)
LEMMA EndOfPiece ==
  ASSUME NEW S, NEW piece \in Seq(S), NEW rest \in Seq(S)
  PROVE  /\ EndOfLine(piece) # 0 => /\ EndOfLine(piece) \in 1 .. Len(piece) - 1
                                    /\ EndOfLine(piece \o rest) = EndOfLine(piece)
         /\ EndOfLine(piece) = 0 => \/ EndOfLine(piece \o rest) = 0
                                    \/ EndOfLine(piece \o rest) >= Len(piece)
<1> DEFINE text == piece \o rest
<1>1. /\ text \in Seq(S) /\ Len(text) = Len(piece) + Len(rest)
      /\ Len(piece) \in Nat /\ Len(rest) \in Nat
      /\ \A i \in 1 .. Len(piece) : text[i] = piece[i]
  OBVIOUS
<1> HIDE DEF text
<1>2. Ends(piece) \subseteq Ends(text) /\ Ends(text) \subseteq 1 .. Len(text) - 1
  BY <1>1 DEF Ends
<1>3. \A i \in Ends(text) : i < Len(piece) => i \in Ends(piece)
  BY <1>1 DEF Ends
<1>4. Ends(piece) \subseteq 1 .. Len(piece) - 1
  BY DEF Ends
<1>5. IF Ends(piece) = {} THEN EndOfLine(piece) = 0
      ELSE EndOfLine(piece) \in Ends(piece) /\ \A j \in Ends(piece) : EndOfLine(piece) <= j
  BY EndIsFirst
<1>6. IF Ends(text) = {} THEN EndOfLine(text) = 0
      ELSE EndOfLine(text) \in Ends(text) /\ \A j \in Ends(text) : EndOfLine(text) <= j
  BY <1>1, EndIsFirst
<1>7. CASE Ends(piece) = {}
  <2>1. EndOfLine(text) = 0 \/ EndOfLine(text) >= Len(piece)
    BY <1>1, <1>2, <1>3, <1>6, <1>7
  <2> QED
    BY <1>5, <1>7, <2>1 DEF text
<1>8. CASE Ends(piece) # {}
  <2>1. /\ EndOfLine(piece) \in 1 .. Len(piece) - 1 /\ EndOfLine(piece) \in Ends(text)
        /\ \A j \in Ends(piece) : EndOfLine(piece) <= j
    BY <1>2, <1>4, <1>5, <1>8
  <2>2. /\ EndOfLine(text) \in 1 .. Len(text) - 1 /\ EndOfLine(text) \in Ends(text)
        /\ EndOfLine(text) <= EndOfLine(piece)
    BY <1>2, <1>6, <2>1
  <2>3. EndOfLine(text) \in Ends(piece)
    BY <1>1, <1>3, <2>1, <2>2
  <2>4. EndOfLine(text) = EndOfLine(piece)
    BY <1>1, <2>1, <2>2, <2>3
  <2> QED
    BY <1>1, <2>1, <2>4 DEF text
<1> QED
  BY <1>7, <1>8

\* The tree after each step of main_callback.
TreeIs ==
  LET built == TreeWith(EmptyTree, BuiltIn(TRUE))
  IN  /\ mainpc = "connections" => tree = built
      /\ mainpc = "log client" => tree = CmdAdd(built, ROOT, "connections", "list_conn_cmd")
      /\ mainpc \in {"mutex", "socket", "running"} => tree = FullTree

Answers == {AsSent(script[i]) : i \in 1 .. Len(script)}

\* What has come is the beginning of what the client has sent.
Received ==
  /\ script \in Scripts
  /\ buff \in Seq(Symbol) /\ line \in Seq(Symbol)
  /\ served \in Seq(Answers)
  /\ cmdpc \in {"accept", "recv", "run"}
  /\ cmdpc = "accept" => buff = << >>
  /\ cmdpc # "accept" => /\ Len(served) < Len(script)
                         /\ CurrentClient.text = buff \o line
                         /\ Len(buff) <= BuffSize
  /\ cmdpc = "recv" => EndOfLine(buff) = 0
  /\ cmdpc = "run" => /\ EndOfLine(buff) # 0
                      /\ info = Words(SubSeq(buff, 1, EndOfLine(buff) - 1))

Sent == TreeIs /\ Received /\ CommandsAsSent

LEMMA ScriptTypes ==
  ASSUME Received
  PROVE  /\ script \in Seq([text : Seq(Symbol), leaves : BOOLEAN])
         /\ cmdpc # "accept" => CurrentClient \in [text : Seq(Symbol), leaves : BOOLEAN]
<1>1. script \in Seq([text : Seq(Symbol), leaves : BOOLEAN])
  BY CmdSrvAssumption DEF Received
<1>2. cmdpc # "accept" => Len(served) + 1 \in 1 .. Len(script)
  BY <1>1 DEF Received
<1>3. cmdpc # "accept" => script[Len(served) + 1] \in [text : Seq(Symbol), leaves : BOOLEAN]
  BY <1>1, <1>2, ElementOfSeq
<1> QED
  BY <1>1, <1>3 DEF CurrentClient

(* The call for a line is the one that was sent.                           *)
LEMMA RunAsSent ==
  ASSUME CInv, Sent, cmdpc = "run"
  PROVE  Command = AsSent(CurrentClient)
<1>1. tree = FullTree
  BY DEF CInv, Locks, Sent, TreeIs
<1>2. /\ buff \in Seq(Symbol) /\ line \in Seq(Symbol) /\ CurrentClient.text = buff \o line
      /\ EndOfLine(buff) # 0 /\ info = Words(SubSeq(buff, 1, EndOfLine(buff) - 1))
      /\ Len(buff) <= BuffSize
  BY DEF Sent, Received
<1> DEFINE end == EndOfLine(buff)
<1>3. end \in 1 .. Len(buff) - 1 /\ EndOfLine(buff \o line) = end
  BY <1>2, EndOfPiece
<1>4. end # 0 /\ end < BuffSize
  BY <1>2, <1>3, CmdSrvAssumption
<1> HIDE DEF end
<1>5. SubSeq(buff \o line, 1, end - 1) = SubSeq(buff, 1, end - 1)
  <2>1. end - 1 \in 0 .. Len(buff) /\ Len(buff \o line) = Len(buff) + Len(line)
    BY <1>2, <1>3
  <2>2. /\ SubSeq(buff, 1, end - 1) = [i \in 1 .. end - 1 |-> buff[i]]
        /\ SubSeq(buff \o line, 1, end - 1) = [i \in 1 .. end - 1 |-> (buff \o line)[i]]
    BY <1>2, <2>1
  <2>3. \A i \in 1 .. end - 1 : (buff \o line)[i] = buff[i]
    BY <1>2, <2>1
  <2> QED
    BY <2>2, <2>3
<1>6. AsSent(CurrentClient) = CmdsProcess(FullTree, Words(SubSeq(buff \o line, 1, end - 1)))
  BY <1>2, <1>3, <1>4 DEF AsSent
<1> QED
  BY <1>1, <1>2, <1>5, <1>6 DEF Command, end

(* A connection that is closed without an answer should get none.          *)
LEMMA GiveUpAsSent ==
  ASSUME Sent, CmdGiveUp
  PROVE  Unanswered = AsSent(CurrentClient)
<1>1. /\ buff \in Seq(Symbol) /\ line \in Seq(Symbol) /\ CurrentClient.text = buff \o line
      /\ EndOfLine(buff) = 0 /\ Len(buff) <= BuffSize
      /\ BuffSize - Len(buff) = 0 \/ line = << >>
  BY DEF Sent, Received, CmdGiveUp, Remainder
<1> DEFINE end == EndOfLine(buff \o line)
<1>2. end = 0 \/ end >= Len(buff)
  BY <1>1, EndOfPiece
<1>3. line = << >> => buff \o line = buff
  BY <1>1
<1>4. ~(end # 0 /\ end < BuffSize)
  <2>1. CASE line = << >>
    BY <1>1, <1>3, <2>1
  <2>2. CASE BuffSize - Len(buff) = 0
    <3>1. Len(buff) = BuffSize
      BY <1>1, <2>2, CmdSrvAssumption
    <3>2. end = 0 \/ ~(end < BuffSize)
      <4>1. end \in Nat
        <5>1. buff \o line \in Seq(Symbol)
          BY <1>1
        <5>2. end = 0 \/ end \in Ends(buff \o line)
          BY <5>1, EndIsFirst
        <5>3. Ends(buff \o line) \subseteq Nat
          BY DEF Ends
        <5> QED
          BY <5>2, <5>3
      <4> QED
        BY <1>2, <3>1, <4>1, CmdSrvAssumption
    <3> QED
      BY <3>2
  <2> QED
    BY <1>1, <2>1, <2>2
<1> QED
  BY <1>1, <1>4 DEF AsSent

(* The end of a connection.                                                *)
LEMMA CloseKeepsSent ==
  ASSUME Received, CommandsAsSent, cmdpc # "accept", NEW call,
         call = AsSent(CurrentClient), CmdClose(call)
  PROVE  Received' /\ CommandsAsSent'
<1>1. script \in Seq([text : Seq(Symbol), leaves : BOOLEAN])
  BY ScriptTypes
<1>2. served \in Seq(Answers) /\ Len(served) + 1 \in 1 .. Len(script)
  BY <1>1 DEF Received
<1>3. call \in Answers /\ call = AsSent(script[Len(served) + 1])
  BY <1>2 DEF Answers, CurrentClient
<1>4. /\ script' = script /\ served' = Append(served, call)
      /\ line' = << >> /\ buff' = << >> /\ cmdpc' = "accept"
  BY DEF CmdClose
<1>5. served' \in Seq(Answers) /\ Answers' = Answers
  BY <1>2, <1>3, <1>4 DEF Answers, AsSent
<1>6. Received'
  BY <1>4, <1>5 DEF Received
<1>7. \A i \in 1 .. Len(served') : served'[i] = AsSent(script[i])
  BY <1>2, <1>3, <1>4 DEF CommandsAsSent
<1> QED
  BY <1>4, <1>6, <1>7 DEF CommandsAsSent

(* The command server thread receives.                                     *)
LEMMA ReceiveKeepsSent ==
  ASSUME Sent, CmdReceive
  PROVE  Received' /\ CommandsAsSent'
<1>1. CASE CmdAccept
  <2>1. /\ cmdpc = "accept" /\ Len(served) < Len(script) /\ buff = << >>
        /\ line' = CurrentClient.text /\ cmdpc' = "recv"
        /\ UNCHANGED <<script, served, buff, info>>
    BY <1>1 DEF CmdAccept, Sent, Received
  <2>2. script \in Seq([text : Seq(Symbol), leaves : BOOLEAN]) /\ served \in Seq(Answers)
    BY ScriptTypes DEF Sent, Received
  <2>3. CurrentClient \in [text : Seq(Symbol), leaves : BOOLEAN]
    <3>1. Len(served) + 1 \in 1 .. Len(script)
      BY <2>1, <2>2
    <3>2. script[Len(served) + 1] \in [text : Seq(Symbol), leaves : BOOLEAN]
      BY <2>2, <3>1, ElementOfSeq
    <3> QED
      BY <3>2 DEF CurrentClient
  <2>4. line' \in Seq(Symbol) /\ line' = buff' \o line'
    <3>1. line' \in Seq(Symbol)
      BY <2>1, <2>3
    <3> QED
      BY <2>1, <3>1
  <2>5. EndOfLine(buff') = 0
    BY <2>1 DEF EndOfLine
  <2>6. Len(buff') <= BuffSize
    BY <2>1, CmdSrvAssumption
  <2>7. Received'
    BY <2>1, <2>2, <2>4, <2>5, <2>6 DEF Sent, Received, Answers, CurrentClient
  <2> QED
    BY <2>1, <2>7 DEF Sent, CommandsAsSent
<1>2. CASE CmdRecv
  <2>1. PICK bytes \in 1 .. Len(line) :
          /\ bytes <= BuffSize - Len(buff)
          /\ buff' = buff \o SubSeq(line, 1, bytes)
          /\ line' = SubSeq(line, bytes + 1, Len(line))
          /\ IF EndOfLine(buff') # 0
             THEN /\ cmdpc' = "run"
                  /\ info' = Words(SubSeq(buff', 1, EndOfLine(buff') - 1))
             ELSE UNCHANGED <<cmdpc, info>>
    BY <1>2 DEF CmdRecv, Remainder
  <2>2. cmdpc = "recv" /\ UNCHANGED <<script, served>>
    BY <1>2 DEF CmdRecv
  <2>3. /\ buff \in Seq(Symbol) /\ line \in Seq(Symbol)
        /\ CurrentClient.text = buff \o line /\ Len(buff) <= BuffSize
        /\ Len(served) < Len(script)
    BY <2>2 DEF Sent, Received
  <2>4. /\ SubSeq(line, 1, bytes) \in Seq(Symbol) /\ line' \in Seq(Symbol)
        /\ Len(SubSeq(line, 1, bytes)) = bytes
        /\ SubSeq(line, 1, bytes) \o line' = line
    <3>1. bytes \in Nat /\ 0 <= bytes /\ bytes <= Len(line) /\ Len(line) \in Nat
      BY <2>3
    <3>2. /\ SubSeq(line, 1, bytes) \in Seq(Symbol) /\ Len(SubSeq(line, 1, bytes)) = bytes
          /\ line' \in Seq(Symbol) /\ Len(line') = Len(line) - bytes
          /\ \A i \in 1 .. bytes : SubSeq(line, 1, bytes)[i] = line[i]
          /\ \A i \in 1 .. Len(line) - bytes : line'[i] = line[bytes + i]
      BY <2>1, <2>3, <3>1
    <3>3. /\ SubSeq(line, 1, bytes) \o line' \in Seq(Symbol)
          /\ Len(SubSeq(line, 1, bytes) \o line') = Len(line)
          /\ \A i \in 1 .. Len(line) : (SubSeq(line, 1, bytes) \o line')[i] = line[i]
      BY <2>3, <3>1, <3>2
    <3>4. SubSeq(line, 1, bytes) \o line' = line
      BY <2>3, <3>3, SeqEqual
    <3> QED
      BY <3>2, <3>4
  <2>5. /\ buff' \in Seq(Symbol) /\ Len(buff') = Len(buff) + bytes
        /\ buff' \o line' = buff \o line
    <3>1. (buff \o SubSeq(line, 1, bytes)) \o line' = buff \o (SubSeq(line, 1, bytes) \o line')
      <4>1. buff \in Seq(Symbol) /\ SubSeq(line, 1, bytes) \in Seq(Symbol) /\ line' \in Seq(Symbol)
        BY <2>3, <2>4
      <4> QED
        BY ONLY <4>1, ConcatAssociative
    <3>2. buff' \in Seq(Symbol) /\ Len(buff') = Len(buff) + bytes
      BY <2>1, <2>3, <2>4
    <3> QED
      BY <2>1, <2>4, <3>1, <3>2
  <2>6. Len(buff') <= BuffSize
    BY <2>1, <2>3, <2>5, CmdSrvAssumption
  <2>7. CurrentClient' = CurrentClient /\ Answers' = Answers
    BY <2>2 DEF CurrentClient, Answers
  <2>8. Received'
    <3>1. CASE EndOfLine(buff') # 0
      BY <2>1, <2>2, <2>3, <2>4, <2>5, <2>6, <2>7, <3>1 DEF Sent, Received
    <3>2. CASE EndOfLine(buff') = 0
      BY <2>1, <2>2, <2>3, <2>4, <2>5, <2>6, <2>7, <3>2 DEF Sent, Received
    <3> QED
      BY <3>1, <3>2
  <2> QED
    BY <2>2, <2>8 DEF Sent, CommandsAsSent
<1>3. CASE CmdGiveUp
  <2>1. Unanswered = AsSent(CurrentClient) /\ cmdpc # "accept"
    BY <1>3, GiveUpAsSent DEF CmdGiveUp
  <2> QED
    BY <1>3, <2>1, CloseKeepsSent DEF CmdGiveUp, Sent
<1> QED
  BY <1>1, <1>2, <1>3 DEF CmdReceive

LEMMA StepSent ==
  ASSUME CInv, Sent, [SimpleNext]_simpleVars
  PROVE  Sent'
<1>1. ASSUME UNCHANGED cmdVars
      PROVE  Received' /\ CommandsAsSent'
  BY <1>1 DEF Sent, Received, CommandsAsSent, Answers, CurrentClient, cmdVars
<1>2. ASSUME CmdReply(Command)
      PROVE  Received' /\ CommandsAsSent'
  <2>1. cmdpc = "run" /\ CmdClose(Command)
    BY <1>2 DEF CmdReply
  <2>2. Command = AsSent(CurrentClient)
    BY <2>1, RunAsSent
  <2> QED
    BY <2>1, <2>2, CloseKeepsSent DEF Sent
<1>3. TreeIs'
  <2>1. CASE MainStep
    BY <2>1 DEF Sent, TreeIs, MainStep, MainGoto, FullTree
  <2>2. CASE UNCHANGED <<mainpc, tree>>
    BY <2>2 DEF Sent, TreeIs
  <2>3. UNCHANGED <<mainpc, tree>> \/ MainStep
    <3>1. CASE \E p \in Peer : PeerStep(p)
      BY <3>1 DEF PeerStep
    <3>2. CASE ServeStep
      BY <3>2 DEF ServeStep, ServeTest, ServeSelect, ServeSignal, ServeAccept, ServeWalkBegin,
         ServeWalk, ServeRecv, ServeWalkEnd, ServeSetBegin, ServeSet, ServeExit, ServeClose,
         NotServe, NotRecv
    <3>3. CASE CmdStep
      BY <3>3 DEF CmdStep, CmdReceive, CmdSimple, CmdQuit, CmdQuitDone, NotCmd
    <3>4. CASE LogClientStep \/ \E r \in Reader : ReadStep(r)
      BY <3>4 DEF LogClientStep, ReadStep, ReadBegin, ShowStep, ReadEnd, NotReader
    <3>5. CASE UNCHANGED simpleVars
      BY <3>5 DEF simpleVars
    <3> QED
      BY <3>1, <3>2, <3>3, <3>4, <3>5 DEF SimpleNext
  <2> QED
    BY <2>1, <2>2, <2>3
<1>4. Received' /\ CommandsAsSent'
  <2>1. CASE MainStep \/ \E p \in Peer : PeerStep(p)
    BY <1>1, <2>1 DEF MainStep, PeerStep, Sent
  <2>2. CASE ServeStep
    <3>1. UNCHANGED cmdVars
      BY <2>2 DEF ServeStep, ServeTest, ServeSelect, ServeSignal, ServeAccept, ServeWalkBegin,
         ServeWalk, ServeRecv, ServeWalkEnd, ServeSetBegin, ServeSet, ServeExit, ServeClose,
         NotServe, NotRecv
    <3> QED
      BY <1>1, <3>1 DEF Sent
  <2>3. CASE CmdStep
    <3>1. CASE CmdReceive
      BY <3>1, ReceiveKeepsSent
    <3>2. CASE CmdSimple \/ CmdQuitDone
      BY <1>2, <3>2 DEF CmdSimple, CmdQuitDone
    <3>3. CASE CmdQuit
      BY <1>1, <3>3 DEF CmdQuit, Sent
    <3> QED
      BY <2>3, <3>1, <3>2, <3>3 DEF CmdStep
  <2>4. CASE LogClientStep
    BY <1>1, <2>4 DEF LogClientStep, Sent
  <2>5. ASSUME NEW r \in Reader, ReadStep(r)
        PROVE  Received' /\ CommandsAsSent'
    <3>1. UNCHANGED cmdVars \/ CmdReply(Command)
      BY <2>5 DEF ReadStep, ReadBegin, ShowStep, ReadEnd
    <3> QED
      BY <1>1, <1>2, <3>1 DEF Sent
  <2>6. CASE UNCHANGED simpleVars
    BY <1>1, <2>6 DEF simpleVars, Sent
  <2> QED
    BY <2>1, <2>2, <2>3, <2>4, <2>5, <2>6 DEF SimpleNext
<1> QED
  BY <1>3, <1>4 DEF Sent

LEMMA InitSent == SimpleInit => Sent
<1> SUFFICES ASSUME SimpleInit PROVE Sent
  OBVIOUS
<1>1. TreeIs
  BY DEF SimpleInit, TreeIs
<1>2. /\ script \in Scripts /\ served = << >> /\ line = << >> /\ buff = << >>
      /\ cmdpc = "accept"
  BY DEF SimpleInit, CmdInit
<1>3. Received /\ CommandsAsSent
  BY <1>2 DEF Received, CommandsAsSent
<1> QED
  BY <1>1, <1>3 DEF Sent

(* Whatever clients send and however it is cut on the way, a line that     *)
(* fits the buffer is executed once and as a whole, and nothing else is.   *)
THEOREM LinesAreExecuted ==
  ASSUME ~EarlyCommands
  PROVE  SimpleSpec => []CommandsAsSent
<1>1. SimpleInit => CInv /\ Sent
  BY InitConn, InitSent
<1>2. CInv /\ Sent /\ [SimpleNext]_simpleVars => CInv' /\ Sent'
  BY StepConn, StepSent
<1>3. Sent => CommandsAsSent
  BY DEF Sent
<1> QED
  BY <1>1, <1>2, <1>3, PTL DEF SimpleSpec
=============================================================================
