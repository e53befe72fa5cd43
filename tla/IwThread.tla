------------------------------ MODULE IwThread ------------------------------
(***************************************************************************)
(* The client threads of src/src/iw_thread.c from iw_thread_create to the  *)
(* pthread_join of iw_thread_wait_all, and the thread table s_threads.  A  *)
(* new thread enters itself into the table, some time after                *)
(* iw_thread_create has returned; iw_thread_wait_all joins what it finds   *)
(* in the table, and removes it from the table without the lock.  Internal *)
(* threads (client = false) are in the table too; the scan passes over     *)
(* them, and they are left out here.                                       *)
(***************************************************************************)
EXTENDS Naturals

CONSTANTS Worker,   \* the client threads that can be created
          Caller,   \* the threads that call iw_thread_wait_all
          NoWorker

ASSUME CallerAssumption == NoWorker \notin Worker

VARIABLES
  life,      \* the life of a client thread and of its pthread
  s_threads, \* the client threads whose tinfo is in the table
  freed,     \* the client threads whose tinfo was deleted
  wpc,       \* where a caller is in iw_thread_wait_all
  tinfo      \* the entry that the caller has found

threadVars == <<life, s_threads, freed, wpc, tinfo>>

ThreadTypeOK ==
  /\ life \in [Worker -> {"none", "started", "running", "returned", "joined"}]
  /\ s_threads \subseteq Worker
  /\ freed \subseteq Worker
  /\ wpc \in [Caller -> {"idle", "scan", "deref", "join", "delete", "done"}]
  /\ tinfo \in [Caller -> Worker \union {NoWorker}]
  /\ \A c \in Caller : wpc[c] \in {"deref", "join", "delete"} => tinfo[c] \in Worker

ThreadInit ==
  /\ life = [w \in Worker |-> "none"]
  /\ s_threads = {}
  /\ freed = {}
  /\ wpc = [c \in Caller |-> "idle"]
  /\ tinfo = [c \in Caller |-> NoWorker]

-----------------------------------------------------------------------------
(* iw_thread_create and iw_thread_callback.                                *)

\* pthread_create has returned.  (When it fails, nothing has changed.)
ThreadCreate(w) ==
  /\ life[w] = "none"
  /\ life' = [life EXCEPT ![w] = "started"]
  /\ UNCHANGED <<s_threads, freed, wpc, tinfo>>

\* The thread runs: it takes the write lock and enters itself.
ThreadRegister(w) ==
  /\ life[w] = "started"
  /\ life' = [life EXCEPT ![w] = "running"]
  /\ s_threads' = s_threads \union {w}
  /\ UNCHANGED <<freed, wpc, tinfo>>

\* Its function returns.  The entry stays, for the join.
ThreadReturn(w) ==
  /\ life[w] = "running"
  /\ life' = [life EXCEPT ![w] = "returned"]
  /\ UNCHANGED <<s_threads, freed, wpc, tinfo>>

-----------------------------------------------------------------------------
(* iw_thread_wait_all.                                                     *)

WaitGoto(c, label) == wpc' = [wpc EXCEPT ![c] = label]

WaitBegin(c) ==
  /\ wpc[c] \in {"idle", "done"}
  /\ WaitGoto(c, "scan")
  /\ UNCHANGED <<life, s_threads, freed, tinfo>>

\* Fault: the loop ends after one thread.
WaitScan_OneOnly(c) ==
  /\ wpc[c] = "scan"
  /\ \/ /\ tinfo[c] = NoWorker
        /\ \E w \in s_threads : tinfo' = [tinfo EXCEPT ![c] = w]
        /\ WaitGoto(c, "deref")
     \/ /\ s_threads = {} \/ tinfo[c] # NoWorker
        /\ WaitGoto(c, "done")
        /\ UNCHANGED tinfo
  /\ UNCHANGED <<life, s_threads, freed>>

\* Fault: that no thread was found is not noticed.
WaitScan_NoneUnchecked(c) ==
  /\ wpc[c] = "scan"
  /\ \/ /\ \E w \in s_threads : tinfo' = [tinfo EXCEPT ![c] = w]
     \/ /\ s_threads = {}
        /\ UNCHANGED tinfo
  /\ WaitGoto(c, "deref")
  /\ UNCHANGED <<life, s_threads, freed>>

\* Under the read lock: the first client thread of the table, if any.
WaitScan(c) ==
  /\ wpc[c] = "scan"
  /\ \/ /\ \E w \in s_threads : tinfo' = [tinfo EXCEPT ![c] = w]
        /\ WaitGoto(c, "deref")
     \/ /\ s_threads = {}
        /\ WaitGoto(c, "done")
        /\ UNCHANGED tinfo
  /\ UNCHANGED <<life, s_threads, freed>>

\* With the lock released, tinfo->thread is read for pthread_join.
WaitDeref(c) ==
  /\ wpc[c] = "deref"
  /\ WaitGoto(c, "join")
  /\ UNCHANGED <<life, s_threads, freed, tinfo>>

\* A pthread is joined by one thread at a time: the second call fails at once.
Contended(c) == \E d \in Caller \ {c} : wpc[d] = "join" /\ tinfo[d] = tinfo[c]

\* pthread_join waits for the thread, unless another caller does.  Its result
\* is not looked at.
WaitJoin(c) ==
  /\ wpc[c] = "join"
  /\ life[tinfo[c]] \in {"returned", "joined"} \/ Contended(c)
  /\ life' = [life EXCEPT ![tinfo[c]] = IF @ = "returned" THEN "joined" ELSE @]
  /\ WaitGoto(c, "delete")
  /\ UNCHANGED <<s_threads, freed, tinfo>>

\* iw_htable_delete, with no lock: the entry goes, and the tinfo is freed.
WaitDelete(c) ==
  /\ wpc[c] = "delete"
  /\ s_threads' = s_threads \ {tinfo[c]}
  /\ freed' = IF tinfo[c] \in s_threads THEN freed \union {tinfo[c]} ELSE freed
  /\ WaitGoto(c, "scan")
  /\ UNCHANGED <<life, tinfo>>

WaitStep(c) == WaitScan(c) \/ WaitDeref(c) \/ WaitJoin(c) \/ WaitDelete(c)

\* Undefined in C, with two callers: to read a tinfo that the other one has
\* freed, to join a thread that was joined, to run on with a freed tinfo.
UsesFreed ==
  \/ \E c \in Caller : /\ wpc[c] \in {"deref", "join"}
                       /\ tinfo[c] \in freed \/ life[tinfo[c]] = "joined"
  \/ \E w \in freed : life[w] = "running"
=============================================================================
