------------------------------ MODULE ConnSpec ------------------------------
(***************************************************************************)
(* What the simple server (src/examples/simple/main.c) promises about its  *)
(* connections: those that are open are listed in the order in which they  *)
(* came, and an answer to the command "connections" or to the web page     *)
(* shows what was open at one moment.                                      *)
(***************************************************************************)
EXTENDS Integers, Sequences

CONSTANTS Conn, Reader

VARIABLES open,   \* the open connections, in their order
          answer  \* the last list that was shown to each reader

Init == /\ open = << >>
        /\ answer = [r \in Reader |-> << >>]

Place == 1 .. Len(open)

Accept(c) == /\ \A k \in Place : open[k] # c
             /\ open' = Append(open, c)
             /\ UNCHANGED answer

\* The others keep their order.
Close(c) == /\ \E k \in Place :
                 /\ open[k] = c
                 /\ open' = [i \in 1 .. Len(open) - 1 |-> IF i < k THEN open[i] ELSE open[i + 1]]
            /\ UNCHANGED answer

Show(r) == /\ answer' = [answer EXCEPT ![r] = open]
           /\ UNCHANGED open

Next == \/ \E c \in Conn : Accept(c) \/ Close(c)
        \/ \E r \in Reader : Show(r)

Spec == Init /\ [][Next]_<<open, answer>>
=============================================================================
