------------------------------ MODULE MCIwMain ------------------------------
EXTENDS IwMain

Callers == {Main, Cmd}

\* "quit", or SIGINT, or two of them: from an impatient user, or one of each.
OneOrTwo == {[quit |-> 1, sigint |-> 0], [quit |-> 2, sigint |-> 0], [quit |-> 1, sigint |-> 1],
             [quit |-> 0, sigint |-> 1], [quit |-> 0, sigint |-> 2]}
=============================================================================
