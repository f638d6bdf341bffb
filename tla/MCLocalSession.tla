---------------------------- MODULE MCLocalSession ----------------------------
\* Instances of LocalSession for TLC.
EXTENDS LocalSession, TLC

Symmetric == Permutations(Workers)

\* One of the sources pauses after every segment, the other never does.
First == CHOOSE s \in Sources : TRUE
StopInit == Init /\ pauses = [s \in Sources |-> IF s = First THEN Segments ELSE {}]

\* A bound: one thing goes wrong in a session. An upload is repeated, a worker dies, or
\* locks expire under drains at work.
OneTrouble ==
    replays + crashes + (IF \E s \in Sources : overruns[s] > 0 THEN 1 ELSE 0) <= 1

StopSpec ==
    /\ StopInit /\ [][Next /\ OneTrouble']_vars
    /\ \A w \in Workers : WF_vars(Work(w))
    /\ \A s \in Sources : WF_vars(Expire(s) /\ OneTrouble')
=============================================================================
