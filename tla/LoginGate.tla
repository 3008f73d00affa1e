----------------------------- MODULE LoginGate -----------------------------
(***************************************************************************)
(* What the login machinery of ElectroluxClient promises its callers: a    *)
(* gate that is open or closed and a set of callers queued before it.  A   *)
(* caller that finds the gate closed queues; the queue is emptied as a     *)
(* whole, by the gate opening, and a non-empty queue does not wait for     *)
(* ever.  How tokens, logins, refreshes and retries bring this about is    *)
(* AuthGate.                                                               *)
(***************************************************************************)
CONSTANT Callers

VARIABLES open, queue

vars == <<open, queue>>

Init == open = FALSE /\ queue = {}

\* waitForLogin() of a caller that is not logged in.
Join(c) == /\ ~open
           /\ queue' = queue \cup {c}
           /\ UNCHANGED open

\* startLogin(), or a failure: the gate closes on nobody that has passed it.
Close == open' = FALSE /\ UNCHANGED queue

\* finishLogin(true): everyone queued goes on.
Open == open' = TRUE /\ queue' = {}

Next == Close \/ Open \/ \E c \in Callers : Join(c)

Spec == Init /\ [][Next]_vars /\ WF_vars(queue # {} /\ Open)
=============================================================================
