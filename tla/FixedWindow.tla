---------------------------- MODULE FixedWindow ----------------------------
(***************************************************************************)
(* What a rate limiter with a fixed window promises: a client without a    *)
(* window opens one with its request, and within it is admitted up to      *)
(* maxRequests times.  A window is gone as soon as it has ended; nothing   *)
(* is left to clean up.                                                    *)
(***************************************************************************)
EXTENDS Naturals

CONSTANTS Ips, maxRequests, Window, None

VARIABLES
    live,       \* the open window of each client: how many requests, and its age; or None
    verdict     \* the last request: whose it was and whether it was admitted

gateVars == <<live, verdict>>

Init == live = [ip \in Ips |-> None] /\ verdict = None

Admit(ip) ==
    /\ live' = [live EXCEPT ![ip] = IF @ = None THEN [count |-> 1, age |-> 0]
                                    ELSE [count |-> @.count + 1, age |-> @.age]]
    /\ verdict' = [ip |-> ip, allowed |-> TRUE]

Refuse(ip) == /\ UNCHANGED live
              /\ verdict' = [ip |-> ip, allowed |-> FALSE]

Request(ip) ==
    IF live[ip] = None \/ live[ip].count < maxRequests THEN Admit(ip) ELSE Refuse(ip)

TimePasses ==
    /\ live' = [ip \in Ips |-> IF live[ip] = None \/ live[ip].age + 1 = Window THEN None
                               ELSE [count |-> live[ip].count, age |-> live[ip].age + 1]]
    /\ UNCHANGED verdict

Next == TimePasses \/ \E ip \in Ips : Request(ip)

Spec == Init /\ [][Next]_gateVars
=============================================================================
