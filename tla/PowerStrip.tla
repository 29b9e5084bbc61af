----------------------------- MODULE PowerStrip -----------------------------
(***************************************************************************)
(* What a controller promises of the power strips behind it: a request is  *)
(* served in one step, a set changes the one port it names, a read returns *)
(* the ports as they are, and a refusal leaves every port as it was.       *)
(***************************************************************************)
CONSTANTS Thread, Wire, Port, None

VARIABLES
    ports,    \* the ports of each strip, on or off
    request,  \* the request each thread serves, or None
    reply     \* its last response

vars == <<ports, request, reply>>

State == [Port -> BOOLEAN]

\* To set a port that exists; or, on a wire that may not exist, a port that does
\* not, or to read the ports.
Request ==
    [op : {"set"}, wire : Wire, port : Port, on : BOOLEAN] \cup
    [op : {"set", "state"}, wire : Wire \cup {None}, port : {None}, on : {FALSE}]

Reply == [status : {"ok", "fail"}, state : State \cup {None}]

Ok      == [status |-> "ok", state |-> None]
Fail    == [status |-> "fail", state |-> None]
Read(s) == [status |-> "ok", state |-> s]

Init ==
    /\ ports \in [Wire -> State]
    /\ request = [t \in Thread |-> None]
    /\ reply = [t \in Thread |-> None]

Begin(t) ==
    /\ request[t] = None
    /\ \E r \in Request : request' = [request EXCEPT ![t] = r]
    /\ reply' = [reply EXCEPT ![t] = None]
    /\ UNCHANGED ports

Respond(t, r) ==
    /\ request[t] # None
    /\ request' = [request EXCEPT ![t] = None]
    /\ reply' = [reply EXCEPT ![t] = r]

\* A port the strip does not have is set with no effect.
Set(t) ==
    /\ Respond(t, Ok)
    /\ request[t].op = "set"
    /\ request[t].wire \in Wire
    /\ ports' = IF request[t].port \in Port
                THEN [ports EXCEPT ![request[t].wire][request[t].port] = request[t].on]
                ELSE ports

Get(t) ==
    /\ request[t] # None
    /\ request[t].op = "state"
    /\ request[t].wire \in Wire
    /\ Respond(t, Read(ports[request[t].wire]))
    /\ UNCHANGED ports

Refuse(t) ==
    /\ Respond(t, Fail)
    /\ UNCHANGED ports

Next == \E t \in Thread : Begin(t) \/ Set(t) \/ Get(t) \/ Refuse(t)

Spec == Init /\ [][Next]_vars
=============================================================================
