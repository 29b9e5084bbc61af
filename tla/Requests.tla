------------------------------ MODULE Requests ------------------------------
(***************************************************************************)
(* The requests of a center's clients, on their way through handler        *)
(* threads, the message queue and the main thread, which answers them and  *)
(* passes commands on to controllers.                                      *)
(*                                                                         *)
(* Every hand on that way blocks: send() on a full socket, msgsnd() on a   *)
(* full queue.  The main thread is one of them, and the only one that      *)
(* takes messages out of the queue; a controller answers a command before  *)
(* it reads the next.                                                      *)
(*                                                                         *)
(* A connection keeps its descriptor here; reuse is in ControlCenter, as   *)
(* are the requests that change the registry and the center's enquiries.   *)
(***************************************************************************)
EXTENDS Naturals, Sequences

CONSTANTS
    Client,      \* peers that send requests
    Reader,      \* those of them that keep reading their responses
    Controller,  \* peers that bound themselves, or did not
    None,
    MaxQueue,    \* messages the queue holds
    MaxSocket,   \* messages a connection holds, in each direction
    Ops,         \* what each client asks for
    MaxRequest,  \* requests of each client
    MaxEnquire   \* enquiries of a controller

Peer == Client \cup Controller

ASSUME PeerAssumption == Client \cap Controller = {} /\ Reader \subseteq Client
ASSUME OpsAssumption == Ops \in [Client -> SUBSET {"set", "state", "other"}]
ASSUME BoundAssumption ==
    /\ MaxQueue \in Nat \ {0} /\ MaxSocket \in Nat \ {0}
    /\ MaxRequest \in [Client -> Nat] /\ MaxEnquire \in Nat

VARIABLES
    toCenter, toPeer,  \* a connection's messages, each way, not yet received
    hold,              \* what the handler of a connection has received
    queue,             \* messages for the main thread
    job,               \* the main thread: its request, and what is left to do
    asked, got,        \* requests a client has sent, responses it has read
    row, up,           \* a controller's row in the table; its connection is up
    result,            \* a controller's link thread has a response to send
    enquired           \* enquiries a controller has sent

wire   == <<toCenter, toPeer>>
client == <<asked, got>>
ctrl   == <<row, up, result, enquired>>
vars   == <<wire, hold, queue, job, client, ctrl>>

(***************************************************************************)
(* Packets.  A request names the controller it is for, if any, and its     *)
(* number; "other" is a request that concerns no controller.               *)
(***************************************************************************)
Number   == UNION {1 .. MaxRequest[c] : c \in Client}
Request  == [op : {"set", "state", "other"}, to : Controller \cup {None}, n : Number]
Response == [op : {"response"}, to : {None}, n : Number]
Command  == [op |-> "command", to |-> None, n |-> 0]
Result   == [op |-> "result", to |-> None, n |-> 0]
Enquire  == [op |-> "enquire", to |-> None, n |-> 0]
Alive    == [op |-> "alive", to |-> None, n |-> 0]
Packet   == Request \cup Response \cup {Command, Result, Enquire, Alive}
Message  == [from : Peer, packet : Packet]
Job      == [from : Client, packet : Request, todo : {"reply", "forward", "try"}]

ASSUME NoneAssumption == None \notin Peer \cup Packet \cup Job

TypeOK ==
    /\ toCenter \in [Peer -> Seq(Packet)] /\ toPeer \in [Peer -> Seq(Packet)]
    /\ \A p \in Peer : Len(toCenter[p]) <= MaxSocket /\ Len(toPeer[p]) <= MaxSocket
    /\ hold \in [Peer -> Packet \cup {None}]
    /\ queue \in Seq(Message) /\ Len(queue) <= MaxQueue
    /\ job \in Job \cup {None}
    /\ asked \in [Client -> Nat] /\ got \in [Client -> Nat]
    /\ \A c \in Client : got[c] <= asked[c] /\ asked[c] <= MaxRequest[c]
    /\ row \in [Controller -> BOOLEAN]
    /\ up \in [Controller -> BOOLEAN]
    /\ result \in [Controller -> BOOLEAN]
    /\ enquired \in [Controller -> 0 .. MaxEnquire]

Init ==
    /\ toCenter = [p \in Peer |-> <<>>]
    /\ toPeer = [p \in Peer |-> <<>>]
    /\ hold = [p \in Peer |-> None]
    /\ queue = <<>>
    /\ job = None
    /\ asked = [c \in Client |-> 0]
    /\ got = [c \in Client |-> 0]
    /\ row \in [Controller -> BOOLEAN]
    /\ up = row
    /\ result = [k \in Controller |-> FALSE]
    /\ enquired = [k \in Controller |-> 0]

Full(s) == Len(s) = MaxSocket

\* send() to a peer: it waits while the connection holds no more.
Send(p, m) ==
    /\ ~Full(toPeer[p])
    /\ toPeer' = [toPeer EXCEPT ![p] = Append(@, m)]

-----------------------------------------------------------------------------
(***************************************************************************)
(* Clients, which may have several requests under way, and controllers.    *)
(***************************************************************************)
Ask(c) ==
    /\ asked[c] < MaxRequest[c]
    /\ ~Full(toCenter[c])
    /\ \E m \in Request :
         /\ m.n = asked[c] + 1 /\ m.op \in Ops[c]
         /\ m.op = "other" <=> m.to = None
         /\ toCenter' = [toCenter EXCEPT ![c] = Append(@, m)]
    /\ asked' = [asked EXCEPT ![c] = @ + 1]
    /\ UNCHANGED <<toPeer, hold, queue, job, got, ctrl>>

Read(c) ==
    /\ toPeer[c] # <<>>
    /\ toPeer' = [toPeer EXCEPT ![c] = Tail(@)]
    /\ got' = [got EXCEPT ![c] = @ + 1]
    /\ UNCHANGED <<toCenter, hold, queue, job, asked, ctrl>>

\* The link thread of a controller: a command leaves it with a response to send.
LinkReceive(k) ==
    /\ up[k] /\ ~result[k]
    /\ toPeer[k] # <<>>
    /\ toPeer' = [toPeer EXCEPT ![k] = Tail(@)]
    /\ result' = [result EXCEPT ![k] = Head(toPeer[k]) = Command]
    /\ UNCHANGED <<toCenter, hold, queue, job, client, row, up, enquired>>

LinkRespond(k) ==
    /\ up[k] /\ result[k]
    /\ ~Full(toCenter[k])
    /\ toCenter' = [toCenter EXCEPT ![k] = Append(@, Result)]
    /\ result' = [result EXCEPT ![k] = FALSE]
    /\ UNCHANGED <<toPeer, hold, queue, job, client, row, up, enquired>>

\* A bound peer may enquire of the center too: the tester and the protocol do,
\* the controllers only answer.
LinkEnquire(k) ==
    /\ up[k]
    /\ enquired[k] < MaxEnquire
    /\ ~Full(toCenter[k])
    /\ toCenter' = [toCenter EXCEPT ![k] = Append(@, Enquire)]
    /\ enquired' = [enquired EXCEPT ![k] = @ + 1]
    /\ UNCHANGED <<toPeer, hold, queue, job, client, row, up, result>>

\* The connection breaks; what was on it is gone.  The row stays until the
\* enquire-link thread of the center finds out.
Vanish(k) ==
    /\ up[k]
    /\ up' = [up EXCEPT ![k] = FALSE]
    /\ result' = [result EXCEPT ![k] = FALSE]
    /\ toCenter' = [toCenter EXCEPT ![k] = <<>>]
    /\ toPeer' = [toPeer EXCEPT ![k] = <<>>]
    /\ UNCHANGED <<hold, queue, job, client, row, enquired>>

Sweep(k) ==
    /\ row[k] /\ ~up[k]
    /\ row' = [row EXCEPT ![k] = FALSE]
    /\ UNCHANGED <<wire, hold, queue, job, client, up, result, enquired>>

-----------------------------------------------------------------------------
(***************************************************************************)
(* The handler thread of a connection.                                     *)
(***************************************************************************)
HandlerReceive(p) ==
    /\ hold[p] = None
    /\ toCenter[p] # <<>>
    /\ hold' = [hold EXCEPT ![p] = Head(toCenter[p])]
    /\ toCenter' = [toCenter EXCEPT ![p] = Tail(@)]
    /\ UNCHANGED <<toPeer, queue, job, client, ctrl>>

\* It answers an enquiry itself.  A send to a broken connection fails.
HandlerAnswer(k) ==
    /\ hold[k] = Enquire
    /\ IF up[k] THEN Send(k, Alive) ELSE UNCHANGED toPeer
    /\ hold' = [hold EXCEPT ![k] = None]
    /\ UNCHANGED <<toCenter, queue, job, client, ctrl>>

\* Mutant: IPC_NOWAIT, and a full queue loses the message.
HandlerPost_NoWait(p) ==
    /\ hold[p] \notin {None, Enquire}
    /\ queue' = IF Len(queue) < MaxQueue
                THEN Append(queue, [from |-> p, packet |-> hold[p]])
                ELSE queue
    /\ hold' = [hold EXCEPT ![p] = None]
    /\ UNCHANGED <<wire, job, client, ctrl>>

HandlerPost(p) ==
    /\ hold[p] \notin {None, Enquire}
    /\ Len(queue) < MaxQueue
    /\ queue' = Append(queue, [from |-> p, packet |-> hold[p]])
    /\ hold' = [hold EXCEPT ![p] = None]
    /\ UNCHANGED <<wire, job, client, ctrl>>

-----------------------------------------------------------------------------
(***************************************************************************)
(* The main thread.  A set is answered first and then passed on, a state   *)
(* request is passed on and then answered, all others are just answered.   *)
(***************************************************************************)
\* Mutant: a response is handled like a request, isAckPacket is not asked.
Dequeue_NoAck ==
    /\ job = None
    /\ queue # <<>>
    /\ queue' = Tail(queue)
    /\ LET m == Head(queue) IN
       job' = [from |-> m.from, packet |-> m.packet,
               todo |-> IF m.packet.op = "state" THEN "try" ELSE "reply"]
    /\ UNCHANGED <<wire, hold, client, ctrl>>

Dequeue ==
    /\ job = None
    /\ queue # <<>>
    /\ queue' = Tail(queue)
    /\ LET m == Head(queue) IN
       job' = IF m.packet = Result
              THEN None  \* ackPacket
              ELSE [from |-> m.from, packet |-> m.packet,
                    todo |-> IF m.packet.op = "state" THEN "try" ELSE "reply"]
    /\ UNCHANGED <<wire, hold, client, ctrl>>

\* What the main thread does once this is done.
Then(todo) == job' = IF todo = "idle" THEN None ELSE [job EXCEPT !.todo = todo]

Reply ==
    /\ job # None /\ job.todo = "reply"
    /\ Send(job.from, [op |-> "response", to |-> None, n |-> job.packet.n])
    /\ Then(IF job.packet.op = "set" THEN "forward" ELSE "idle")
    /\ UNCHANGED <<toCenter, hold, queue, client, ctrl>>

\* The command cannot be passed on: there is no row, or send() fails.
Unreachable(k) == ~(row[k] /\ up[k])

Forward ==
    /\ job # None /\ job.todo = "forward"
    /\ ~Unreachable(job.packet.to)
    /\ Send(job.packet.to, Command)
    /\ Then("idle")
    /\ UNCHANGED <<toCenter, hold, queue, client, ctrl>>

\* The response has been sent; nothing tells the client.
ForwardFails ==
    /\ job # None /\ job.todo = "forward"
    /\ Unreachable(job.packet.to)
    /\ Then("idle")
    /\ UNCHANGED <<wire, hold, queue, client, ctrl>>

\* Mutant: cmpPowerPortState without the response of a request it passed on.
Try_Silent ==
    /\ job # None /\ job.todo = "try"
    /\ IF Unreachable(job.packet.to)
       THEN UNCHANGED toPeer /\ Then("reply")
       ELSE Send(job.packet.to, Command) /\ Then("idle")
    /\ UNCHANGED <<toCenter, hold, queue, client, ctrl>>

\* A state request is answered from a fixed text, or refused.
Try ==
    /\ job # None /\ job.todo = "try"
    /\ IF Unreachable(job.packet.to)
       THEN UNCHANGED toPeer
       ELSE Send(job.packet.to, Command)
    /\ Then("reply")
    /\ UNCHANGED <<toCenter, hold, queue, client, ctrl>>

-----------------------------------------------------------------------------
Main       == Dequeue \/ Reply \/ Forward \/ ForwardFails \/ Try
Handler(p) == HandlerReceive(p) \/ HandlerPost(p)
Link(k)    == LinkReceive(k) \/ LinkRespond(k)

Next ==
    \/ \E c \in Client : Ask(c) \/ Read(c)
    \/ \E k \in Controller :
         Link(k) \/ LinkEnquire(k) \/ Vanish(k) \/ Sweep(k) \/ HandlerAnswer(k)
    \/ \E p \in Peer : Handler(p)
    \/ Main

\* The threads of the center and of the controllers run, and some clients read.
Fairness ==
    /\ WF_vars(Main)
    /\ \A p \in Peer : WF_vars(Handler(p))
    /\ \A k \in Controller : WF_vars(HandlerAnswer(k)) /\ WF_vars(Link(k))
    /\ \A c \in Reader : WF_vars(Read(c))

Spec == Init /\ [][Next]_vars

FairSpec == Spec /\ Fairness

-----------------------------------------------------------------------------
(***************************************************************************)
(* Properties.                                                             *)
(***************************************************************************)
\* The main thread has a request of c that it has not answered.
Handling(c) == job # None /\ job.from = c /\ job.todo # "forward"

\* How far the requests of c have come, as the number of the last one that has
\* been answered, taken by the main thread, posted by the handler, received by it.
Replied(c)  == got[c] + Len(toPeer[c])
Taken(c)    == Replied(c) + (IF Handling(c) THEN 1 ELSE 0)
Received(c) == asked[c] - Len(toCenter[c])
Posted(c)   == Received(c) - (IF hold[c] # None THEN 1 ELSE 0)

\* The queue holds those of c from lo to hi, each once, and in order.
Queues(c, lo, hi) ==
    LET of == {i \in DOMAIN queue : queue[i].from = c}
    IN  /\ \A i \in of : queue[i].packet.n \in lo .. hi
        /\ \A n \in lo .. hi : \E i \in of : queue[i].packet.n = n
        /\ \A i, j \in of : i < j => queue[i].packet.n < queue[j].packet.n

\* Each request gets one response, and a client's responses come in the order
\* of its requests, although every hand on the way blocks on others: from the
\* response it reads next to the request it sent last, what is under way are the
\* numbers after those it has read, each once.
OneResponseEach ==
    \A c \in Client :
        /\ \A i \in DOMAIN toPeer[c] : toPeer[c][i].n = got[c] + i
        /\ Handling(c) => job.packet.n = Taken(c)
        /\ Taken(c) <= Posted(c)
        /\ Queues(c, Taken(c) + 1, Posted(c))
        /\ hold[c] # None => hold[c].n = Received(c)
        /\ \A i \in DOMAIN toCenter[c] : toCenter[c][i].n = Received(c) + i

\* "The command status field indicates the success or failure of a CMP
\* request": a set that is answered with "no error" reaches its controller.
\* It does not hold, see run requests_status.
StatusTellsOutcome ==
    [][job # None /\ job.todo = "forward" /\ job' = None =>
         toPeer'[job.packet.to] # toPeer[job.packet.to]]_vars

\* The full circle: the main thread waits for a controller to read, that one
\* for its handler to receive, and the handler for the main thread to take a
\* message, or for the controller to read as well.
Gridlock(k) ==
    /\ job # None /\ job.todo \in {"forward", "try"} /\ job.packet.to = k
    /\ Full(toPeer[k]) /\ result[k] /\ Full(toCenter[k])
    /\ hold[k] = Enquire \/ (hold[k] = Result /\ Len(queue) = MaxQueue)

\* The main thread waits for a client to read.
WaitsFor(c) == job # None /\ job.todo = "reply" /\ job.from = c /\ Full(toPeer[c])

\* A thread of the center or of a controller has nothing to do, or may not go on.
MainWaits ==
    \/ job = None /\ queue = <<>>
    \/ job # None /\ job.todo = "reply" /\ Full(toPeer[job.from])
    \/ /\ job # None /\ job.todo \in {"forward", "try"}
       /\ ~Unreachable(job.packet.to) /\ Full(toPeer[job.packet.to])

HandlerWaits(p) ==
    \/ hold[p] = None /\ toCenter[p] = <<>>
    \/ hold[p] = Enquire /\ up[p] /\ Full(toPeer[p])
    \/ hold[p] \notin {None, Enquire} /\ Len(queue) = MaxQueue

LinkWaits(k) == up[k] => IF result[k] THEN Full(toCenter[k]) ELSE toPeer[k] = <<>>

Standstill ==
    /\ MainWaits
    /\ \A p \in Peer : HandlerWaits(p)
    /\ \A k \in Controller : LinkWaits(k)
    /\ \A c \in Reader : toPeer[c] = <<>>

\* When nobody can go on who has to, all clients that read have all their
\* responses, or the main thread waits for one that does not read, or the circle
\* is closed: hands that block on each other come to no other standstill.
NoOtherStandstill ==
    Standstill =>
        \/ \A c \in Reader : got[c] = asked[c]
        \/ \E c \in Client \ Reader : WaitsFor(c)
        \/ \E k \in Controller : Gridlock(k)

\* Clients that read get all their responses, whatever controllers break and
\* whatever is full: nothing stops the center but a client that does not read
\* while it is owed a response, and the full circle.
Answered ==
    \/ \A c \in Reader : []<>(got[c] = asked[c])
    \/ \E c \in Client \ Reader : <>[]WaitsFor(c)
    \/ \E k \in Controller : <>[]Gridlock(k)
=============================================================================
