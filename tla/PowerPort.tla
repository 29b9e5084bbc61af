----------------------------- MODULE PowerPort ------------------------------
(***************************************************************************)
(* The power-port requests of the controller and the strips behind it.     *)
(*                                                                         *)
(* cmpPowerPortSet and cmpPowerPortState run on the thread that received   *)
(* the request.  They ask a strip for its state over one UDP socket that   *)
(* all of them share, taking the first datagram that comes, whoever it is  *)
(* from; a set then writes all the ports of the strip over a TCP           *)
(* connection of its own, and does not wait for the strip to apply them.   *)
(***************************************************************************)
EXTENDS Naturals, Sequences, SequencesExt

CONSTANTS
    Thread,   \* threads that serve requests: one per client, one of the link
    Wire,     \* the power strips
    Port,     \* ports of a strip
    None,
    Tries,    \* waits of sendCommand, 1 s each
    MaxAir    \* datagrams on their way, or in the socket, or writes of a strip

State == [Port -> BOOLEAN]

\* To set a port that exists; or, on a wire that may not exist, a port that does
\* not, or to read the ports.
Request ==
    [op : {"set"}, wire : Wire, port : Port, on : BOOLEAN] \cup
    [op : {"set", "state"}, wire : Wire \cup {None}, port : {None}, on : {FALSE}]

ASSUME NoneAssumption == None \notin Wire \cup Port \cup State \cup Request
ASSUME TriesAssumption == Tries \in Nat \ {0}
ASSUME AirAssumption == MaxAir \in Nat

VARIABLES
    ports,    \* the ports of each strip, on or off
    air,      \* datagrams under way: queries (state None) and their answers
    sock,     \* answers in the receive buffer of udpsockfd
    writes,   \* writes each strip has been sent and has not applied
    pc,       \* program counter of a thread
    request,  \* the request it serves
    got,      \* strState
    tries,    \* i
    woken,    \* threads whose epoll has an event for them
    reply,    \* last response
    calm      \* history: requests one at a time, strips that answer in time

net    == <<air, sock, woken>>
thread == <<pc, request, got, tries, reply>>
vars   == <<ports, writes, net, thread, calm>>

Reply == [status : {"ok", "fail"}, state : State \cup {None}]
Gram  == [wire : Wire, state : State \cup {None}]

Ok      == [status |-> "ok", state |-> None]
Fail    == [status |-> "fail", state |-> None]
Read(s) == [status |-> "ok", state |-> s]

TypeOK ==
    /\ ports \in [Wire -> State]
    /\ air \in Seq(Gram)
    /\ sock \in Seq(State)
    /\ writes \in [Wire -> Seq(State)]
    /\ pc \in [Thread -> {"idle", "ask", "wait", "act"}]
    /\ request \in [Thread -> Request \cup {None}]
    /\ got \in [Thread -> State \cup {None}]
    /\ tries \in [Thread -> 0 .. Tries - 1]
    /\ woken \in SUBSET Thread
    /\ reply \in [Thread -> Reply \cup {None}]
    /\ calm \in BOOLEAN

Init ==
    /\ ports \in [Wire -> State]
    /\ air = <<>>
    /\ sock = <<>>
    /\ writes = [w \in Wire |-> <<>>]
    /\ pc = [t \in Thread |-> "idle"]
    /\ request = [t \in Thread |-> None]
    /\ got = [t \in Thread |-> None]
    /\ tries = [t \in Thread |-> 0]
    /\ woken = {}
    /\ reply = [t \in Thread |-> None]
    /\ calm = TRUE

-----------------------------------------------------------------------------
(***************************************************************************)
(* The network and the strips.  A datagram may be late or lost; a strip    *)
(* answers with its ports as they are, and applies a write when it pleases.*)
(***************************************************************************)
Lose(k) ==
    /\ air' = RemoveAt(air, k)
    /\ UNCHANGED <<ports, writes, sock, woken, thread, calm>>

StripAnswer(k) ==
    /\ air[k].state = None
    /\ air' = [air EXCEPT ![k].state = ports[air[k].wire]]
    /\ calm' = (calm /\ writes[air[k].wire] = <<>>)
    /\ UNCHANGED <<ports, writes, sock, woken, thread>>

\* An arrival is an event of every epoll set the socket is in.
Deliver(k) ==
    /\ air[k].state # None
    /\ Len(sock) < MaxAir
    /\ sock' = Append(sock, air[k].state)
    /\ air' = RemoveAt(air, k)
    /\ woken' = woken \cup {t \in Thread : pc[t] = "wait"}
    /\ UNCHANGED <<ports, writes, thread, calm>>

StripApply(w, k) ==
    /\ ports' = [ports EXCEPT ![w] = writes[w][k]]
    /\ writes' = [writes EXCEPT ![w] = RemoveAt(@, k)]
    /\ UNCHANGED <<net, thread, calm>>

(***************************************************************************)
(* A thread that serves a power_port request.                              *)
(***************************************************************************)
Receive(t) ==
    /\ pc[t] = "idle"
    /\ pc' = [pc EXCEPT ![t] = "ask"]
    /\ \E r \in Request : request' = [request EXCEPT ![t] = r]
    /\ reply' = [reply EXCEPT ![t] = None]
    /\ calm' = (calm /\ \A u \in Thread : pc[u] = "idle")
    /\ UNCHANGED <<ports, writes, net, got, tries>>

\* sendCommand up to its first wait.  A wire other than 1 and 2 leaves
\* strState empty; a query that the network does not take is lost.
Ask(t) ==
    /\ pc[t] = "ask"
    /\ IF request[t].wire = None
       THEN /\ pc' = [pc EXCEPT ![t] = "act"]
            /\ UNCHANGED net
       ELSE /\ pc' = [pc EXCEPT ![t] = "wait"]
            /\ air' = IF Len(air) < MaxAir
                      THEN Append(air, [wire |-> request[t].wire, state |-> None])
                      ELSE air
            /\ woken' = IF sock # <<>> THEN woken \cup {t} ELSE woken \ {t}
            /\ UNCHANGED sock
    /\ UNCHANGED <<ports, writes, request, got, tries, reply, calm>>

\* Mutant: i <= 3 for i < 3.
Missed_OneMore(t) ==
    /\ IF tries[t] + 1 <= Tries
       THEN tries' = [tries EXCEPT ![t] = @ + 1] /\ UNCHANGED pc
       ELSE tries' = [tries EXCEPT ![t] = 0] /\ pc' = [pc EXCEPT ![t] = "act"]
    /\ UNCHANGED <<ports, writes, air, sock, request, got, reply>>

\* One more of the waits is over, and the last one ends the call.
Missed(t) ==
    /\ IF tries[t] + 1 < Tries
       THEN tries' = [tries EXCEPT ![t] = @ + 1] /\ UNCHANGED pc
       ELSE tries' = [tries EXCEPT ![t] = 0] /\ pc' = [pc EXCEPT ![t] = "act"]
    /\ UNCHANGED <<ports, writes, air, sock, request, got, reply>>

\* epoll_wait returns an event: recvfrom, unless another thread was faster.
Take(t) ==
    /\ pc[t] = "wait"
    /\ t \in woken
    /\ sock # <<>>
    /\ got' = [got EXCEPT ![t] = Head(sock)]
    /\ sock' = Tail(sock)
    /\ woken' = woken \ {t}
    /\ pc' = [pc EXCEPT ![t] = "act"]
    /\ tries' = [tries EXCEPT ![t] = 0]
    /\ UNCHANGED <<ports, writes, air, request, reply, calm>>

TooLate(t) ==
    /\ pc[t] = "wait"
    /\ t \in woken
    /\ sock = <<>>
    /\ woken' = woken \ {t}
    /\ Missed(t)
    /\ UNCHANGED calm

\* Mutant: a wait that times out is not counted.
Timeout_Uncounted(t) ==
    /\ pc[t] = "wait"
    /\ t \notin woken
    /\ calm' = (calm /\ air = <<>>)
    /\ UNCHANGED <<ports, writes, net, thread>>

Timeout(t) ==
    /\ pc[t] = "wait"
    /\ t \notin woken
    /\ calm' = (calm /\ air = <<>>)
    /\ Missed(t)
    /\ UNCHANGED woken

Respond(t, r) ==
    /\ pc' = [pc EXCEPT ![t] = "idle"]
    /\ reply' = [reply EXCEPT ![t] = r]
    /\ request' = [request EXCEPT ![t] = None]
    /\ got' = [got EXCEPT ![t] = None]
    /\ UNCHANGED <<net, tries, calm>>

Refuse(t) ==
    /\ pc[t] = "act"
    /\ got[t] = None
    /\ Respond(t, Fail)
    /\ UNCHANGED <<ports, writes>>

Report(t) ==
    /\ pc[t] = "act"
    /\ got[t] # None
    /\ request[t].op = "state"
    /\ Respond(t, Read(got[t]))
    /\ UNCHANGED <<ports, writes>>

\* The state that setPortState writes for a request whose query returned s.
Written(r, s) == IF r.port \in Port THEN [s EXCEPT ![r.port] = r.on] ELSE s

\* Mutant: the default true of bPort1 to bPort4 instead of what was read.
Write_Default(t) ==
    /\ pc[t] = "act"
    /\ got[t] # None
    /\ request[t].op = "set"
    /\ LET r == request[t] IN
       /\ Len(writes[r.wire]) < MaxAir
       /\ writes' = [writes EXCEPT ![r.wire] = Append(@, Written(r, [p \in Port |-> TRUE]))]
    /\ Respond(t, Ok)
    /\ UNCHANGED ports

\* setPortState and STATUS_ROK: the write is on its way, no more is known.
Write(t) ==
    /\ pc[t] = "act"
    /\ got[t] # None
    /\ request[t].op = "set"
    /\ LET r == request[t] IN
       /\ Len(writes[r.wire]) < MaxAir
       /\ writes' = [writes EXCEPT ![r.wire] = Append(@, Written(r, got[t]))]
    /\ Respond(t, Ok)
    /\ UNCHANGED ports

\* connect() refused, or not done within 5 s.
WriteFails(t) ==
    /\ pc[t] = "act"
    /\ got[t] # None
    /\ request[t].op = "set"
    /\ Respond(t, Fail)
    /\ UNCHANGED <<ports, writes>>

-----------------------------------------------------------------------------
Serve(t) ==
    \/ Ask(t) \/ Take(t) \/ TooLate(t) \/ Timeout(t)
    \/ Refuse(t) \/ Report(t) \/ Write(t) \/ WriteFails(t)

Next ==
    \/ \E k \in DOMAIN air : Lose(k) \/ StripAnswer(k) \/ Deliver(k)
    \/ \E w \in Wire : \E k \in DOMAIN writes[w] : StripApply(w, k)
    \/ \E t \in Thread : Receive(t) \/ Serve(t)

\* Threads are scheduled and their waits end; nothing is assumed of the
\* network, the strips and the clients.
Fairness == \A t \in Thread : WF_vars(Serve(t))

Spec == Init /\ [][Next]_vars

FairSpec == Spec /\ Fairness

-----------------------------------------------------------------------------
(***************************************************************************)
(* Properties.                                                             *)
(***************************************************************************)

\* The ports of each strip once it has applied its writes.
Pending(w) == IF writes[w] = <<>> THEN ports[w] ELSE writes[w][Len(writes[w])]

Strip == INSTANCE PowerStrip WITH ports <- [w \in Wire |-> Pending(w)]

\* The controller keeps the promise of PowerStrip (a set changes its port and
\* no other, a read is true) as long as requests come one at a time and each
\* query is answered, from applied writes, before its waits are over.
StripSpec == Strip!Init /\ [][calm' => Strip!Next]_Strip!vars

\* "[Controller] Power Port Setting Success!!": a set changes its own port and
\* undoes no other setting.  When requests overlap, or a strip answers late, it
\* does not hold: see run power_lost_set.
UndoesNothing ==
    [][\A t \in Thread, w \in Wire :
         Write(t) /\ request[t].wire = w =>
             \A p \in Port \ {request[t].port} : Pending(w)'[p] = Pending(w)[p]]_vars

\* Every request gets its response, also when other threads take the
\* datagrams it is waiting for, or the strip is gone.
Answered == \A t \in Thread : []<>(pc[t] = "idle")
=============================================================================
