----------------------------- MODULE Controller -----------------------------
(***************************************************************************)
(* The controller on the device side: the registry of the clients that     *)
(* bind to it, its own enquire-link thread, and its link to the center.    *)
(*                                                                         *)
(* Two programs share this design.  In the Areawell controller a PDU is    *)
(* handled on the thread that received it (ServerReceive, ClientReceive)   *)
(* and only disconnects go through the queue; in ControllerClient the PDUs *)
(* go through the queue too and the main thread handles all of them.       *)
(* direct tells the two apart.  As in the center, everything is keyed by   *)
(* the descriptor number, which is free as soon as any thread closes it.   *)
(***************************************************************************)
EXTENDS Naturals, Sequences, FiniteSets

CONSTANTS
    FD,        \* descriptor numbers
    Client,    \* connections of clients; each also names its handler thread
    Link,      \* sockets to the center; each also names its receiver thread
    Id,        \* ids clients bind with
    Main, Enq, \* the main thread and the enquire-link thread
    None,
    MaxQueue,  \* messages the queue holds before msgsnd blocks
    Direct,    \* the values direct takes: which of the two programs
    Reachable, \* whether the center may accept connections: values it takes
    CreateFails \* whether pthread_create may fail: a set of BOOLEANs

Conn   == Client \cup Link
Dialer == {Main, Enq}
Worker == Conn \cup {Main}

ASSUME NamesAssumption ==
    /\ None \notin FD \cup Conn \cup Id
    /\ Client \cap Link = {}
    /\ Main \notin Conn /\ Enq \notin Conn /\ Main # Enq
ASSUME QueueAssumption == MaxQueue \in Nat \ {0}
ASSUME DirectAssumption == Direct \in SUBSET BOOLEAN
ASSUME ReachableAssumption == Reachable \in SUBSET BOOLEAN
ASSUME CreateAssumption == CreateFails \in SUBSET BOOLEAN

VARIABLES
    \* the environment
    fd,        \* kernel table: the connection a number denotes, or None
    peer,      \* far end: "unborn", "open", or "shut" when no more input comes
    center,    \* the center accepts connections
    known,     \* sockets whose bind request the center has received
    direct,    \* PDUs are handled on the thread that receives them
    \* the handler and receiver threads
    tpc,       \* program counter, or "failed" when the thread was not created
    tfd,       \* the number the thread serves
    ton,       \* the connection its blocked recv() holds
    \* the registry
    queue,     \* messages to the main thread
    job,       \* the bind a worker has between its DELETE and its INSERT
    device,    \* rows of table "device"
    \* the enquire-link thread
    asked,     \* vEnquireLink: how often each number is in it
    epc,       \* program counter
    todo,      \* entries the drop loop has not reached
    hand,      \* the number its iterator stands on
    elist,     \* rows of the SELECT not yet asked
    \* connectCenter, run by the main thread at start-up and by Enq afterwards
    sockfd,    \* m_nSocketFD of cmpClient
    dpc,       \* program counter
    dial,      \* the socket being connected
    \* history, read by properties only
    tainted    \* numbers some thread has closed that another one served

env  == <<fd, peer, center, known, direct>>
thr  == <<tpc, tfd, ton>>
reg  == <<queue, job, device>>
enq  == <<asked, epc, todo, hand, elist>>
link == <<sockfd, dpc, dial>>
vars == <<env, thr, reg, enq, link, tainted>>

Bind(i)    == [kind |-> "bind", id |-> i]
Plain(k)   == [kind |-> k, id |-> None]
Pdu        == {Bind(i) : i \in Id} \cup {Plain("unbind"), Plain("answer")}
Event      == [fd : FD \cup {None}, src : Conn,
               pdu : Pdu \cup {Plain("disconnect"), Plain("lost")}]
Row        == [id : Id, status : {0, 1}, fd : FD \cup {None}, src : Conn]

TypeOK ==
    /\ fd \in [FD -> Conn \cup {None}]
    /\ peer \in [Conn -> {"unborn", "open", "shut"}]
    /\ center \in BOOLEAN
    /\ known \in SUBSET Link
    /\ direct \in BOOLEAN
    /\ tpc \in [Conn -> {"none", "start", "call", "recv", "insert", "post",
                         "reset", "close", "done", "failed"}]
    /\ tfd \in [Conn -> FD \cup {None}]
    /\ ton \in [Conn -> Conn \cup {None}]
    /\ queue \in Seq(Event)
    /\ job \in [Worker -> Row \cup {None}]
    /\ device \in SUBSET Row
    /\ asked \in [FD -> Nat]
    /\ epc \in {"sleep", "drop", "close", "overrun", "select", "push", "link"}
    /\ todo \in [FD -> Nat]
    /\ hand \in FD \cup {None}
    /\ elist \in SUBSET Row
    /\ sockfd \in FD \cup {None}
    /\ dpc \in [Dialer -> {"idle", "check", "create", "connect", "reset", "bind"}]
    /\ dial \in [Dialer -> Link \cup {None}]
    /\ tainted \in SUBSET FD

Init ==
    /\ fd = [f \in FD |-> None]
    /\ peer = [c \in Conn |-> "unborn"]
    /\ center \in Reachable
    /\ known = {}
    /\ direct \in Direct
    /\ tpc = [c \in Conn |-> "none"]
    /\ tfd = [c \in Conn |-> None]
    /\ ton = [c \in Conn |-> None]
    /\ queue = <<>>
    /\ job = [w \in Worker |-> None]
    /\ device = {}
    /\ asked = [f \in FD |-> 0]
    /\ epc = "sleep"
    /\ todo = [f \in FD |-> 0]
    /\ hand = None
    /\ elist = {}
    /\ sockfd = None
    /\ dpc = [d \in Dialer |-> IF d = Main THEN "create" ELSE "idle"]
    /\ dial = [d \in Dialer |-> None]
    /\ tainted = {}

Live(t) == tpc[t] \notin {"none", "done", "failed"}

Denoted(c) == \E f \in FD : fd[f] = c

\* A system call that was entered on a socket keeps it.
InCall(c) == (\E t \in Conn : ton[t] = c) \/ (\E d \in Dialer : dial[d] = c)

\* A failed dial has closed the number in m_nSocketFD and not yet reset it.
Resetting == \E d \in Dialer : dpc[d] = "reset"

\* Thread u goes by number f, or will when it has read it from m_nSocketFD.
GoesBy(u, f) == Live(u) /\ (tfd[u] = f \/ (tpc[u] = "start" /\ sockfd = f))

\* Somebody other than t still goes by number f.
InUse(f, t) ==
    \/ \E u \in Conn \ {t} : GoesBy(u, f)
    \/ sockfd = f /\ ~Resetting /\ (t \notin Link \/ fd[f] # t)

\* close(f) by t: the number is free at once, the socket behind it goes unless
\* a system call still holds it.
Close(f, t) ==
    LET c    == fd[f]
        gone == c # None /\ ~InCall(c)
    IN  /\ fd' = [fd EXCEPT ![f] = None]
        /\ peer' = IF gone THEN [peer EXCEPT ![c] = "shut"] ELSE peer
        /\ known' = IF gone THEN known \ {c} ELSE known
        /\ tainted' = IF InUse(f, t) THEN tainted \cup {f} ELSE tainted

-----------------------------------------------------------------------------
(***************************************************************************)
(* The environment: clients come and go, the center goes down and comes    *)
(* back, and drops a controller that does not answer its enquiries.        *)
(***************************************************************************)
Accept(c, f) ==
    /\ peer[c] = "unborn"
    /\ fd[f] = None
    /\ fd' = [fd EXCEPT ![f] = c]
    /\ peer' = [peer EXCEPT ![c] = "open"]
    /\ tpc' = [tpc EXCEPT ![c] = "call"]
    /\ tfd' = [tfd EXCEPT ![c] = f]
    /\ UNCHANGED <<center, known, direct, ton, reg, enq, link, tainted>>

ClientStop(c) ==
    /\ peer[c] = "open"
    /\ peer' = [peer EXCEPT ![c] = "shut"]
    /\ UNCHANGED <<fd, center, known, direct, thr, reg, enq, link, tainted>>

CenterDown ==
    /\ center /\ FALSE \in Reachable
    /\ center' = FALSE
    /\ peer' = [c \in Conn |-> IF c \in Link /\ peer[c] = "open" THEN "shut" ELSE peer[c]]
    /\ known' = {}
    /\ UNCHANGED <<fd, direct, thr, reg, enq, link, tainted>>

CenterUp ==
    /\ ~center /\ TRUE \in Reachable
    /\ center' = TRUE
    /\ UNCHANGED <<fd, peer, known, direct, thr, reg, enq, link, tainted>>

\* Receiver t reads the requests on l, and its answer goes out on l: to the
\* number in m_nSocketFD, or in ControllerClient to the one it receives on.
Answers(t, l) ==
    /\ tpc[t] \in {"call", "recv"}
    /\ IF tpc[t] = "recv" THEN ton[t] = l ELSE fd[tfd[t]] = l
    /\ IF direct THEN sockfd # None /\ fd[sockfd] = l ELSE fd[tfd[t]] = l

CenterDrop(l) ==
    /\ l \in known
    /\ peer[l] = "open"
    /\ \A t \in Link : tpc[t] # "start" /\ ~(tfd[t] # None /\ Answers(t, l))
    /\ peer' = [peer EXCEPT ![l] = "shut"]
    /\ known' = known \ {l}
    /\ UNCHANGED <<fd, center, direct, thr, reg, enq, link, tainted>>

(***************************************************************************)
(* The requests that touch the registry, on whichever thread handles them. *)
(* The results of the SQL statements are ignored.                          *)
(***************************************************************************)
\* Mutant: the INSERT alone.
StartBind_NoDelete(w, i, f, c) ==
    /\ job' = [job EXCEPT ![w] = [id |-> i, status |-> 1, fd |-> f, src |-> c]]
    /\ UNCHANGED <<device, asked, epc, todo, hand>>

\* cmpBind up to its DELETE
StartBind(w, i, f, c) ==
    /\ device' = {r \in device : r.id # i}
    /\ job' = [job EXCEPT ![w] = [id |-> i, status |-> 1, fd |-> f, src |-> c]]
    /\ UNCHANGED <<asked, epc, todo, hand>>

\* UPDATE device set status = 0 WHERE socket_fd = f
SetUnbindState(f) ==
    device' = {IF r.fd = f THEN [r EXCEPT !.status = 0] ELSE r : r \in device}

\* Mutant: erase() without looking for the entry first.
AckPacket_Unchecked(f) ==
    /\ asked' = IF f \in FD THEN [asked EXCEPT ![f] = @ - 1] ELSE asked
    /\ UNCHANGED <<device, job, epc, todo, hand>>

\* How many entries a vector has.
Entries(v) == Cardinality(UNION {{f} \X (1 .. v[f]) : f \in FD})

Dropping == epc \in {"drop", "close"}

\* What an erase() means to the drop loop: its iterator and end() are one entry
\* nearer to each other, whichever entry it stands on now; or it was about to
\* leave the vector, and misses the end.
Shift ==
    \/ ~Dropping /\ UNCHANGED <<epc, todo, hand>>
    \/ /\ Dropping /\ Entries(todo) = 0
       /\ epc' = "overrun"
       /\ hand' = None
       /\ UNCHANGED todo
    \/ /\ Dropping /\ Entries(todo) > 0
       /\ hand' \in IF epc = "close" THEN {g \in FD : asked'[g] > 0} ELSE {hand}
       /\ todo' \in {t \in [FD -> 0 .. Entries(todo)] :
                       /\ Entries(t) = Entries(todo) - 1
                       /\ \A g \in FD : t[g] + (IF g = hand' THEN 1 ELSE 0) <= asked'[g]}
       /\ UNCHANGED epc

\* ackPacket erases the first entry with this number.
AckPacket(f) ==
    /\ UNCHANGED <<device, job>>
    /\ IF f \in FD /\ asked[f] > 0
       THEN asked' = [asked EXCEPT ![f] = @ - 1] /\ Shift
       ELSE UNCHANGED <<asked, epc, todo, hand>>

\* The dispatch through cmpRequest and ackPacket, of a PDU that c sent and
\* that was received on number f.
Handle(w, f, pdu, c) ==
    \/ pdu.kind = "bind" /\ StartBind(w, pdu.id, f, c)
    \/ pdu.kind = "unbind" /\ SetUnbindState(f) /\ UNCHANGED <<job, asked, epc, todo, hand>>
    \/ pdu.kind = "answer" /\ AckPacket(f)

FinishBind(w) ==
    /\ job[w] # None
    /\ device' = device \cup {job[w]}
    /\ job' = [job EXCEPT ![w] = None]

(***************************************************************************)
(* A handler thread of a client, and the receiver thread of the link,      *)
(* which learns its number from m_nSocketFD when it starts.                *)
(***************************************************************************)
Post(f, pdu, c) ==
    /\ Len(queue) < MaxQueue
    /\ queue' = Append(queue, [fd |-> f, pdu |-> pdu, src |-> c])

ReceiverStart(l) ==
    /\ tpc[l] = "start"
    /\ tfd' = [tfd EXCEPT ![l] = sockfd]
    /\ tpc' = [tpc EXCEPT ![l] = "call"]
    /\ UNCHANGED <<env, ton, reg, enq, link, tainted>>

HandlerCall(t) ==
    /\ tpc[t] = "call"
    /\ IF tfd[t] = None \/ (tfd[t] # None /\ fd[tfd[t]] = None)
       THEN /\ tpc' = [tpc EXCEPT ![t] = "post"]
            /\ UNCHANGED ton
       ELSE /\ tpc' = [tpc EXCEPT ![t] = "recv"]
            /\ ton' = [ton EXCEPT ![t] = fd[tfd[t]]]
    /\ UNCHANGED <<env, tfd, reg, enq, link, tainted>>

\* The requests of the center touch neither registry nor link.
HandlerReceive(t) ==
    /\ tpc[t] = "recv"
    /\ ton[t] \in Client /\ peer[ton[t]] = "open"
    /\ \E pdu \in Pdu :
         IF direct
         THEN /\ Handle(t, tfd[t], pdu, ton[t])
              /\ tpc' = [tpc EXCEPT ![t] = IF pdu.kind = "bind" THEN "insert" ELSE "call"]
              /\ UNCHANGED queue
         ELSE /\ Post(tfd[t], pdu, ton[t])
              /\ tpc' = [tpc EXCEPT ![t] = "call"]
              /\ UNCHANGED <<job, device, asked, epc, todo, hand>>
    /\ ton' = [ton EXCEPT ![t] = None]
    /\ UNCHANGED <<env, tfd, elist, link, tainted>>

HandlerInsert(t) ==
    /\ tpc[t] = "insert"
    /\ FinishBind(t)
    /\ tpc' = [tpc EXCEPT ![t] = "call"]
    /\ UNCHANGED <<env, tfd, ton, queue, enq, link, tainted>>

\* Mutant: the number closed before the disconnect is posted.
HandlerEnd_CloseFirst(t) ==
    /\ tpc[t] = "recv"
    /\ peer[ton[t]] = "shut"
    /\ tpc' = [tpc EXCEPT ![t] = "post"]
    /\ ton' = [ton EXCEPT ![t] = None]
    /\ fd' = [fd EXCEPT ![tfd[t]] = None]
    /\ UNCHANGED <<peer, center, known, direct, tfd, reg, enq, link, tainted>>

HandlerEnd(t) ==
    /\ tpc[t] = "recv"
    /\ peer[ton[t]] = "shut"
    /\ tpc' = [tpc EXCEPT ![t] = "post"]
    /\ ton' = [ton EXCEPT ![t] = None]
    /\ UNCHANGED <<env, tfd, reg, enq, link, tainted>>

\* Mutant: the close without a word to the main thread.
HandlerPostDisconnect_Silent(t) ==
    /\ tpc[t] = "post"
    /\ tpc' = [tpc EXCEPT ![t] = IF t \in Link THEN "reset" ELSE "close"]
    /\ UNCHANGED <<env, tfd, ton, reg, enq, link, tainted>>

HandlerPostDisconnect(t) ==
    /\ tpc[t] = "post"
    /\ Post(tfd[t], Plain(IF t \in Client THEN "disconnect" ELSE "lost"), t)
    /\ tpc' = [tpc EXCEPT ![t] = IF t \in Link THEN "reset" ELSE "close"]
    /\ UNCHANGED <<env, tfd, ton, job, device, enq, link, tainted>>

\* Mutant: close() in place of socketClose().
HandlerReset_Keep(t) ==
    /\ tpc[t] = "reset"
    /\ tpc' = [tpc EXCEPT ![t] = "close"]
    /\ UNCHANGED <<env, tfd, ton, reg, enq, link, tainted>>

\* socketClose( n ) resets m_nSocketFD when it is n, then closes n.  For a
\* client's thread the field is the listening socket's, which it never serves.
HandlerReset(t) ==
    /\ tpc[t] = "reset"
    /\ tpc' = [tpc EXCEPT ![t] = "close"]
    /\ sockfd' = IF sockfd = tfd[t] THEN None ELSE sockfd
    /\ UNCHANGED <<env, tfd, ton, reg, enq, dpc, dial, tainted>>

\* A receiver's number ends with it; a client's is kept for the properties.
HandlerClose(t) ==
    /\ tpc[t] = "close"
    /\ tpc' = [tpc EXCEPT ![t] = "done"]
    /\ tfd' = IF t \in Link THEN [tfd EXCEPT ![t] = None] ELSE tfd
    /\ IF tfd[t] = None THEN UNCHANGED <<fd, peer, known, tainted>>
                        ELSE Close(tfd[t], t)
    /\ UNCHANGED <<center, direct, ton, reg, enq, link>>

(***************************************************************************)
(* The main thread.                                                        *)
(***************************************************************************)
Dequeue ==
    /\ dpc[Main] = "idle"
    /\ job[Main] = None
    /\ queue # <<>>
    /\ queue' = Tail(queue)

OnDisconnect ==
    /\ Dequeue
    /\ Head(queue).pdu.kind = "disconnect"
    /\ SetUnbindState(Head(queue).fd)
    /\ UNCHANGED <<env, thr, job, enq, link, tainted>>

\* EVENT_COMMAND_CONTROL_CENTER_DISCONNECT is logged.
OnLost ==
    /\ Dequeue
    /\ Head(queue).pdu.kind = "lost"
    /\ UNCHANGED <<env, thr, job, device, enq, link, tainted>>

OnPdu ==
    /\ Dequeue
    /\ Head(queue).pdu \in Pdu
    /\ Handle(Main, Head(queue).fd, Head(queue).pdu, Head(queue).src)
    /\ UNCHANGED <<env, thr, elist, link, tainted>>

MainInsert ==
    /\ FinishBind(Main)
    /\ UNCHANGED <<env, thr, queue, enq, link, tainted>>

(***************************************************************************)
(* The enquire-link thread.                                                *)
(***************************************************************************)
EnqWake ==
    /\ epc = "sleep"
    /\ epc' = IF asked = [f \in FD |-> 0] THEN "select" ELSE "drop"
    /\ todo' = asked
    /\ UNCHANGED <<env, thr, reg, asked, hand, elist, link, tainted>>

\* DELETE FROM device WHERE socket_fd = *it
EnqDelete(f) ==
    /\ epc = "drop"
    /\ todo[f] > 0
    /\ device' = {r \in device : r.fd # f}
    /\ hand' = f
    /\ todo' = [todo EXCEPT ![f] = @ - 1]
    /\ epc' = "close"
    /\ UNCHANGED <<env, thr, queue, job, asked, elist, link, tainted>>

EnqClose ==
    /\ epc = "close"
    /\ Close(hand, None)
    /\ epc' = "drop"
    /\ hand' = None
    /\ UNCHANGED <<center, direct, thr, reg, asked, todo, elist, link>>

\* The loop goes on over whatever the memory behind the vector holds.
EnqOverrun(f) ==
    /\ epc = "overrun"
    /\ device' = {r \in device : r.fd # f}
    /\ Close(f, None)
    /\ UNCHANGED <<center, direct, thr, queue, job, enq, link>>

EnqClear ==
    /\ epc = "drop"
    /\ \A f \in FD : todo[f] = 0
    /\ asked' = [f \in FD |-> 0]
    /\ epc' = "select"
    /\ UNCHANGED <<env, thr, reg, todo, hand, elist, link, tainted>>

EnqSelect ==
    /\ epc = "select"
    /\ elist' = {r \in device : r.status = 1}
    /\ epc' = "push"
    /\ UNCHANGED <<env, thr, reg, asked, todo, hand, link, tainted>>

\* vEnquireLink.push_back and cmpEnquireLinkRequest
EnqPush(r) ==
    /\ epc = "push"
    /\ r \in elist
    /\ asked' = IF r.fd = None THEN asked ELSE [asked EXCEPT ![r.fd] = @ + 1]
    /\ elist' = elist \ {r}
    /\ UNCHANGED <<env, thr, reg, epc, todo, hand, link, tainted>>

EnqLink ==
    /\ epc = "push"
    /\ elist = {}
    /\ epc' = "link"
    /\ dpc' = [dpc EXCEPT ![Enq] = "check"]
    /\ UNCHANGED <<env, thr, reg, asked, todo, hand, elist, sockfd, dial, tainted>>

EnqRest ==
    /\ epc = "link"
    /\ dpc[Enq] = "idle"
    /\ epc' = "sleep"
    /\ UNCHANGED <<env, thr, reg, asked, todo, hand, elist, link, tainted>>

(***************************************************************************)
(* connectCenter and CSocketClient::start, by the main thread before it    *)
(* takes messages and by the enquire-link thread after every round.        *)
(***************************************************************************)
\* The thread sleeps 10 s before its first round: by then the main thread,
\* which creates it just before it connects, has come to connect().
DialCheck ==
    /\ dpc[Enq] = "check"
    /\ dpc[Main] # "create"
    /\ dpc' = [dpc EXCEPT ![Enq] = IF sockfd = None THEN "create" ELSE "idle"]
    /\ UNCHANGED <<env, thr, reg, enq, sockfd, dial, tainted>>

\* createSocket puts the number into m_nSocketFD before connect() is called.
DialCreate(d, l, f) ==
    /\ dpc[d] = "create"
    /\ fd[f] = None
    /\ ~Denoted(l) /\ ~InCall(l) /\ ~Live(l)
    /\ fd' = [fd EXCEPT ![f] = l]
    /\ sockfd' = f
    /\ dial' = [dial EXCEPT ![d] = l]
    /\ dpc' = [dpc EXCEPT ![d] = "connect"]
    /\ peer' = [peer EXCEPT ![l] = "unborn"]
    /\ UNCHANGED <<center, known, direct, thr, reg, enq, tainted>>

\* socket() finds no free number.
DialNoSocket(d) ==
    /\ dpc[d] = "create"
    /\ \A f \in FD : fd[f] # None
    /\ sockfd' = None
    /\ dpc' = [dpc EXCEPT ![d] = "bind"]
    /\ UNCHANGED <<env, thr, reg, enq, dial, tainted>>

\* The results of both createThread calls are ignored.  The message thread,
\* which none of this needs, is never ended: every link leaves one behind.
DialConnected(d) ==
    /\ dpc[d] = "connect"
    /\ center
    /\ peer' = [peer EXCEPT ![dial[d]] = "open"]
    /\ \E failed \in CreateFails :
         tpc' = [tpc EXCEPT ![dial[d]] = IF failed THEN "failed" ELSE "start"]
    /\ dial' = [dial EXCEPT ![d] = None]
    /\ dpc' = [dpc EXCEPT ![d] = "bind"]
    /\ UNCHANGED <<fd, center, known, direct, tfd, ton, reg, enq, sockfd, tainted>>

\* connect() fails: socketClose() closes what m_nSocketFD holds ...
DialRefused(d) ==
    /\ dpc[d] = "connect"
    /\ ~center
    /\ dial' = [dial EXCEPT ![d] = None]
    /\ dpc' = [dpc EXCEPT ![d] = IF sockfd = None THEN "bind" ELSE "reset"]
    /\ fd' = IF sockfd = None THEN fd ELSE [fd EXCEPT ![sockfd] = None]
    /\ tainted' = IF sockfd # None /\ \E u \in Conn : GoesBy(u, sockfd)
                  THEN tainted \cup {sockfd} ELSE tainted
    /\ peer' = [peer EXCEPT ![dial[d]] = "shut"]
    /\ UNCHANGED <<center, known, direct, thr, reg, enq, sockfd>>

\* Mutant: close() in place of socketClose().
DialReset_Keep(d) ==
    /\ dpc[d] = "reset"
    /\ dpc' = [dpc EXCEPT ![d] = "bind"]
    /\ UNCHANGED <<env, thr, reg, enq, sockfd, dial, tainted>>

\* ... and then resets the field, whatever it holds by now.
DialReset(d) ==
    /\ dpc[d] = "reset"
    /\ sockfd' = None
    /\ dpc' = [dpc EXCEPT ![d] = "bind"]
    /\ UNCHANGED <<env, thr, reg, enq, dial, tainted>>

\* Whatever came of start(): cmpBindRequest, on the number m_nSocketFD holds now.
DialBind(d) ==
    /\ dpc[d] = "bind"
    /\ dpc' = [dpc EXCEPT ![d] = "idle"]
    /\ known' = IF sockfd # None /\ fd[sockfd] \in Link /\ peer[fd[sockfd]] = "open"
                THEN known \cup {fd[sockfd]} ELSE known
    /\ UNCHANGED <<fd, peer, center, direct, thr, reg, enq, sockfd, dial, tainted>>

-----------------------------------------------------------------------------
Handler(t) ==
    \/ ReceiverStart(t) \/ HandlerCall(t) \/ HandlerReceive(t) \/ HandlerInsert(t)
    \/ HandlerEnd(t) \/ HandlerPostDisconnect(t) \/ HandlerReset(t) \/ HandlerClose(t)

Dial(d) ==
    \/ \E l \in Link, f \in FD : DialCreate(d, l, f)
    \/ DialNoSocket(d) \/ DialConnected(d) \/ DialRefused(d) \/ DialReset(d)
    \/ DialBind(d)

MainLoop == OnDisconnect \/ OnLost \/ OnPdu \/ MainInsert \/ Dial(Main)

Enquire ==
    \/ EnqWake \/ (\E f \in FD : EnqDelete(f) \/ EnqOverrun(f)) \/ EnqClose \/ EnqClear
    \/ EnqSelect \/ (\E r \in elist : EnqPush(r)) \/ EnqLink \/ EnqRest
    \/ DialCheck \/ Dial(Enq)

Next ==
    \/ \E c \in Client, f \in FD : Accept(c, f)
    \/ \E c \in Client : ClientStop(c)
    \/ CenterDown \/ CenterUp
    \/ \E l \in Link : CenterDrop(l)
    \/ \E t \in Conn : Handler(t)
    \/ MainLoop
    \/ Enquire

\* The controller's threads are scheduled, and a center that is up drops a
\* controller that stays silent; clients and the center's outages are free.
Fairness ==
    /\ WF_vars(MainLoop)
    /\ WF_vars(Enquire)
    /\ \A t \in Conn : WF_vars(Handler(t))
    /\ \A l \in Link : WF_vars(CenterDrop(l))

Spec == Init /\ [][Next]_vars

FairSpec == Spec /\ Fairness

-----------------------------------------------------------------------------
\* In ControllerClient a disconnect takes the bound state only from clients
\* whose connection has ended or been closed, unless a thread that did not serve
\* the number closed it.  Where PDUs are handled directly a client that is given
\* the number can bind before the disconnect is handled, and is unbound by it.
UnbindsOnlyClosed ==
    [][\A r \in device :
         /\ ~direct /\ OnDisconnect
         /\ r.fd = Head(queue).fd /\ r.status = 1 /\ r.fd \notin tainted
         => peer[r.src] = "shut" \/ ~Denoted(r.src)]_vars

\* Binding again replaces the row of an id, whoever held it.  It takes the
\* single thread of ControllerClient: two threads that bind one id at once may
\* both delete before either inserts.
OneRowPerId ==
    ~direct => \A r, s \in device : r.id = s.id => r = s

\* In both programs a bound row outlives its connection only until its
\* disconnect, which waits in the queue, is handled.
StaleRowNoticed ==
    \A r \in device :
        r.status = 1 /\ ~Denoted(r.src) /\ r.fd \notin tainted =>
            \E k \in DOMAIN queue :
                queue[k].fd = r.fd /\ queue[k].pdu = Plain("disconnect")

\* What the controller sends to the center, on the number in m_nSocketFD, never
\* goes to a client, but between the close and the reset of a dial that failed.
LinkDenotesCenter ==
    sockfd # None /\ sockfd \notin tainted => Resetting \/ fd[sockfd] \in Link

\* Link l was connected and has no receiver: pthread_create failed.
Unserved(l) == tpc[l] = "failed" /\ \A d \in Dialer : dial[d] # l

\* Link l is being connected, or its receiver has yet to learn number n from
\* m_nSocketFD, or goes by n and has yet to reset the field.
Keeps(l, n) ==
    \/ \E d \in Dialer : dpc[d] = "connect" /\ dial[d] = l
    \/ tpc[l] = "start"
    \/ tfd[l] = n /\ tpc[l] \in {"call", "recv", "post", "reset"}

\* While m_nSocketFD holds a number the controller does not connect again: so
\* the number denotes a link that somebody will take out of the field, unless
\* its receiver was not created; or a failed dial is about to reset the field,
\* which then holds no link.
LinkHeld ==
    sockfd # None /\ sockfd \notin tainted =>
        IF Resetting
        THEN fd[sockfd] \notin Link
        ELSE \E l \in Link : fd[sockfd] = l /\ (Keeps(l, sockfd) \/ Unserved(l))

\* The controller is bound to the center and answers its enquiries.
Linked == \E l \in known, t \in Link : tfd[t] # None /\ Answers(t, l)

\* m_nSocketFD holds a link without a receiver.
LinkUnserved == sockfd # None /\ \E l \in Link : fd[sockfd] = l /\ Unserved(l)

\* "Control Center Disconnect will reconnect": while the center stays up the
\* controller always gets back to it, if no thread closes another's number and
\* the drop loop does not miss the end of its vector, unless it is left with a
\* link whose receiver was not created: that one it keeps for ever.
LinkRestored ==
    <>[]center /\ [](tainted = {} /\ epc # "overrun")
        => []<>Linked \/ <>[]LinkUnserved
=============================================================================
