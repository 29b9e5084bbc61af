--------------------------- MODULE ControlCenter ---------------------------
(***************************************************************************)
(* The session core of ControlCenter: the registry of bound controllers    *)
(* and the enquire-link monitor that drops the dead ones.                   *)
(*                                                                         *)
(* Threads of one server process share the kernel's descriptor table, the  *)
(* SQLite table "controller" and the vector vEnquireLink:                  *)
(*   - one handler thread per accepted connection (runSMSHandler);         *)
(*   - the main thread, which consumes the System V message queue          *)
(*     (CObject::run, onReceiveMessage, onCMP);                            *)
(*   - the enquire-link thread (runEnquireLinkRequest).                    *)
(* A connection is one TCP connection; a descriptor is the number the      *)
(* kernel gives it, which is free again as soon as any thread closes it.   *)
(* Everything the center keeps about a controller is keyed by the number.  *)
(***************************************************************************)
EXTENDS Naturals, Sequences, FiniteSets, SequencesExt

CONSTANTS
    FD,        \* descriptor numbers accept() may return
    Conn,      \* TCP connections; each also names its handler thread
    Id,        \* controller ids carried by bind requests
    None,      \* no descriptor, no connection
    MaxQueue,  \* messages the System V queue holds before msgsnd blocks
    MaxWire,   \* PDUs a peer has on the wire before it waits
    SqlFails   \* the results an SQL statement may have: a set of BOOLEANs

ASSUME NoneAssumption == None \notin FD \cup Conn \cup Id
ASSUME FiniteAssumption == IsFiniteSet(Id)
ASSUME BoundAssumption == MaxQueue \in Nat \ {0} /\ MaxWire \in Nat \ {0}
ASSUME SqlAssumption == SqlFails \in SUBSET BOOLEAN /\ FALSE \in SqlFails

VARIABLES
    \* the environment
    fd,        \* kernel table: the connection a number denotes, or None
    peer,      \* far end: "unborn", "open", "bound" once it has sent its bind
               \* request, "shut" when no more input comes
    owed,      \* enquire-link requests the peer received and has not answered
    wire,      \* PDUs sent by the peer and not yet received
    \* the handler threads
    tpc,       \* program counter of the thread serving a connection
    tfd,       \* nClientFD of that thread
    ton,       \* the connection its blocked recv() holds
    \* the main thread
    queue,     \* messages of type EVENT_FILTER_CONTROL_CENTER
    job,       \* the bind between its DELETE and its INSERT, or None
    table,     \* rows of "controller": id -> socket_fd, or None
    older,     \* insertion order of the rows, the order SELECT returns
    \* the enquire-link thread
    vEnquire,  \* vEnquireLink
    epc,       \* program counter
    eidx,      \* position of its iterator, counted from 1
    elist,     \* listValue, its head being the descriptor in hand
    \* history, read by properties only
    binder,    \* the connection whose bind request wrote the row
    fresh,     \* connections accepted since the last SELECT
    tainted    \* numbers some thread closed that was not their handler

env  == <<fd, peer, owed, wire>>
thr  == <<tpc, tfd, ton>>
main == <<queue, job, table, older, binder>>
enq  == <<vEnquire, epc, eidx, elist>>
hist == <<fresh, tainted>>
vars == <<env, thr, main, enq, hist>>

(***************************************************************************)
(* Messages.  A PDU is a bind request or an enquire-link response; the     *)
(* other requests change none of this state.  A queue entry carries the    *)
(* descriptor number (nId) and no connection: src is history.              *)
(***************************************************************************)
Bind(i)    == [kind |-> "bind", id |-> i]
Answer     == [kind |-> "answer", id |-> None]
Disconnect == [kind |-> "disconnect", id |-> None]
Pdu        == {Bind(i) : i \in Id} \cup {Answer}
Event      == [fd : FD, pdu : Pdu \cup {Disconnect}, src : Conn]
Job        == [id : Id, fd : FD, src : Conn]

TypeOK ==
    /\ fd \in [FD -> Conn \cup {None}]
    /\ peer \in [Conn -> {"unborn", "open", "bound", "shut"}]
    /\ owed \in [Conn -> Nat]
    /\ wire \in [Conn -> Seq(Pdu)]
    /\ tpc \in [Conn -> {"none", "call", "recv", "err", "close", "done"}]
    /\ tfd \in [Conn -> FD \cup {None}]
    /\ ton \in [Conn -> Conn \cup {None}]
    /\ queue \in Seq(Event)
    /\ job \in Job \cup {None}
    /\ table \in [Id -> FD \cup {None}]
    /\ older \in SUBSET (Id \X Id)
    /\ vEnquire \in Seq(FD)
    /\ epc \in {"sleep", "drop", "close", "select", "push", "send"}
    /\ eidx \in Nat \ {0}
    /\ elist \in Seq(FD)
    /\ binder \in [Id -> Conn \cup {None}]
    /\ fresh \in SUBSET Conn
    /\ tainted \in SUBSET FD

Init ==
    /\ fd = [f \in FD |-> None]
    /\ peer = [c \in Conn |-> "unborn"]
    /\ owed = [c \in Conn |-> 0]
    /\ wire = [c \in Conn |-> <<>>]
    /\ tpc = [c \in Conn |-> "none"]
    /\ tfd = [c \in Conn |-> None]
    /\ ton = [c \in Conn |-> None]
    /\ queue = <<>>
    /\ job = None
    /\ table = [i \in Id |-> None]
    /\ older = {}
    /\ vEnquire = <<>>
    /\ epc = "sleep"
    /\ eidx = 1
    /\ elist = <<>>
    /\ binder = [i \in Id |-> None]
    /\ fresh = {}
    /\ tainted = {}

(***************************************************************************)
(* Derived state.                                                          *)
(***************************************************************************)
Rows == {i \in Id : table[i] # None}

RowsOf(f) == {i \in Id : table[i] = f}

\* The kernel keeps a socket while a number denotes it or a recv() is blocked
\* on it; until then its far end sees no end of stream.
Held(c) == (\E f \in FD : fd[f] = c) \/ (\E t \in Conn : ton[t] = c)

Live(t) == tpc[t] \notin {"none", "done"}

Talking(c) == peer[c] \in {"open", "bound"}

(***************************************************************************)
(* The far ends: controllers that bind once, answer each enquiry at most   *)
(* once, and stop (close, vanish, send a malformed frame) at any time.     *)
(***************************************************************************)
Transmit(c, pdu) ==
    /\ Held(c)
    /\ Len(wire[c]) < MaxWire
    /\ wire' = [wire EXCEPT ![c] = Append(@, pdu)]

PeerBind(c, i) ==
    /\ peer[c] = "open"
    /\ Transmit(c, Bind(i))
    /\ peer' = [peer EXCEPT ![c] = "bound"]
    /\ UNCHANGED <<fd, owed, thr, main, enq, hist>>

PeerAnswer(c) ==
    /\ Talking(c)
    /\ owed[c] > 0
    /\ Transmit(c, Answer)
    /\ owed' = [owed EXCEPT ![c] = @ - 1]
    /\ UNCHANGED <<fd, peer, thr, main, enq, hist>>

PeerStop(c) ==
    /\ Talking(c)
    /\ Held(c)
    /\ peer' = [peer EXCEPT ![c] = "shut"]
    /\ owed' = [owed EXCEPT ![c] = 0]
    /\ UNCHANGED <<fd, wire, thr, main, enq, hist>>

(***************************************************************************)
(* Accepting: accept() returns a free number and the message thread        *)
(* starts its handler (the hand-over itself is module SocketServer).       *)
(***************************************************************************)
\* Mutant: the hand-over lost, the thread serves the number of another accept.
Accept_OtherNumber(c, f) ==
    /\ peer[c] = "unborn"
    /\ fd[f] = None
    /\ fd' = [fd EXCEPT ![f] = c]
    /\ peer' = [peer EXCEPT ![c] = "open"]
    /\ tpc' = [tpc EXCEPT ![c] = "call"]
    /\ \E g \in FD : tfd' = [tfd EXCEPT ![c] = g]
    /\ fresh' = fresh \cup {c}
    /\ UNCHANGED <<owed, wire, ton, main, enq, tainted>>

Accept(c, f) ==
    /\ peer[c] = "unborn"
    /\ fd[f] = None
    /\ fd' = [fd EXCEPT ![f] = c]
    /\ peer' = [peer EXCEPT ![c] = "open"]
    /\ tpc' = [tpc EXCEPT ![c] = "call"]
    /\ tfd' = [tfd EXCEPT ![c] = f]
    /\ fresh' = fresh \cup {c}
    /\ UNCHANGED <<owed, wire, ton, main, enq, tainted>>

(***************************************************************************)
(* close(f) by any thread: the number is free at once.  The socket behind   *)
(* it goes, with what it buffered, unless a recv() still holds it.          *)
(***************************************************************************)
Close(f) ==
    LET c    == fd[f]
        gone == c # None /\ \A t \in Conn : ton[t] # c
    IN  /\ fd' = [fd EXCEPT ![f] = None]
        /\ fresh' = fresh \ {c}
        /\ IF gone
           THEN /\ peer' = [peer EXCEPT ![c] = "shut"]
                /\ owed' = [owed EXCEPT ![c] = 0]
                /\ wire' = [wire EXCEPT ![c] = <<>>]
           ELSE UNCHANGED <<peer, owed, wire>>

(***************************************************************************)
(* A handler thread: recv, post to the queue, and on end of stream or      *)
(* error post the disconnect, close the number, exit.                      *)
(***************************************************************************)
\* Mutant: nFD posted without its else branch, so uninitialized.
Post_AnyNumber(f, pdu, c) ==
    /\ Len(queue) < MaxQueue
    /\ \E g \in FD : queue' = Append(queue, [fd |-> g, pdu |-> pdu, src |-> c])

Post(f, pdu, c) ==
    /\ Len(queue) < MaxQueue
    /\ queue' = Append(queue, [fd |-> f, pdu |-> pdu, src |-> c])

\* Entering recv(): the kernel looks the number up once, here.
HandlerCall(t) ==
    /\ tpc[t] = "call"
    /\ ton' = [ton EXCEPT ![t] = fd[tfd[t]]]
    /\ tpc' = [tpc EXCEPT ![t] = IF fd[tfd[t]] = None THEN "err" ELSE "recv"]
    /\ UNCHANGED <<env, tfd, main, enq, hist>>

HandlerReceive(t) ==
    /\ tpc[t] = "recv"
    /\ wire[ton[t]] # <<>>
    /\ Post(tfd[t], Head(wire[ton[t]]), ton[t])
    /\ wire' = [wire EXCEPT ![ton[t]] = Tail(@)]
    /\ tpc' = [tpc EXCEPT ![t] = "call"]
    /\ ton' = [ton EXCEPT ![t] = None]
    /\ UNCHANGED <<fd, peer, owed, tfd, job, table, older, binder, enq, hist>>

HandlerEnd(t) ==
    /\ tpc[t] = "recv"
    /\ wire[ton[t]] = <<>>
    /\ peer[ton[t]] = "shut"
    /\ tpc' = [tpc EXCEPT ![t] = "err"]
    /\ ton' = [ton EXCEPT ![t] = None]
    /\ UNCHANGED <<env, tfd, main, enq, hist>>

HandlerPostDisconnect(t) ==
    /\ tpc[t] = "err"
    /\ Post(tfd[t], Disconnect, t)
    /\ tpc' = [tpc EXCEPT ![t] = "close"]
    /\ UNCHANGED <<env, tfd, ton, job, table, older, binder, enq, hist>>

HandlerClose(t) ==
    /\ tpc[t] = "close"
    /\ Close(tfd[t])
    /\ tpc' = [tpc EXCEPT ![t] = "done"]
    /\ tainted' = IF \E u \in Conn \ {t} : Live(u) /\ tfd[u] = tfd[t]
                  THEN tainted ELSE tainted \ {tfd[t]}
    /\ UNCHANGED <<tfd, ton, main, enq>>

(***************************************************************************)
(* SQL on the table "controller".                                          *)
(***************************************************************************)
DeleteRows(gone) ==
    /\ table' = [i \in Id |-> IF i \in gone THEN None ELSE table[i]]
    /\ binder' = [i \in Id |-> IF i \in gone THEN None ELSE binder[i]]
    /\ older' = {p \in older : p[1] \notin gone /\ p[2] \notin gone}

InsertRow(i, f, c) ==
    /\ table' = [table EXCEPT ![i] = f]
    /\ binder' = [binder EXCEPT ![i] = c]
    /\ older' = older \cup ((Rows \ {i}) \X {i})

NoSql == UNCHANGED <<table, binder, older>>

(***************************************************************************)
(* The main thread.                                                        *)
(***************************************************************************)
Dequeue(kind) ==
    /\ job = None
    /\ queue # <<>>
    /\ Head(queue).pdu.kind = kind
    /\ queue' = Tail(queue)

\* onReceiveMessage, CLIENT_DISCONNECT: the event is logged, nothing else.
OnDisconnect ==
    /\ Dequeue("disconnect")
    /\ UNCHANGED <<env, thr, job, table, older, binder, enq, hist>>

\* Mutant: pop_back() in place of erase( it ).
AckPacket_PopBack ==
    /\ Dequeue("answer")
    /\ vEnquire' = IF \E k \in DOMAIN vEnquire : vEnquire[k] = Head(queue).fd
                   THEN Front(vEnquire) ELSE vEnquire
    /\ UNCHANGED <<env, thr, job, table, older, binder, epc, eidx, elist, hist>>

\* ackPacket, enquire_link_response: the first entry with this number goes.
AckPacket ==
    /\ Dequeue("answer")
    /\ vEnquire' = RemoveFirst(vEnquire, Head(queue).fd)
    /\ UNCHANGED <<env, thr, job, table, older, binder, epc, eidx, elist, hist>>

\* cmpBind up to its DELETE; when that fails the bind is refused.
BindDelete ==
    /\ Dequeue("bind")
    /\ LET e == Head(queue) IN
       \E failed \in SqlFails :
         IF failed
         THEN job' = None /\ NoSql
         ELSE /\ DeleteRows({e.pdu.id})
              /\ job' = [id |-> e.pdu.id, fd |-> e.fd, src |-> e.src]
    /\ UNCHANGED <<env, thr, enq, hist>>

\* cmpBind from its INSERT; when that fails the id is left without a row.
BindInsert ==
    /\ job # None
    /\ job' = None
    /\ \E failed \in SqlFails :
         IF failed THEN NoSql ELSE InsertRow(job.id, job.fd, job.src)
    /\ UNCHANGED <<env, thr, queue, enq, hist>>

\* History: f is no longer closed by its handler alone.
Taint(f) ==
    tainted' = IF \E t \in Conn : Live(t) /\ tfd[t] = f
               THEN tainted \cup {f} ELSE tainted

(***************************************************************************)
(* The enquire-link thread.                                                *)
(***************************************************************************)
\* Mutant: the vector cleared before it is looked at.
EnqWake_ClearFirst ==
    /\ epc = "sleep"
    /\ epc' = "select"
    /\ eidx' = 1
    /\ vEnquire' = <<>>
    /\ UNCHANGED <<env, thr, main, elist, hist>>

\* Mutant: the iterator starts one position before begin().
EnqWake_OffByOne ==
    /\ epc = "sleep"
    /\ epc' = IF vEnquire = <<>> THEN "select" ELSE "drop"
    /\ eidx' = 0
    /\ UNCHANGED <<env, thr, main, vEnquire, elist, hist>>

EnqWake ==
    /\ epc = "sleep"
    /\ epc' = IF vEnquire = <<>> THEN "select" ELSE "drop"
    /\ eidx' = 1
    /\ UNCHANGED <<env, thr, main, vEnquire, elist, hist>>

\* DELETE FROM controller WHERE socket_fd = *it
EnqDelete ==
    /\ epc = "drop"
    /\ eidx <= Len(vEnquire)
    /\ \E failed \in SqlFails :
         IF failed THEN NoSql ELSE DeleteRows(RowsOf(vEnquire[eidx]))
    /\ epc' = "close"
    /\ UNCHANGED <<env, thr, queue, job, vEnquire, eidx, elist, hist>>

\* close(*it), the iterator being read again; then ++it
EnqClose ==
    /\ epc = "close"
    /\ eidx <= Len(vEnquire)
    /\ Close(vEnquire[eidx])
    /\ Taint(vEnquire[eidx])
    /\ eidx' = eidx + 1
    /\ epc' = "drop"
    /\ UNCHANGED <<thr, main, vEnquire, elist>>

\* it == end(), then vEnquireLink.clear()
EnqClear ==
    /\ epc = "drop"
    /\ eidx = Len(vEnquire) + 1
    /\ vEnquire' = <<>>
    /\ eidx' = 1
    /\ epc' = "select"
    /\ UNCHANGED <<env, thr, main, elist, hist>>

\* getBindSocket: the rows in the order they were inserted, or as many of them
\* as a SELECT that fails has returned.
EnqSelect ==
    /\ epc = "select"
    /\ \E s \in [1 .. Cardinality(Rows) -> Rows], failed \in SqlFails :
         /\ \A j, k \in DOMAIN s : j < k => <<s[j], s[k]>> \in older
         /\ \E n \in IF failed THEN 0 .. Cardinality(Rows) ELSE {Cardinality(Rows)} :
              elist' = [k \in 1 .. n |-> table[s[k]]]
    /\ epc' = "push"
    /\ fresh' = {}
    /\ UNCHANGED <<env, thr, main, vEnquire, eidx, tainted>>

\* Mutant: a number whose request cannot be sent is not watched.
EnqPush_OnlyOpen ==
    /\ epc = "push"
    /\ elist # <<>>
    /\ vEnquire' = IF fd[Head(elist)] = None THEN vEnquire
                   ELSE Append(vEnquire, Head(elist))
    /\ epc' = "send"
    /\ UNCHANGED <<env, thr, main, eidx, elist, hist>>

EnqPush ==
    /\ epc = "push"
    /\ elist # <<>>
    /\ vEnquire' = Append(vEnquire, Head(elist))
    /\ epc' = "send"
    /\ UNCHANGED <<env, thr, main, eidx, elist, hist>>

\* cmpEnquireLinkRequest: a closed number makes send() fail, a stopped peer
\* never reads the request.
EnqSend ==
    /\ epc = "send"
    /\ elist # <<>>
    /\ LET c == fd[Head(elist)] IN
       owed' = IF c = None THEN owed
               ELSE [owed EXCEPT ![c] = IF Talking(c) THEN @ + 1 ELSE @]
    /\ elist' = Tail(elist)
    /\ epc' = "push"
    /\ UNCHANGED <<fd, peer, wire, thr, main, vEnquire, eidx, hist>>

EnqRest ==
    /\ epc = "push"
    /\ elist = <<>>
    /\ epc' = "sleep"
    /\ UNCHANGED <<env, thr, main, vEnquire, eidx, elist, hist>>

\* erase() by the main thread moved end() past the iterator.
Overrun ==
    \/ epc = "drop" /\ eidx > Len(vEnquire) + 1
    \/ epc = "close" /\ eidx > Len(vEnquire)

\* The loop goes on over whatever the memory behind the vector holds.
EnqOverrun(f) ==
    /\ Overrun
    /\ DeleteRows(RowsOf(f))
    /\ Close(f)
    /\ Taint(f)
    /\ UNCHANGED <<thr, queue, job, enq>>

(***************************************************************************)
(* The process dies (a fault, a signal) and the parent starts it again:    *)
(* the kernel closes its descriptors, the parent removes the queue, the    *)
(* new process drops and creates the table.  A DROP that fails goes        *)
(* unnoticed and leaves the rows.                                          *)
(***************************************************************************)
Restart ==
    /\ fd' = [f \in FD |-> None]
    /\ peer' = [c \in Conn |-> IF peer[c] = "unborn" THEN "unborn" ELSE "shut"]
    /\ owed' = [c \in Conn |-> 0]
    /\ wire' = [c \in Conn |-> <<>>]
    /\ tpc' = [c \in Conn |-> IF tpc[c] = "none" THEN "none" ELSE "done"]
    /\ ton' = [c \in Conn |-> None]
    /\ queue' = <<>>
    /\ job' = None
    /\ \E failed \in SqlFails : IF failed THEN NoSql ELSE DeleteRows(Id)
    /\ vEnquire' = <<>>
    /\ epc' = "sleep"
    /\ eidx' = 1
    /\ elist' = <<>>
    /\ fresh' = {}
    /\ tainted' = {}
    /\ UNCHANGED tfd

Enquire ==
    \/ EnqWake \/ EnqDelete \/ EnqClose \/ EnqClear \/ EnqSelect
    \/ EnqPush \/ EnqSend \/ EnqRest

MainLoop == OnDisconnect \/ AckPacket \/ BindDelete \/ BindInsert

Handler(t) ==
    \/ HandlerCall(t) \/ HandlerReceive(t) \/ HandlerEnd(t)
    \/ HandlerPostDisconnect(t) \/ HandlerClose(t)

Next ==
    \/ \E c \in Conn, i \in Id : PeerBind(c, i)
    \/ \E c \in Conn : PeerAnswer(c) \/ PeerStop(c)
    \/ \E c \in Conn, f \in FD : Accept(c, f)
    \/ \E t \in Conn : Handler(t)
    \/ MainLoop
    \/ Enquire
    \/ \E f \in FD : EnqOverrun(f)
    \/ Restart

\* The center's threads are scheduled and an overrun ends in a fault; nothing
\* is assumed of the peers, of accept() or of a spontaneous crash.
Fairness ==
    /\ WF_vars(Enquire)
    /\ WF_vars(MainLoop)
    /\ \A t \in Conn : WF_vars(Handler(t))
    /\ WF_vars(Overrun /\ Restart)

Spec == Init /\ [][Next]_vars

FairSpec == Spec /\ Fairness

-----------------------------------------------------------------------------
(***************************************************************************)
(* Properties.                                                             *)
(***************************************************************************)

\* The peer was asked at least once more than the main thread has heard it
\* answer: requests unanswered, answers on the wire, answers in the queue.
Owing(c) ==
    \/ owed[c] > 0
    \/ \E k \in DOMAIN wire[c] : wire[c][k] = Answer
    \/ \E k \in DOMAIN queue : queue[k].src = c /\ queue[k].pdu = Answer

\* Every message in the queue carries the number its connection was accepted
\* under, whichever thread received it, so a reply or a row made from it
\* denotes that connection or one accepted after it was closed.
EventOrigin ==
    \A k \in DOMAIN queue : queue[k].fd = tfd[queue[k].src]

\* A command for id i, which cmpPowerPort sends to the number in row i,
\* reaches the connection that bound i, or that connection has been closed.
RouteToBinder ==
    \A i \in Rows :
        \/ fd[table[i]] = binder[i]
        \/ \A f \in FD : fd[f] # binder[i]

\* While no thread but its handler has closed a number, that number has one
\* handler thread, serving the connection the number denotes.
OneHandlerPerDescriptor ==
    \A t \in Conn : Live(t) /\ tfd[t] \notin tainted => fd[tfd[t]] = t

\* The drop loop closes number f, inside its vector or beyond it.
DropCloses(f) == (EnqClose /\ f = vEnquire[eidx]) \/ EnqOverrun(f)

\* The drop loop closes a connection that was open when the round began only
\* if it still owes an answer, or has stopped, or once the loop has run past
\* the end of its vector: from then on it may close any.  It comes to that only
\* when the main thread takes an answer while the loop runs.
DropOnlyOwing ==
    [][/\ \A f \in FD :
            DropCloses(f) /\ fd[f] # None /\ fd[f] \notin fresh
              => Owing(fd[f]) \/ peer[fd[f]] = "shut" \/ Overrun
       /\ Overrun' /\ ~Overrun => AckPacket]_vars

\* A row whose descriptor stays closed is removed.
DeadRowRemoved(i, f) ==
    (table[i] = f /\ fd[f] = None) ~> (table[i] # f \/ fd[f] # None)

\* A bound connection that stays bound keeps answering: one that falls
\* silent is dropped.
SilentDropped(i, c) ==
    <>[](table[i] # None /\ fd[table[i]] = c /\ binder[i] = c)
      => []<>(queue # <<>> /\ Head(queue).src = c /\ Head(queue).pdu = Answer)

\* "Close socket that doesn't deliver enquire link response within 10 seconds"
\* (the comment above the drop loop): no other connection is closed by it.
\* It does not hold, even of a loop that stays inside its vector: see run
\* center_closes_answering.
ClosesOnlySilent ==
    [][\A f \in FD :
         EnqClose /\ f = vEnquire[eidx] /\ fd[f] # None
           => Owing(fd[f]) \/ peer[fd[f]] = "shut"]_vars
=============================================================================
