---------------------------- MODULE SocketServer ----------------------------
(***************************************************************************)
(* The socket server of a center: how an accepted descriptor reaches a     *)
(* handler thread of its own, and how that thread is joined in the end.    *)
(*                                                                         *)
(*   accept thread   (runSocketAccept) accepts and posts the number;       *)
(*   message thread  (runMessageReceive) starts a thread for an accept     *)
(*                   message, joins the thread of an exit message;         *)
(*   handler threads (threadSMSHandler, runSMSHandler) serve a number.     *)
(*                                                                         *)
(* The number is handed over in the member m_nClientFD under a mutex that  *)
(* smsHandler takes and the new thread releases.  The accept and exit      *)
(* messages share one kernel queue, with one capacity, with the messages   *)
(* for the main thread; msgrcv picks by type.  No thread but its handler   *)
(* closes a number here: the closes of the enquire-link thread are in      *)
(* ControlCenter.                                                          *)
(***************************************************************************)
EXTENDS Naturals, Sequences

CONSTANTS
    FD,          \* descriptor numbers accept() may return
    Conn,        \* TCP connections
    Thread,      \* ids pthread_create may return
    None,        \* no descriptor, connection or thread: the code's -1
    MaxQueue,    \* messages the queue holds before msgsnd blocks
    CreateFails  \* whether pthread_create may fail: a set of BOOLEANs

ASSUME NoneAssumption == None \notin FD \cup Conn \cup Thread
ASSUME QueueAssumption == MaxQueue \in Nat \ {0}
ASSUME CreateAssumption == CreateFails \in SUBSET BOOLEAN

VARIABLES
    fd,        \* kernel table: the connection a number denotes, or None
    accepted,  \* connections accepted so far
    apc, afd,  \* accept thread: program counter, nChildSocketFD
    inq,       \* queued messages of the server's own type
    exq,       \* queued messages for the main thread
    mpc, marg, \* message thread: program counter, nId of its message
    lock,      \* the mutex is held
    clientFD,  \* m_nClientFD
    tpc, tfd   \* handler threads: program counter, nClientFD

kernel == <<fd, accepted>>
acc    == <<apc, afd>>
msg    == <<mpc, marg>>
hand   == <<lock, clientFD>>
thr    == <<tpc, tfd>>
vars   == <<kernel, acc, inq, exq, msg, hand, thr>>

(***************************************************************************)
(* Messages.  One for the main thread carries a number; src is history.    *)
(***************************************************************************)
Accepted(f) == [cmd |-> "accept", id |-> f]
Exit(t)     == [cmd |-> "join", id |-> t]
Internal    == {Accepted(f) : f \in FD} \cup {Exit(t) : t \in Thread}

Said(c, f)  == [kind |-> "receive", fd |-> f, src |-> c]
Gone(c, f)  == [kind |-> "disconnect", fd |-> f, src |-> c]
External    == [kind : {"receive", "disconnect"}, fd : FD, src : Conn]

TypeOK ==
    /\ fd \in [FD -> Conn \cup {None}]
    /\ accepted \in SUBSET Conn
    /\ apc \in {"accept", "post", "sleep"}
    /\ afd \in FD \cup {None}
    /\ inq \in Seq(Internal)
    /\ exq \in Seq(External)
    /\ mpc \in {"recv", "accept", "join"}
    /\ marg \in FD \cup Thread \cup {None}
    /\ lock \in BOOLEAN
    /\ clientFD \in FD \cup {None}
    /\ tpc \in [Thread -> {"free", "start", "serve", "disconnect", "close",
                           "exit", "sleep", "ended"}]
    /\ tfd \in [Thread -> FD \cup {None}]

\* start() has created the accept thread and the message thread.
Init ==
    /\ fd = [f \in FD |-> None]
    /\ accepted = {}
    /\ apc = "accept"
    /\ afd = None
    /\ inq = <<>>
    /\ exq = <<>>
    /\ mpc = "recv"
    /\ marg = None
    /\ lock = FALSE
    /\ clientFD = None
    /\ tpc = [t \in Thread |-> "free"]
    /\ tfd = [t \in Thread |-> None]

\* msgsnd returns: the queue has room, whatever the types of its messages.
Room == Len(inq) + Len(exq) < MaxQueue

(***************************************************************************)
(* The accept thread.                                                      *)
(***************************************************************************)
SocketAccept(c, f) ==
    /\ apc = "accept"
    /\ c \notin accepted
    /\ fd[f] = None
    /\ fd' = [fd EXCEPT ![f] = c]
    /\ accepted' = accepted \cup {c}
    /\ apc' = "post"
    /\ afd' = f
    /\ UNCHANGED <<inq, exq, msg, hand, thr>>

AcceptPost ==
    /\ apc = "post"
    /\ Room
    /\ inq' = Append(inq, Accepted(afd))
    /\ apc' = "accept"
    /\ afd' = None
    /\ UNCHANGED <<kernel, exq, msg, hand, thr>>

\* Mutant: the -1 of a failed accept() posted like a descriptor.
AcceptFail_Posts ==
    /\ apc = "accept"
    /\ apc' = "post"
    /\ UNCHANGED <<kernel, afd, inq, exq, msg, hand, thr>>

AcceptFail ==
    /\ apc = "accept"
    /\ apc' = "sleep"
    /\ UNCHANGED <<kernel, afd, inq, exq, msg, hand, thr>>

AcceptRetry ==
    /\ apc = "sleep"
    /\ apc' = "accept"
    /\ UNCHANGED <<kernel, afd, inq, exq, msg, hand, thr>>

(***************************************************************************)
(* The message thread.                                                     *)
(***************************************************************************)
Receive ==
    /\ mpc = "recv"
    /\ inq # <<>>
    /\ inq' = Tail(inq)
    /\ mpc' = Head(inq).cmd
    /\ marg' = Head(inq).id
    /\ UNCHANGED <<kernel, acc, exq, hand, thr>>

Idle == mpc' = "recv" /\ marg' = None

\* pthread_create, whose failure createThread reports and nobody looks at.
CreateThread ==
    \/ \E t \in Thread :
         /\ tpc[t] = "free"
         /\ tpc' = [tpc EXCEPT ![t] = "start"]
    \/ /\ TRUE \in CreateFails \/ \A t \in Thread : tpc[t] # "free"
       /\ UNCHANGED tpc

\* Mutant: smsHandler without threadLock().
SmsHandler_NoLock ==
    /\ mpc = "accept"
    /\ lock' = TRUE
    /\ clientFD' = marg
    /\ CreateThread
    /\ Idle
    /\ UNCHANGED <<kernel, acc, inq, exq, tfd>>

SmsHandler ==
    /\ mpc = "accept"
    /\ ~ lock
    /\ lock' = TRUE
    /\ clientFD' = marg
    /\ CreateThread
    /\ Idle
    /\ UNCHANGED <<kernel, acc, inq, exq, tfd>>

\* pthread_join returns when the thread has ended; its id is free again.
ThreadJoin ==
    /\ mpc = "join"
    /\ tpc[marg] = "ended"
    /\ tpc' = [tpc EXCEPT ![marg] = "free"]
    /\ tfd' = [tfd EXCEPT ![marg] = None]
    /\ Idle
    /\ UNCHANGED <<kernel, acc, inq, exq, hand>>

(***************************************************************************)
(* A handler thread.                                                       *)
(***************************************************************************)
At(t, from, to) ==
    /\ tpc[t] = from
    /\ tpc' = [tpc EXCEPT ![t] = to]

\* Mutant: the mutex is never released.
ThreadStart_NoUnlock(t) ==
    /\ At(t, "start", "serve")
    /\ tfd' = [tfd EXCEPT ![t] = clientFD]
    /\ UNCHANGED <<kernel, acc, inq, exq, msg, hand>>

\* threadSMSHandler: read m_nClientFD, then unlock.
ThreadStart(t) ==
    /\ At(t, "start", "serve")
    /\ tfd' = [tfd EXCEPT ![t] = clientFD]
    /\ lock' = FALSE
    /\ UNCHANGED <<kernel, acc, inq, exq, msg, clientFD>>

HandlerPost(t) ==
    /\ tpc[t] = "serve"
    /\ Room
    /\ exq' = Append(exq, Said(fd[tfd[t]], tfd[t]))
    /\ UNCHANGED <<kernel, acc, inq, msg, hand, thr>>

\* End of stream, an error or a malformed frame, which a peer may send at
\* any time.
HandlerEnd(t) ==
    /\ At(t, "serve", "disconnect")
    /\ UNCHANGED <<kernel, acc, inq, exq, msg, hand, tfd>>

\* Mutant: m_nEventDisconnect left at -1.
HandlerPostDisconnect_Silent(t) ==
    /\ At(t, "disconnect", "close")
    /\ UNCHANGED <<kernel, acc, inq, exq, msg, hand, tfd>>

HandlerPostDisconnect(t) ==
    /\ At(t, "disconnect", "close")
    /\ Room
    /\ exq' = Append(exq, Gone(fd[tfd[t]], tfd[t]))
    /\ UNCHANGED <<kernel, acc, inq, msg, hand, tfd>>

HandlerClose(t) ==
    /\ At(t, "close", "exit")
    /\ fd' = [fd EXCEPT ![tfd[t]] = None]
    /\ UNCHANGED <<accepted, acc, inq, exq, msg, hand, tfd>>

\* Mutant: the thread ends without its EVENT_COMMAND_THREAD_EXIT.
HandlerPostExit_Silent(t) ==
    /\ At(t, "exit", "sleep")
    /\ UNCHANGED <<kernel, acc, inq, exq, msg, hand, tfd>>

HandlerPostExit(t) ==
    /\ At(t, "exit", "sleep")
    /\ Room
    /\ inq' = Append(inq, Exit(t))
    /\ UNCHANGED <<kernel, acc, exq, msg, hand, tfd>>

\* Mutant: a detached thread, whose id is free as soon as it ends.
ThreadExit_Detached(t) ==
    /\ At(t, "sleep", "free")
    /\ UNCHANGED <<kernel, acc, inq, exq, msg, hand, tfd>>

ThreadExit(t) ==
    /\ At(t, "sleep", "ended")
    /\ UNCHANGED <<kernel, acc, inq, exq, msg, hand, tfd>>

\* The main thread takes its next message.
MainReceive ==
    /\ exq # <<>>
    /\ exq' = Tail(exq)
    /\ UNCHANGED <<kernel, acc, inq, msg, hand, thr>>

MessageThread == Receive \/ SmsHandler \/ ThreadJoin

Handler(t) ==
    \/ ThreadStart(t) \/ HandlerPost(t) \/ HandlerEnd(t)
    \/ HandlerPostDisconnect(t) \/ HandlerClose(t)
    \/ HandlerPostExit(t) \/ ThreadExit(t)

Next ==
    \/ \E c \in Conn, f \in FD : SocketAccept(c, f)
    \/ AcceptPost \/ AcceptFail \/ AcceptRetry
    \/ MessageThread
    \/ \E t \in Thread : Handler(t)
    \/ MainReceive

Spec == Init /\ [][Next]_vars

\* The message thread and the handlers are scheduled.  Nothing is assumed of
\* peers, of accept() or of the main thread.
FairSpec ==
    /\ Spec
    /\ WF_vars(MessageThread)
    /\ \A t \in Thread : WF_vars(Handler(t))

-----------------------------------------------------------------------------
(***************************************************************************)
(* Properties.                                                             *)
(***************************************************************************)

\* Who has number f in hand: the accept thread, a queued message, the message
\* thread, the member m_nClientFD (while the mutex is held), thread t.
ByAccept(f)    == apc = "post" /\ afd = f
ByMessage(f)   == \E k \in DOMAIN inq : inq[k] = Accepted(f)
ByMain(f)      == mpc = "accept" /\ marg = f
ByHand(f)      == lock /\ clientFD = f
Serving(t)     == tpc[t] \in {"serve", "disconnect", "close"}
ByThread(t, f) == Serving(t) /\ tfd[t] = f

\* At most one of them has it, so no connection gets two handlers, and no
\* number is overwritten in m_nClientFD before its thread has read it.
OneClaim ==
    /\ \A f \in FD :
         /\ ByAccept(f) => ~ (ByMessage(f) \/ ByMain(f) \/ ByHand(f))
         /\ ByMessage(f) => ~ (ByMain(f) \/ ByHand(f))
         /\ ByMain(f) => ~ ByHand(f)
         /\ \A t \in Thread : ByThread(t, f) =>
              /\ ~ (ByAccept(f) \/ ByMessage(f) \/ ByMain(f) \/ ByHand(f))
              /\ \A u \in Thread : ByThread(u, f) => u = t
    /\ \A t, u \in Thread : tpc[t] = "start" /\ tpc[u] = "start" => t = u

\* And one of them has every open number: none is accepted and forgotten.
OpenIsClaimed ==
    \A f \in FD : fd[f] # None <=>
        \/ ByAccept(f) \/ ByMessage(f) \/ ByMain(f) \/ ByHand(f)
        \/ \E t \in Thread : ByThread(t, f)

Leaving(t) == tpc[t] \in {"sleep", "ended"}

\* A thread id is joined once, for the thread that posted its exit: an id the
\* kernel has given to another thread is never joined, nor one twice.
JoinOnce ==
    /\ \A k \in DOMAIN inq : inq[k].cmd = "join" =>
         /\ Leaving(inq[k].id)
         /\ \A l \in DOMAIN inq : inq[l] = inq[k] => l = k
         /\ ~ (mpc = "join" /\ marg = inq[k].id)
    /\ mpc = "join" => Leaving(marg)

\* The main thread hears of a connection's end after all its messages, and
\* before any message of the next connection on the same number.
Announced(e, k, l) == \E d \in k .. l : exq[d] = Gone(e.src, e.fd)

DisconnectLast ==
    \A k \in DOMAIN exq :
        /\ fd[exq[k].fd] # exq[k].src => Announced(exq[k], k, Len(exq))
        /\ \A l \in k + 1 .. Len(exq) :
             /\ exq[k].kind = "disconnect" => exq[l].src # exq[k].src
             /\ exq[l].fd = exq[k].fd /\ exq[l].src # exq[k].src
                  => Announced(exq[k], k, l - 1)

(***************************************************************************)
(* The server implements ConnectionService.                                *)
(***************************************************************************)
ServedAt(c, pcs) == \E t \in Thread : tpc[t] \in pcs /\ fd[tfd[t]] = c

Stage(c) ==
    IF c \notin accepted THEN "away"
    ELSE IF \A f \in FD : fd[f] # c THEN "over"
    ELSE IF ServedAt(c, {"serve", "disconnect"}) THEN "served"
    ELSE IF ServedAt(c, {"close"}) THEN "leaving"
    ELSE "waiting"

Service == INSTANCE ConnectionService WITH
    holder <- fd, stage <- [c \in Conn |-> Stage(c)], events <- exq

\* Seen from the main thread, the threads and messages of the server amount to
\* connections served one by one, each with one number until it is over.
ServiceSpec == Service!Spec

\* pthread_create failed: the mutex is held for an open number that no thread
\* has taken or will take.
HandLost ==
    /\ lock
    /\ fd[clientFD] # None
    /\ \A t \in Thread : tpc[t] # "start" /\ ~ ByThread(t, clientFD)

\* The thread has nothing to do, or may not go on.
MessageThreadWaits ==
    \/ mpc = "recv" /\ inq = <<>>
    \/ mpc = "accept" /\ lock
    \/ mpc = "join" /\ tpc[marg] # "ended"

HandlerWaits(t) ==
    \/ tpc[t] \in {"free", "serve", "ended"}
    \/ tpc[t] \in {"disconnect", "exit"} /\ ~ Room

Standstill ==
    /\ exq = <<>>
    /\ apc = "post" => ~ Room
    /\ MessageThreadWaits
    /\ \A t \in Thread : HandlerWaits(t)

\* The threads wait for a mutex that one of them releases, for another to end,
\* and for room in a queue that the one that waits for both has to empty.  When
\* none of them can go on and the main thread has taken what was for it, all is
\* done: no number is on its way, and each thread serves one or has been joined;
\* or pthread_create has failed.
NoOtherStandstill ==
    Standstill =>
        \/ HandLost
        \/ /\ mpc = "recv" /\ inq = <<>> /\ apc # "post"
           /\ \A t \in Thread : tpc[t] \in {"free", "serve"}

\* A connection whose accept message is queued gets its handler, unless a
\* failed pthread_create has stopped the message thread for ever.
AcceptedServed(f) ==
    ByMessage(f) ~> (HandLost \/ \E t \in Thread : ByThread(t, f))

\* A thread that has posted its exit is joined, with the same exception.
ThreadJoined(t) == tpc[t] = "sleep" ~> (HandLost \/ tpc[t] = "free")
=============================================================================
