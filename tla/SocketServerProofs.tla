------------------------- MODULE SocketServerProofs -------------------------
(***************************************************************************)
(* Theorems about SocketServer, for all sets of numbers, connections and   *)
(* threads, any capacity, failing or sound pthread_create: the hand-over   *)
(* gives every open number to exactly one holder, thread ids are joined    *)
(* once, and the server implements ConnectionService.                      *)
(***************************************************************************)
EXTENDS SocketServer, SequenceTheorems, TLAPS

USE NoneAssumption, QueueAssumption, CreateAssumption

-----------------------------------------------------------------------------
(***************************************************************************)
(* The internal queue as a set of distinct messages.                       *)
(***************************************************************************)
In(s, m) == \E k \in DOMAIN s : s[k] = m

Distinct(s) == \A k, l \in DOMAIN s : s[k] = s[l] => k = l

\* A message posted is in the queue next to those that were, once if it was new.
LEMMA InAppend ==
    ASSUME NEW S, NEW s \in Seq(S), NEW e \in S
    PROVE  /\ \A m : In(Append(s, e), m) <=> In(s, m) \/ m = e
           /\ Distinct(s) /\ ~ In(s, e) => Distinct(Append(s, e))
<1>1. /\ Len(s) \in Nat
      /\ DOMAIN s = 1 .. Len(s)
      /\ DOMAIN Append(s, e) = 1 .. Len(s) + 1
      /\ \A k \in 1 .. Len(s) : Append(s, e)[k] = s[k]
      /\ Append(s, e)[Len(s) + 1] = e
  BY AppendProperties, LenProperties
<1>2. \A m : In(Append(s, e), m) <=> In(s, m) \/ m = e
  BY <1>1 DEF In
<1>3. Distinct(s) /\ ~ In(s, e) => Distinct(Append(s, e))
  BY <1>1 DEF In, Distinct
<1> QED
  BY <1>2, <1>3

\* The message received leaves a queue of distinct messages for good.
LEMMA InTail ==
    ASSUME NEW S, NEW s \in Seq(S), s # <<>>, Distinct(s)
    PROVE  /\ In(s, Head(s))
           /\ \A m : In(Tail(s), m) <=> In(s, m) /\ m # Head(s)
           /\ Distinct(Tail(s))
<1>1. /\ Len(s) \in Nat \ {0}
      /\ DOMAIN s = 1 .. Len(s)
      /\ DOMAIN Tail(s) = 1 .. Len(s) - 1
      /\ \A k \in 1 .. Len(s) - 1 : Tail(s)[k] = s[k + 1]
      /\ Head(s) = s[1]
  BY HeadTailProperties, LenProperties, EmptySeq
<1>2. In(s, Head(s))
  BY <1>1 DEF In
<1>3. ASSUME NEW m, In(Tail(s), m)
      PROVE  In(s, m) /\ m # Head(s)
  <2>1. PICK k \in 1 .. Len(s) - 1 : s[k + 1] = m
    BY <1>1, <1>3 DEF In
  <2>2. k + 1 \in 1 .. Len(s) /\ k + 1 # 1 /\ 1 \in 1 .. Len(s)
    BY <1>1
  <2> QED
    BY <1>1, <2>1, <2>2 DEF In, Distinct
<1>4. ASSUME NEW m, In(s, m), m # Head(s)
      PROVE  In(Tail(s), m)
  <2>1. PICK k \in 1 .. Len(s) : s[k] = m
    BY <1>1, <1>4 DEF In
  <2>2. k - 1 \in 1 .. Len(s) - 1 /\ (k - 1) + 1 = k
    BY <1>1, <1>4, <2>1
  <2>3. Tail(s)[k - 1] = s[(k - 1) + 1]
    BY <1>1, <2>2
  <2> QED
    BY <1>1, <2>1, <2>2, <2>3 DEF In
<1>5. Distinct(Tail(s))
  BY <1>1 DEF Distinct
<1> QED
  BY <1>2, <1>3, <1>4, <1>5

\* The two kinds of messages are told apart by their command, each by its id.
LEMMA MessageKinds ==
    /\ \A f \in FD : Accepted(f) \in Internal
    /\ \A t \in Thread : Exit(t) \in Internal
    /\ \A f, t : Accepted(f) # Exit(t)
    /\ \A f, g : Accepted(f) = Accepted(g) => f = g
    /\ \A t, u : Exit(t) = Exit(u) => t = u
<1>1. \A f : Accepted(f).cmd = "accept" /\ Accepted(f).id = f
  BY DEF Accepted
<1>2. \A t : Exit(t).cmd = "join" /\ Exit(t).id = t
  BY DEF Exit
<1>3. \A f, t : Accepted(f) # Exit(t)
  <2>1. "accept" # "join"
    OBVIOUS
  <2> QED
    BY <1>1, <1>2, <2>1
<1>4. /\ \A f, g : Accepted(f) = Accepted(g) => f = g
      /\ \A t, u : Exit(t) = Exit(u) => t = u
  BY <1>1, <1>2
<1> QED
  BY <1>3, <1>4 DEF Internal

-----------------------------------------------------------------------------
(***************************************************************************)
(* The inductive invariant.                                                *)
(***************************************************************************)

\* Program counters and the variables they make meaningful.
Shape ==
    /\ apc = "post" => afd \in FD
    /\ mpc = "accept" => marg \in FD
    /\ mpc = "join" => marg \in Thread
    /\ lock => clientFD \in FD
    /\ \A t \in Thread : /\ tpc[t] = "start" => lock
                         /\ Serving(t) => tfd[t] \in FD

\* An exit message, queued or in the message thread's hand, is about a thread
\* that is leaving, and there is one of it.
ExitInv ==
    \A t \in Thread :
        /\ In(inq, Exit(t)) => Leaving(t) /\ ~ (mpc = "join" /\ marg = t)
        /\ mpc = "join" /\ marg = t => Leaving(t)

\* A connection has at most one number, from its accept on.
KernelInv ==
    /\ \A f \in FD : fd[f] # None => fd[f] \in accepted
    /\ \A f, g \in FD : fd[f] # None /\ fd[f] = fd[g] => f = g

HandInv ==
    /\ TypeOK
    /\ Shape
    /\ Distinct(inq)
    /\ OneClaim
    /\ OpenIsClaimed
    /\ ExitInv
    /\ KernelInv

LEMMA HandInit == Init => HandInv
<1> SUFFICES ASSUME Init PROVE HandInv
  OBVIOUS
<1>1. DOMAIN inq = {} /\ inq \in Seq(Internal) /\ exq \in Seq(External)
  BY EmptySeq DEF Init
<1>2. TypeOK
  BY <1>1 DEF Init, TypeOK
<1> QED
  BY <1>1, <1>2 DEF Init, HandInv, Shape, Distinct, OneClaim, OpenIsClaimed,
     ExitInv, KernelInv, ByAccept, ByMessage, ByMain, ByHand, ByThread,
     Serving, In

\* Every step keeps the types and the shape of the program counters.
LEMMA HandType == HandInv /\ [Next]_vars => TypeOK' /\ Shape'
<1> SUFFICES ASSUME HandInv, [Next]_vars
             PROVE  TypeOK' /\ Shape'
  OBVIOUS
<1>0. TypeOK /\ Shape /\ OpenIsClaimed
  BY DEF HandInv
<1> USE <1>0
<1> USE DEF kernel, acc, msg, hand, thr, Serving, Idle, At
<1>1. ASSUME NEW c \in Conn, NEW f \in FD, SocketAccept(c, f)
      PROVE  TypeOK' /\ Shape'
  BY <1>1 DEF TypeOK, Shape, SocketAccept
<1>2. CASE AcceptPost
  <2>1. inq' \in Seq(Internal)
    BY <1>2, MessageKinds, AppendProperties DEF TypeOK, Shape, AcceptPost
  <2> QED
    BY <1>2, <2>1 DEF TypeOK, Shape, AcceptPost
<1>3. CASE AcceptFail \/ AcceptRetry
  BY <1>3 DEF TypeOK, Shape, AcceptFail, AcceptRetry
<1>4. CASE Receive
  <2>1. inq' \in Seq(Internal) /\ Head(inq) \in Internal
    BY <1>4, HeadTailProperties DEF TypeOK, Receive
  <2>2. CASE \E f \in FD : Head(inq) = Accepted(f)
    BY <1>4, <2>1, <2>2 DEF TypeOK, Shape, Receive, Accepted
  <2>3. CASE \E t \in Thread : Head(inq) = Exit(t)
    BY <1>4, <2>1, <2>3 DEF TypeOK, Shape, Receive, Exit
  <2> QED
    BY <2>1, <2>2, <2>3 DEF Internal
<1>5. CASE SmsHandler
  <2>1. CASE \E t \in Thread : tpc[t] = "free" /\ tpc' = [tpc EXCEPT ![t] = "start"]
    BY <1>5, <2>1 DEF TypeOK, Shape, SmsHandler
  <2>2. CASE UNCHANGED tpc
    BY <1>5, <2>2 DEF TypeOK, Shape, SmsHandler
  <2> QED
    BY <1>5, <2>1, <2>2 DEF SmsHandler, CreateThread
<1>6. CASE ThreadJoin
  BY <1>6 DEF TypeOK, Shape, ThreadJoin
<1>7. ASSUME NEW t \in Thread, Handler(t)
      PROVE  TypeOK' /\ Shape'
  <2>1. CASE ThreadStart(t)
    <3>1. tpc[t] = "start" /\ lock /\ clientFD \in FD
      BY <2>1 DEF Shape, ThreadStart
    <3>2. \A u \in Thread : tpc[u] = "start" => u = t
      BY <3>1 DEF HandInv, OneClaim
    <3> QED
      BY <2>1, <3>1, <3>2 DEF TypeOK, Shape, ThreadStart
  <2>2. ASSUME tpc[t] \in {"serve", "disconnect"}
        PROVE  /\ Said(fd[tfd[t]], tfd[t]) \in External
               /\ Gone(fd[tfd[t]], tfd[t]) \in External
    <3>1. tfd[t] \in FD
      BY <2>2 DEF Shape
    <3>2. ByThread(t, tfd[t])
      BY <2>2 DEF ByThread
    <3>3. fd[tfd[t]] # None
      BY <3>1, <3>2 DEF OpenIsClaimed
    <3>4. fd[tfd[t]] \in Conn
      BY <3>1, <3>3 DEF TypeOK
    <3> QED
      BY <3>1, <3>4 DEF External, Said, Gone
  <2>3. CASE HandlerPost(t)
    <3>1. exq' \in Seq(External)
      BY <2>2, <2>3, AppendProperties DEF TypeOK, HandlerPost
    <3> QED
      BY <2>3, <3>1 DEF TypeOK, Shape, HandlerPost
  <2>4. CASE HandlerEnd(t)
    BY <2>4 DEF TypeOK, Shape, HandlerEnd
  <2>5. CASE HandlerPostDisconnect(t)
    <3>1. exq' \in Seq(External)
      BY <2>2, <2>5, AppendProperties DEF TypeOK, HandlerPostDisconnect
    <3> QED
      BY <2>5, <3>1 DEF TypeOK, Shape, HandlerPostDisconnect
  <2>6. CASE HandlerClose(t)
    BY <2>6 DEF TypeOK, Shape, HandlerClose
  <2>7. CASE HandlerPostExit(t)
    <3>1. inq' \in Seq(Internal)
      BY <2>7, MessageKinds, AppendProperties DEF TypeOK, HandlerPostExit
    <3> QED
      BY <2>7, <3>1 DEF TypeOK, Shape, HandlerPostExit
  <2>8. CASE ThreadExit(t)
    BY <2>8 DEF TypeOK, Shape, ThreadExit
  <2> QED
    BY <1>7, <2>1, <2>3, <2>4, <2>5, <2>6, <2>7, <2>8 DEF Handler
<1>8. CASE MainReceive
  BY <1>8, HeadTailProperties DEF TypeOK, Shape, MainReceive
<1>9. CASE UNCHANGED vars
  BY <1>9 DEF TypeOK, Shape, vars
<1> QED
  BY <1>1, <1>2, <1>3, <1>4, <1>5, <1>6, <1>7, <1>8, <1>9
     DEF Next, MessageThread

\* What a posted or a received message does to the claims by message.
LEMMA Posted ==
    ASSUME TypeOK, NEW e \in Internal, inq' = Append(inq, e)
    PROVE  /\ \A m : In(inq, m)' <=> In(inq, m) \/ m = e
           /\ \A f : ByMessage(f)' <=> ByMessage(f) \/ Accepted(f) = e
           /\ Distinct(inq) /\ ~ In(inq, e) => Distinct(inq)'
<1>1. /\ \A m : In(Append(inq, e), m) <=> In(inq, m) \/ m = e
      /\ Distinct(inq) /\ ~ In(inq, e) => Distinct(Append(inq, e))
  BY InAppend DEF TypeOK
<1>2. \A m : In(inq', m) <=> In(inq, m) \/ m = e
  BY <1>1
<1>3. \A f : ByMessage(f) <=> In(inq, Accepted(f))
  BY DEF ByMessage, In
<1>4. \A f : ByMessage(f)' <=> In(inq', Accepted(f))
  BY DEF ByMessage, In
<1>5. \A f : ByMessage(f)' <=> ByMessage(f) \/ Accepted(f) = e
  BY <1>2, <1>3, <1>4
<1>6. \A m : In(inq, m)' <=> In(inq, m) \/ m = e
  BY <1>2
<1>7. Distinct(inq) /\ ~ In(inq, e) => Distinct(inq)'
  BY <1>1
<1> QED
  BY <1>5, <1>6, <1>7

LEMMA Received ==
    ASSUME TypeOK, Distinct(inq), inq # <<>>, inq' = Tail(inq)
    PROVE  /\ Head(inq) \in Internal
           /\ In(inq, Head(inq))
           /\ \A m : In(inq, m)' <=> In(inq, m) /\ m # Head(inq)
           /\ \A f : ByMessage(f) <=> In(inq, Accepted(f))
           /\ \A f : ByMessage(f)' <=> ByMessage(f) /\ Accepted(f) # Head(inq)
           /\ Distinct(inq)'
<1>1. /\ In(inq, Head(inq))
      /\ \A m : In(Tail(inq), m) <=> In(inq, m) /\ m # Head(inq)
      /\ Distinct(Tail(inq))
  BY InTail DEF TypeOK
<1>2. \A m : In(inq', m) <=> In(inq, m) /\ m # Head(inq)
  BY <1>1
<1>3. \A f : ByMessage(f) <=> In(inq, Accepted(f))
  BY DEF ByMessage, In
<1>4. \A f : ByMessage(f)' <=> In(inq', Accepted(f))
  BY DEF ByMessage, In
<1>5. \A f : ByMessage(f)' <=> ByMessage(f) /\ Accepted(f) # Head(inq)
  BY <1>2, <1>3, <1>4
<1>6. \A m : In(inq, m)' <=> In(inq, m) /\ m # Head(inq)
  BY <1>2
<1>7. Distinct(inq)'
  BY <1>1
<1>8. Head(inq) \in Internal
  BY HeadTailProperties DEF TypeOK
<1> QED
  BY <1>1, <1>3, <1>5, <1>6, <1>7, <1>8

LEMMA Unposted ==
    ASSUME UNCHANGED inq
    PROVE  /\ \A m : In(inq, m)' <=> In(inq, m)
           /\ \A f : ByMessage(f)' <=> ByMessage(f)
           /\ Distinct(inq)' <=> Distinct(inq)
  BY DEF In, ByMessage, Distinct

Rest == Distinct(inq) /\ OneClaim /\ OpenIsClaimed /\ ExitInv /\ KernelInv

\* The number moves from holder to holder, and an exit message is posted and
\* received once.
LEMMA HandRest == HandInv /\ [Next]_vars => Rest'
<1> SUFFICES ASSUME HandInv, [Next]_vars
             PROVE  Rest'
  OBVIOUS
<1>0. /\ TypeOK /\ Shape /\ Distinct(inq) /\ OneClaim
      /\ OpenIsClaimed /\ ExitInv /\ KernelInv
  BY DEF HandInv
<1> USE <1>0
<1> USE DEF kernel, acc, msg, hand, thr, Serving, Leaving, Idle, At, Rest,
            ByAccept, ByMain, ByHand, ByThread
<1>1. ASSUME NEW c \in Conn, NEW f \in FD, SocketAccept(c, f)
      PROVE  Rest'
  <2>1. UNCHANGED <<inq, mpc, marg, lock, clientFD, tpc, tfd>>
    BY <1>1 DEF SocketAccept
  <2>2. KernelInv'
    BY <1>1 DEF TypeOK, KernelInv, SocketAccept
  <2>3. ExitInv'
    BY <2>1, Unposted DEF ExitInv
  <2>4. OneClaim'
    BY <1>1, <2>1, Unposted DEF TypeOK, OneClaim, OpenIsClaimed, SocketAccept
  <2>5. OpenIsClaimed'
    BY <1>1, <2>1, Unposted DEF TypeOK, OpenIsClaimed, SocketAccept
  <2> QED
    BY <2>1, <2>2, <2>3, <2>4, <2>5, Unposted
<1>2. CASE AcceptPost
  <2>1. /\ UNCHANGED <<fd, accepted, mpc, marg, lock, clientFD, tpc, tfd>>
        /\ apc = "post" /\ apc' = "accept" /\ afd \in FD
        /\ inq' = Append(inq, Accepted(afd))
    BY <1>2 DEF AcceptPost, Shape
  <2>2. Accepted(afd) \in Internal
    BY <2>1, MessageKinds
  <2>3. /\ \A f : ByMessage(f)' <=> ByMessage(f) \/ f = afd
        /\ \A t : In(inq, Exit(t))' <=> In(inq, Exit(t))
    BY <2>1, <2>2, Posted, MessageKinds
  <2>4. ~ In(inq, Accepted(afd))
    <3>1. ~ ByMessage(afd)
      BY <2>1 DEF OneClaim
    <3> QED
      BY <3>1 DEF ByMessage, In
  <2>5. Distinct(inq)'
    BY <2>1, <2>2, <2>4, Posted
  <2>6. KernelInv' /\ ExitInv'
    BY <2>1, <2>3 DEF KernelInv, ExitInv
  <2>7. OneClaim'
    BY <2>1, <2>3 DEF OneClaim
  <2>8. OpenIsClaimed'
    BY <2>1, <2>3 DEF OpenIsClaimed
  <2> QED
    BY <2>5, <2>6, <2>7, <2>8
<1>3. CASE AcceptFail \/ AcceptRetry
  <2>1. /\ UNCHANGED <<fd, accepted, inq, mpc, marg, lock, clientFD, tpc, tfd>>
        /\ apc # "post" /\ apc' # "post"
    BY <1>3 DEF AcceptFail, AcceptRetry
  <2>2. KernelInv' /\ ExitInv'
    BY <2>1, Unposted DEF KernelInv, ExitInv
  <2>3. OneClaim' /\ OpenIsClaimed'
    BY <2>1, Unposted DEF OneClaim, OpenIsClaimed
  <2> QED
    BY <2>1, <2>2, <2>3, Unposted
<1>4. CASE Receive
  <2>1. /\ UNCHANGED <<fd, accepted, apc, afd, lock, clientFD, tpc, tfd>>
        /\ mpc = "recv" /\ inq # <<>> /\ inq' = Tail(inq)
        /\ mpc' = Head(inq).cmd /\ marg' = Head(inq).id
    BY <1>4 DEF Receive
  <2>2. /\ Head(inq) \in Internal
        /\ In(inq, Head(inq))
        /\ \A m : In(inq, m)' <=> In(inq, m) /\ m # Head(inq)
        /\ \A f : ByMessage(f) <=> In(inq, Accepted(f))
        /\ \A f : ByMessage(f)' <=> ByMessage(f) /\ Accepted(f) # Head(inq)
        /\ Distinct(inq)'
    BY <2>1, Received
  <2>3. KernelInv'
    BY <2>1 DEF KernelInv
  <2>4. ASSUME NEW f \in FD, Head(inq) = Accepted(f)
        PROVE  OneClaim' /\ OpenIsClaimed' /\ ExitInv'
    <3>1. mpc' = "accept" /\ marg' = f
      BY <2>1, <2>4 DEF Accepted
    <3>2. /\ ByMessage(f)
          /\ \A g : ByMessage(g)' <=> ByMessage(g) /\ g # f
          /\ \A t : In(inq, Exit(t))' <=> In(inq, Exit(t))
      BY <2>2, <2>4, MessageKinds
    <3>3. OneClaim'
      BY <2>1, <3>1, <3>2 DEF OneClaim
    <3>4. OpenIsClaimed'
      BY <2>1, <3>1, <3>2 DEF OpenIsClaimed
    <3>5. ExitInv'
      BY <2>1, <3>1, <3>2 DEF ExitInv
    <3> QED
      BY <3>3, <3>4, <3>5
  <2>5. ASSUME NEW t \in Thread, Head(inq) = Exit(t)
        PROVE  OneClaim' /\ OpenIsClaimed' /\ ExitInv'
    <3>1. mpc' = "join" /\ marg' = t
      BY <2>1, <2>5 DEF Exit
    <3>2. /\ In(inq, Exit(t))
          /\ \A g : ByMessage(g)' <=> ByMessage(g)
          /\ \A u : In(inq, Exit(u))' <=> In(inq, Exit(u)) /\ u # t
      BY <2>2, <2>5, MessageKinds
    <3>3. OneClaim'
      BY <2>1, <3>1, <3>2 DEF OneClaim
    <3>4. OpenIsClaimed'
      BY <2>1, <3>1, <3>2 DEF OpenIsClaimed
    <3>5. ExitInv'
      BY <2>1, <3>1, <3>2 DEF ExitInv
    <3> QED
      BY <3>3, <3>4, <3>5
  <2> QED
    BY <2>2, <2>3, <2>4, <2>5 DEF Internal
<1>5. CASE SmsHandler
  <2>1. /\ UNCHANGED <<fd, accepted, apc, afd, inq, tfd>>
        /\ mpc = "accept" /\ ~ lock /\ lock' /\ clientFD' = marg
        /\ mpc' = "recv" /\ marg \in FD
    BY <1>5 DEF Shape, SmsHandler
  <2>2. \A t \in Thread : tpc[t] # "start"
    BY <2>1 DEF Shape
  <2>3. /\ \A t \in Thread : tpc'[t] \in {tpc[t], "start"}
        /\ \A t \in Thread : tpc'[t] = "start" => tpc[t] = "free"
        /\ \A t, u \in Thread : tpc'[t] = "start" /\ tpc'[u] = "start" => t = u
    BY <1>5, <2>2 DEF TypeOK, SmsHandler, CreateThread
  <2>4. KernelInv' /\ ExitInv'
    BY <2>1, <2>3, Unposted DEF KernelInv, ExitInv
  <2>5. \A t \in Thread : \A f : ByThread(t, f)' <=> ByThread(t, f)
    BY <2>1, <2>3
  <2>6. OneClaim'
    BY <2>1, <2>3, <2>5, Unposted DEF OneClaim
  <2>7. OpenIsClaimed'
    BY <2>1, <2>5, Unposted DEF OpenIsClaimed
  <2> QED
    BY <2>1, <2>4, <2>6, <2>7, Unposted
<1>6. CASE ThreadJoin
  <2>1. /\ UNCHANGED <<fd, accepted, apc, afd, inq, lock, clientFD>>
        /\ mpc = "join" /\ mpc' = "recv" /\ marg \in Thread
        /\ tpc[marg] = "ended"
        /\ tpc' = [tpc EXCEPT ![marg] = "free"]
        /\ tfd' = [tfd EXCEPT ![marg] = None]
    BY <1>6 DEF Shape, ThreadJoin
  <2>2. KernelInv'
    BY <2>1 DEF KernelInv
  <2>3. ExitInv'
    BY <2>1, Unposted DEF TypeOK, ExitInv
  <2>4. \A t \in Thread : \A f : ByThread(t, f)' <=> ByThread(t, f)
    BY <2>1 DEF TypeOK
  <2>5. OneClaim'
    BY <2>1, <2>4, Unposted DEF TypeOK, OneClaim
  <2>6. OpenIsClaimed'
    BY <2>1, <2>4, Unposted DEF OpenIsClaimed
  <2> QED
    BY <2>1, <2>2, <2>3, <2>5, <2>6, Unposted
<1>7. ASSUME NEW t \in Thread, ThreadStart(t)
      PROVE  Rest'
  <2>1. /\ UNCHANGED <<fd, accepted, apc, afd, inq, mpc, marg, clientFD>>
        /\ tpc[t] = "start" /\ lock /\ ~ lock' /\ clientFD \in FD
        /\ tpc' = [tpc EXCEPT ![t] = "serve"]
        /\ tfd' = [tfd EXCEPT ![t] = clientFD]
    BY <1>7 DEF Shape, ThreadStart
  <2>2. KernelInv'
    BY <2>1 DEF KernelInv
  <2>3. ExitInv'
    BY <2>1, Unposted DEF TypeOK, ExitInv
  <2>4. \A u \in Thread : \A f : ByThread(u, f)' <=>
          ByThread(u, f) \/ (u = t /\ f = clientFD)
    BY <2>1 DEF TypeOK
  <2>5. OneClaim'
    BY <2>1, <2>4, Unposted DEF TypeOK, OneClaim
  <2>6. OpenIsClaimed'
    BY <2>1, <2>4, Unposted DEF OpenIsClaimed
  <2> QED
    BY <2>1, <2>2, <2>3, <2>5, <2>6, Unposted
<1>8. ASSUME NEW t \in Thread,
             HandlerPost(t) \/ HandlerEnd(t) \/ HandlerPostDisconnect(t)
      PROVE  Rest'
  <2>1. /\ UNCHANGED <<fd, accepted, apc, afd, inq, mpc, marg, lock, clientFD, tfd>>
        /\ \A u \in Thread : Serving(u)' <=> Serving(u)
        /\ \A u \in Thread : Leaving(u)' <=> Leaving(u)
        /\ \A u \in Thread : tpc'[u] = "start" <=> tpc[u] = "start"
    BY <1>8 DEF TypeOK, HandlerPost, HandlerEnd, HandlerPostDisconnect
  <2>2. \A u \in Thread : \A f : ByThread(u, f)' <=> ByThread(u, f)
    BY <2>1
  <2>3. KernelInv' /\ ExitInv'
    BY <2>1, Unposted DEF KernelInv, ExitInv
  <2>4. OneClaim' /\ OpenIsClaimed'
    BY <2>1, <2>2, Unposted DEF OneClaim, OpenIsClaimed
  <2> QED
    BY <2>1, <2>3, <2>4, Unposted
<1>9. ASSUME NEW t \in Thread, HandlerClose(t)
      PROVE  Rest'
  <2>1. /\ UNCHANGED <<accepted, apc, afd, inq, mpc, marg, lock, clientFD, tfd>>
        /\ tpc[t] = "close" /\ tpc' = [tpc EXCEPT ![t] = "exit"]
        /\ fd' = [fd EXCEPT ![tfd[t]] = None] /\ tfd[t] \in FD
    BY <1>9 DEF Shape, HandlerClose
  <2>2. KernelInv'
    BY <2>1 DEF TypeOK, KernelInv
  <2>3. ExitInv'
    BY <2>1, Unposted DEF TypeOK, ExitInv
  <2>4. \A u \in Thread : \A f : ByThread(u, f)' <=> ByThread(u, f) /\ u # t
    BY <2>1 DEF TypeOK
  <2>5. OneClaim'
    BY <2>1, <2>4, Unposted DEF TypeOK, OneClaim
  <2>6. ByThread(t, tfd[t])
    BY <2>1
  <2>7. OpenIsClaimed'
    BY <2>1, <2>4, <2>6, Unposted DEF TypeOK, OneClaim, OpenIsClaimed
  <2> QED
    BY <2>1, <2>2, <2>3, <2>5, <2>7, Unposted
<1>10. ASSUME NEW t \in Thread, HandlerPostExit(t)
       PROVE  Rest'
  <2>1. /\ UNCHANGED <<fd, accepted, apc, afd, mpc, marg, lock, clientFD, tfd>>
        /\ tpc[t] = "exit" /\ tpc' = [tpc EXCEPT ![t] = "sleep"]
        /\ inq' = Append(inq, Exit(t))
    BY <1>10 DEF HandlerPostExit
  <2>2. Exit(t) \in Internal
    BY MessageKinds
  <2>3. /\ \A f : ByMessage(f)' <=> ByMessage(f)
        /\ \A u : In(inq, Exit(u))' <=> In(inq, Exit(u)) \/ u = t
    BY <2>1, <2>2, Posted, MessageKinds
  <2>4. ~ In(inq, Exit(t)) /\ ~ (mpc = "join" /\ marg = t)
    BY <2>1 DEF ExitInv
  <2>5. Distinct(inq)'
    BY <2>1, <2>2, <2>4, Posted
  <2>6. KernelInv'
    BY <2>1 DEF KernelInv
  <2>7. ExitInv'
    BY <2>1, <2>3, <2>4 DEF TypeOK, ExitInv
  <2>8. \A u \in Thread : \A f : ByThread(u, f)' <=> ByThread(u, f)
    BY <2>1 DEF TypeOK
  <2>9. OneClaim'
    BY <2>1, <2>3, <2>8 DEF TypeOK, OneClaim
  <2>10. OpenIsClaimed'
    BY <2>1, <2>3, <2>8 DEF OpenIsClaimed
  <2> QED
    BY <2>5, <2>6, <2>7, <2>9, <2>10
<1>11. ASSUME NEW t \in Thread, ThreadExit(t)
       PROVE  Rest'
  <2>1. /\ UNCHANGED <<fd, accepted, apc, afd, inq, mpc, marg, lock, clientFD, tfd>>
        /\ tpc[t] = "sleep" /\ tpc' = [tpc EXCEPT ![t] = "ended"]
    BY <1>11 DEF ThreadExit
  <2>2. \A u \in Thread : \A f : ByThread(u, f)' <=> ByThread(u, f)
    BY <2>1 DEF TypeOK
  <2>3. KernelInv' /\ ExitInv'
    BY <2>1, Unposted DEF TypeOK, KernelInv, ExitInv
  <2>4. OneClaim' /\ OpenIsClaimed'
    BY <2>1, <2>2, Unposted DEF TypeOK, OneClaim, OpenIsClaimed
  <2> QED
    BY <2>1, <2>3, <2>4, Unposted
<1>12. CASE MainReceive \/ UNCHANGED vars
  <2>1. UNCHANGED <<fd, accepted, apc, afd, inq, mpc, marg, lock, clientFD, tpc, tfd>>
    BY <1>12 DEF MainReceive, vars
  <2>2. KernelInv' /\ ExitInv'
    BY <2>1, Unposted DEF KernelInv, ExitInv
  <2>3. OneClaim' /\ OpenIsClaimed'
    BY <2>1, Unposted DEF OneClaim, OpenIsClaimed
  <2> QED
    BY <2>1, <2>2, <2>3, Unposted
<1> QED
  BY <1>1, <1>2, <1>3, <1>4, <1>5, <1>6, <1>7, <1>8, <1>9, <1>10, <1>11, <1>12
     DEF Next, MessageThread, Handler

LEMMA HandInductive == Spec => []HandInv
<1>1. HandInv /\ [Next]_vars => HandInv'
  BY HandType, HandRest DEF HandInv, Rest
<1> QED
  BY <1>1, HandInit, PTL DEF Spec

\* The server's state keeps its types.
THEOREM ServerTypeCorrect == Spec => []TypeOK
<1>1. HandInv => TypeOK
  BY DEF HandInv
<1> QED
  BY <1>1, HandInductive, PTL

\* No number has two holders: m_nClientFD is never overwritten before its
\* thread has read it, and no connection gets two handlers.
THEOREM OneClaimHolds == Spec => []OneClaim
<1>1. HandInv => OneClaim
  BY DEF HandInv
<1> QED
  BY <1>1, HandInductive, PTL

\* No accepted number is forgotten, and none in hand is closed.
THEOREM OpenIsClaimedHolds == Spec => []OpenIsClaimed
<1>1. HandInv => OpenIsClaimed
  BY DEF HandInv
<1> QED
  BY <1>1, HandInductive, PTL

\* Thread ids are joined once, by the message their own thread posted.
THEOREM JoinOnceHolds == Spec => []JoinOnce
<1>1. HandInv => JoinOnce
  <2> SUFFICES ASSUME HandInv
               PROVE  JoinOnce
    OBVIOUS
  <2>0. TypeOK /\ Shape /\ Distinct(inq) /\ ExitInv
    BY DEF HandInv
  <2>1. ASSUME NEW k \in DOMAIN inq, inq[k].cmd = "join"
        PROVE  /\ Leaving(inq[k].id)
               /\ ~ (mpc = "join" /\ marg = inq[k].id)
    <3>1. inq[k] \in Internal
      BY <2>0, ElementOfSeq, LenProperties DEF TypeOK
    <3>2. PICK t \in Thread : inq[k] = Exit(t)
      BY <2>1, <3>1 DEF Internal, Accepted
    <3>3. In(inq, Exit(t)) /\ inq[k].id = t
      BY <3>2 DEF In, Exit
    <3> QED
      BY <2>0, <3>3 DEF ExitInv
  <2>2. mpc = "join" => Leaving(marg)
    BY <2>0 DEF Shape, ExitInv
  <2> QED
    BY <2>0, <2>1, <2>2 DEF JoinOnce, Distinct
<1> QED
  BY <1>1, HandInductive, PTL

-----------------------------------------------------------------------------
(***************************************************************************)
(* The server implements ConnectionService.                                *)
(***************************************************************************)

\* A serving thread's connection is one, accepted, and its own.
LEMMA ServedIsOpen ==
    ASSUME HandInv, NEW t \in Thread, Serving(t)
    PROVE  /\ tfd[t] \in FD /\ fd[tfd[t]] \in Conn
           /\ fd[tfd[t]] \in accepted
           /\ \A u \in Thread : Serving(u) /\ fd[tfd[u]] = fd[tfd[t]] => u = t
<1>1. \A u \in Thread : Serving(u) => tfd[u] \in FD /\ fd[tfd[u]] # None
  BY DEF HandInv, Shape, OpenIsClaimed, ByThread
<1>2. /\ \A f \in FD : fd[f] # None => fd[f] \in accepted /\ fd[f] \in Conn
      /\ \A f, g \in FD : fd[f] # None /\ fd[f] = fd[g] => f = g
  BY DEF HandInv, KernelInv, TypeOK
<1>3. \A u \in Thread : Serving(u) /\ tfd[u] = tfd[t] => u = t
  BY <1>1 DEF HandInv, OneClaim, ByThread
<1> QED
  BY <1>1, <1>2, <1>3

\* The stage of a connection, from the number it has and the thread it has.
StageFacts ==
    \A c \in Conn :
        /\ c \notin accepted => Stage(c) = "away"
        /\ \A f \in FD : fd[f] = c =>
             /\ (\A t \in Thread : ~ ByThread(t, f)) => Stage(c) = "waiting"
             /\ \A t \in Thread : ByThread(t, f) =>
                  Stage(c) = IF tpc[t] = "close" THEN "leaving" ELSE "served"
        /\ c \in accepted /\ (\A f \in FD : fd[f] # c) => Stage(c) = "over"

LEMMA StageOf == HandInv => StageFacts
<1> SUFFICES ASSUME HandInv, NEW c \in Conn
             PROVE
        /\ c \notin accepted => Stage(c) = "away"
        /\ \A f \in FD : fd[f] = c =>
             /\ (\A t \in Thread : ~ ByThread(t, f)) => Stage(c) = "waiting"
             /\ \A t \in Thread : ByThread(t, f) =>
                  Stage(c) = IF tpc[t] = "close" THEN "leaving" ELSE "served"
        /\ c \in accepted /\ (\A f \in FD : fd[f] # c) => Stage(c) = "over"
  BY DEF StageFacts
<1>1. c # None
  OBVIOUS
<1>2. ASSUME NEW f \in FD, fd[f] = c
      PROVE  c \in accepted
  BY <1>1, <1>2 DEF HandInv, KernelInv
<1>3. ASSUME NEW f \in FD, fd[f] = c, NEW t \in Thread, Serving(t),
             fd[tfd[t]] = c
      PROVE  ByThread(t, f)
  <2>1. tfd[t] \in FD
    BY <1>3, ServedIsOpen
  <2> QED
    BY <1>1, <1>3, <2>1 DEF HandInv, KernelInv, ByThread
<1>4. ASSUME NEW f \in FD, fd[f] = c, \A t \in Thread : ~ ByThread(t, f)
      PROVE  Stage(c) = "waiting"
  <2>1. ~ ServedAt(c, {"serve", "disconnect"}) /\ ~ ServedAt(c, {"close"})
    BY <1>3, <1>4 DEF ServedAt, Serving
  <2> QED
    BY <1>2, <1>4, <2>1 DEF Stage
<1>5. ASSUME NEW f \in FD, fd[f] = c, NEW t \in Thread, ByThread(t, f)
      PROVE  Stage(c) = IF tpc[t] = "close" THEN "leaving" ELSE "served"
  <2>1. Serving(t) /\ fd[tfd[t]] = c
    BY <1>5 DEF ByThread
  <2>2. \A u \in Thread : Serving(u) /\ fd[tfd[u]] = c => u = t
    BY <2>1, ServedIsOpen
  <2>3. CASE tpc[t] = "close"
    <3>1. ~ ServedAt(c, {"serve", "disconnect"}) /\ ServedAt(c, {"close"})
      BY <2>1, <2>2, <2>3 DEF ServedAt, Serving
    <3> QED
      BY <1>2, <1>5, <2>3, <3>1 DEF Stage
  <2>4. CASE tpc[t] # "close"
    <3>1. ServedAt(c, {"serve", "disconnect"})
      BY <2>1, <2>4 DEF ServedAt, Serving
    <3> QED
      BY <1>2, <1>5, <2>4, <3>1 DEF Stage
  <2> QED
    BY <2>3, <2>4
<1> QED
  BY <1>4, <1>5 DEF Stage

\* A step that leaves a connection's number and its thread alone leaves its
\* stage alone.
LEMMA SameStage ==
    ASSUME StageFacts, StageFacts', NEW d \in Conn, None \notin Conn,
           d \in accepted' <=> d \in accepted,
           \A f \in FD : fd'[f] = d <=> fd[f] = d,
           \A f \in FD, t \in Thread : fd[f] = d =>
              /\ ByThread(t, f)' <=> ByThread(t, f)
              /\ ByThread(t, f) => (tpc'[t] = "close" <=> tpc[t] = "close")
    PROVE  Stage(d)' = Stage(d)
<1>1. CASE \E f \in FD : fd[f] = d
  <2>1. PICK f \in FD : fd[f] = d /\ fd'[f] = d
    BY <1>1
  <2>2. CASE \E t \in Thread : ByThread(t, f)
    BY <2>1, <2>2 DEF StageFacts
  <2>3. CASE \A t \in Thread : ~ ByThread(t, f)
    BY <2>1, <2>3 DEF StageFacts
  <2> QED
    BY <2>2, <2>3
<1>2. CASE \A f \in FD : fd[f] # d
  BY <1>2 DEF StageFacts
<1> QED
  BY <1>1, <1>2

\* Each step of the server is a step of the service or leaves it alone.
LEMMA ServiceStep == HandInv /\ HandInv' /\ [Next]_vars => [Service!Next]_(Service!vars)
<1> SUFFICES ASSUME HandInv, HandInv', [Next]_vars
             PROVE  [Service!Next]_(Service!vars)
  OBVIOUS
<1> DEFINE stage == [c \in Conn |-> Stage(c)]
<1>0. /\ TypeOK /\ Shape /\ OneClaim /\ OpenIsClaimed /\ KernelInv
  BY DEF HandInv
<1>a. StageFacts /\ StageFacts'
  BY StageOf, PTL
<1>b. \A f \in FD : fd[f] \in Conn \cup {None}
  BY <1>0 DEF TypeOK
<1> USE DEF kernel, acc, msg, hand, thr, Idle, At
<1>1. ASSUME NEW c \in Conn, NEW f \in FD, SocketAccept(c, f)
      PROVE  Service!Accept(c, f)
  <2>1. /\ c \notin accepted /\ fd[f] = None /\ fd' = [fd EXCEPT ![f] = c]
        /\ accepted' = accepted \cup {c} /\ UNCHANGED <<exq, tpc, tfd>>
    BY <1>1 DEF SocketAccept
  <2>2. Stage(c) = "away"
    BY <1>a, <2>1 DEF StageFacts
  <2>3. Stage(c)' = "waiting"
    <3>1. fd'[f] = c
      BY <1>0, <2>1 DEF TypeOK
    <3>2. \A t \in Thread : ~ ByThread(t, f)'
      BY <1>0, <2>1 DEF OpenIsClaimed, ByThread, Serving
    <3> QED
      BY <1>a, <3>1, <3>2 DEF StageFacts
  <2>4. ASSUME NEW d \in Conn, d # c
        PROVE  Stage(d)' = Stage(d)
    <3>1. \A g \in FD : fd'[g] = d <=> fd[g] = d
      BY <1>0, <2>1, <2>4 DEF TypeOK
    <3>2. \A g, t : /\ ByThread(t, g)' <=> ByThread(t, g)
                    /\ tpc'[t] = tpc[t]
      BY <2>1 DEF ByThread, Serving
    <3> QED
      BY <1>a, <2>1, <2>4, <3>1, <3>2, SameStage
  <2>5. stage' = [stage EXCEPT ![c] = "waiting"]
    BY <2>3, <2>4
  <2> QED
    BY <2>1, <2>2, <2>5 DEF Service!Accept, Service!Move
<1>2. ASSUME NEW t \in Thread, NEW f \in FD, NEW c \in Conn,
             ThreadStart(t), f = clientFD, c = fd[f]
      PROVE  Service!Serve(c)
  <2>1. /\ tpc[t] = "start" /\ lock
        /\ tpc' = [tpc EXCEPT ![t] = "serve"]
        /\ tfd' = [tfd EXCEPT ![t] = f]
        /\ UNCHANGED <<fd, accepted, exq>>
    BY <1>0, <1>2 DEF Shape, ThreadStart
  <2>2. \A u \in Thread : ~ ByThread(u, f)
    BY <1>0, <1>2, <2>1 DEF OneClaim, ByHand
  <2>3. \A u \in Thread : \A g : ByThread(u, g)' <=>
          ByThread(u, g) \/ (u = t /\ g = f)
    BY <1>0, <2>1 DEF TypeOK, ByThread, Serving
  <2>4. Stage(c) = "waiting"
    BY <1>a, <1>2, <2>2 DEF StageFacts
  <2>5. Stage(c)' = "served"
    <3>1. ByThread(t, f)' /\ tpc'[t] = "serve" /\ fd'[f] = c
      BY <1>0, <1>2, <2>1, <2>3 DEF TypeOK
    <3> QED
      BY <1>a, <3>1 DEF StageFacts
  <2>6. ASSUME NEW d \in Conn, d # c
        PROVE  Stage(d)' = Stage(d)
    <3>1. \A g \in FD, u \in Thread : fd[g] = d =>
            /\ ByThread(u, g)' <=> ByThread(u, g)
            /\ tpc'[u] = "close" <=> tpc[u] = "close"
      BY <1>0, <1>2, <2>1, <2>3, <2>6 DEF TypeOK
    <3> QED
      BY <1>a, <2>1, <2>6, <3>1, SameStage
  <2>7. stage' = [stage EXCEPT ![c] = "served"]
    BY <2>5, <2>6
  <2> QED
    BY <2>1, <2>2, <2>4, <2>7 DEF Service!Serve, Service!Move
<1>3. ASSUME NEW t \in Thread, HandlerPost(t)
      PROVE  Service!Say(fd[tfd[t]], tfd[t])
  <2>1. /\ tpc[t] = "serve" /\ UNCHANGED <<fd, accepted, tpc, tfd>>
        /\ exq' = Append(exq, Said(fd[tfd[t]], tfd[t]))
    BY <1>3 DEF HandlerPost
  <2>2. ByThread(t, tfd[t]) /\ tfd[t] \in FD /\ fd[tfd[t]] \in Conn
    BY <2>1, ServedIsOpen DEF ByThread, Serving
  <2>3. Stage(fd[tfd[t]]) = "served"
    BY <1>a, <2>1, <2>2 DEF StageFacts
  <2>4. stage' = stage
    <3>1. \A d \in Conn : Stage(d)' = Stage(d)
      BY <2>1 DEF Stage, ServedAt
    <3> QED
      BY <3>1
  <2> QED
    BY <2>1, <2>2, <2>3, <2>4 DEF Service!Say, Service!Said, Said
<1>4. ASSUME NEW t \in Thread, HandlerEnd(t)
      PROVE  UNCHANGED Service!vars
  <2>1. /\ tpc[t] = "serve" /\ tpc' = [tpc EXCEPT ![t] = "disconnect"]
        /\ UNCHANGED <<fd, accepted, exq, tfd>>
    BY <1>4 DEF HandlerEnd
  <2>2. \A u \in Thread : \A g : /\ ByThread(u, g)' <=> ByThread(u, g)
                                 /\ tpc'[u] = "close" <=> tpc[u] = "close"
    BY <1>0, <2>1 DEF TypeOK, ByThread, Serving
  <2>3. \A d \in Conn : Stage(d)' = Stage(d)
    BY <1>a, <2>1, <2>2, SameStage
  <2> QED
    BY <2>1, <2>3 DEF Service!vars
<1>5. ASSUME NEW t \in Thread, NEW f \in FD, NEW c \in Conn,
             HandlerPostDisconnect(t), f = tfd[t], c = fd[f]
      PROVE  Service!Announce(c, f)
  <2>1. /\ tpc[t] = "disconnect" /\ tpc' = [tpc EXCEPT ![t] = "close"]
        /\ UNCHANGED <<fd, accepted, tfd>>
        /\ exq' = Append(exq, Gone(c, f))
    BY <1>5 DEF HandlerPostDisconnect
  <2>2. ByThread(t, f)
    BY <1>5, <2>1 DEF ByThread, Serving
  <2>3. Stage(c) = "served"
    BY <1>a, <1>5, <2>1, <2>2 DEF StageFacts
  <2>4. \A u \in Thread : \A g : ByThread(u, g)' <=> ByThread(u, g)
    BY <1>0, <2>1 DEF TypeOK, ByThread, Serving
  <2>5. Stage(c)' = "leaving"
    <3>1. ByThread(t, f)' /\ tpc'[t] = "close" /\ fd'[f] = c
      BY <1>0, <1>5, <2>1, <2>2, <2>4 DEF TypeOK
    <3> QED
      BY <1>a, <3>1 DEF StageFacts
  <2>6. ASSUME NEW d \in Conn, d # c
        PROVE  Stage(d)' = Stage(d)
    <3>1. \A g \in FD, u \in Thread : fd[g] = d /\ ByThread(u, g) => u # t
      BY <1>5, <2>6 DEF ByThread
    <3>2. \A g \in FD, u \in Thread : fd[g] = d =>
            /\ ByThread(u, g)' <=> ByThread(u, g)
            /\ ByThread(u, g) => (tpc'[u] = "close" <=> tpc[u] = "close")
      BY <1>0, <2>1, <2>4, <3>1 DEF TypeOK
    <3> QED
      BY <1>a, <2>1, <2>6, <3>2, SameStage
  <2>7. stage' = [stage EXCEPT ![c] = "leaving"]
    BY <2>5, <2>6
  <2> QED
    BY <1>5, <2>1, <2>3, <2>7 DEF Service!Announce, Service!Move, Service!Gone, Gone
<1>6. ASSUME NEW t \in Thread, NEW f \in FD, NEW c \in Conn,
             HandlerClose(t), f = tfd[t], c = fd[f]
      PROVE  Service!Release(c, f)
  <2>1. /\ tpc[t] = "close" /\ tpc' = [tpc EXCEPT ![t] = "exit"]
        /\ fd' = [fd EXCEPT ![f] = None] /\ UNCHANGED <<accepted, exq, tfd>>
    BY <1>6 DEF HandlerClose
  <2>2. ByThread(t, f) /\ c \in accepted
    BY <1>6, <2>1, ServedIsOpen DEF ByThread, Serving
  <2>3. Stage(c) = "leaving"
    BY <1>a, <1>6, <2>1, <2>2 DEF StageFacts
  <2>4. \A g \in FD : fd'[g] # c
    BY <1>0, <1>6, <2>1 DEF TypeOK, KernelInv
  <2>5. Stage(c)' = "over"
    BY <1>a, <2>1, <2>2, <2>4 DEF StageFacts
  <2>6. ASSUME NEW d \in Conn, d # c
        PROVE  Stage(d)' = Stage(d)
    <3>1. \A g \in FD : fd'[g] = d <=> fd[g] = d
      BY <1>0, <1>6, <2>1, <2>6 DEF TypeOK
    <3>2. \A g \in FD, u \in Thread : fd[g] = d /\ ByThread(u, g) => u # t
      BY <1>6, <2>6 DEF ByThread
    <3>3. \A g \in FD, u \in Thread : fd[g] = d =>
            /\ ByThread(u, g)' <=> ByThread(u, g)
            /\ ByThread(u, g) => (tpc'[u] = "close" <=> tpc[u] = "close")
      BY <1>0, <2>1, <2>6, <3>2 DEF TypeOK, ByThread, Serving
    <3> QED
      BY <1>a, <2>1, <2>6, <3>1, <3>3, SameStage
  <2>7. stage' = [stage EXCEPT ![c] = "over"]
    BY <2>5, <2>6
  <2> QED
    BY <1>6, <2>1, <2>3, <2>7 DEF Service!Release, Service!Move
<1>7. ASSUME MainReceive
      PROVE  Service!Next
  <2>1. /\ exq # <<>> /\ exq' = Tail(exq)
        /\ UNCHANGED <<fd, accepted, tpc, tfd>>
    BY <1>7 DEF MainReceive
  <2>2. \A d \in Conn : Stage(d)' = Stage(d)
    BY <2>1 DEF Stage, ServedAt
  <2> QED
    BY <2>1, <2>2 DEF Service!Consume, Service!Next
<1>8. CASE \/ AcceptPost \/ AcceptFail \/ AcceptRetry \/ Receive \/ UNCHANGED vars
  <2>1. UNCHANGED <<fd, accepted, exq, tpc, tfd>>
    BY <1>8 DEF AcceptPost, AcceptFail, AcceptRetry, Receive, vars
  <2>2. \A d \in Conn : Stage(d)' = Stage(d)
    BY <2>1 DEF Stage, ServedAt
  <2> QED
    BY <2>1, <2>2 DEF Service!vars
<1>9. ASSUME SmsHandler \/ ThreadJoin
             \/ \E t \in Thread : HandlerPostExit(t) \/ ThreadExit(t)
      PROVE  UNCHANGED Service!vars
  <2>1. UNCHANGED <<fd, accepted, exq>>
    BY <1>9 DEF SmsHandler, ThreadJoin, HandlerPostExit, ThreadExit
  <2>2. \A u \in Thread : \A g : /\ ByThread(u, g)' <=> ByThread(u, g)
                                 /\ tpc'[u] = "close" <=> tpc[u] = "close"
    <3>1. CASE SmsHandler
      BY <1>0, <3>1 DEF TypeOK, SmsHandler, CreateThread, ByThread, Serving
    <3>2. CASE ThreadJoin
      BY <1>0, <3>2 DEF TypeOK, Shape, ThreadJoin, ByThread, Serving
    <3>3. CASE \E t \in Thread : HandlerPostExit(t) \/ ThreadExit(t)
      BY <1>0, <3>3 DEF TypeOK, HandlerPostExit, ThreadExit, ByThread, Serving
    <3> QED
      BY <1>9, <3>1, <3>2, <3>3
  <2>3. \A d \in Conn : Stage(d)' = Stage(d)
    BY <1>a, <2>1, <2>2, SameStage
  <2> QED
    BY <2>1, <2>3 DEF Service!vars
<1>10. \A t \in Thread : Serving(t) => tfd[t] \in FD /\ fd[tfd[t]] \in Conn
  BY ServedIsOpen
<1>11. lock => clientFD \in FD /\ fd[clientFD] \in Conn
  BY <1>0, <1>b DEF Shape, OpenIsClaimed, ByHand
<1> QED
  <2>1. ASSUME NEW t \in Thread, Handler(t)
        PROVE  [Service!Next]_(Service!vars)
    <3>1. CASE ThreadStart(t)
      <4>1. lock
        BY <1>0, <3>1 DEF Shape, ThreadStart
      <4> QED
        BY <1>2, <1>11, <3>1, <4>1 DEF Service!Next
    <3>2. CASE HandlerPost(t)
      BY <1>3, <1>10, <3>2 DEF Service!Next, HandlerPost, Serving
    <3>3. CASE HandlerPostDisconnect(t)
      BY <1>5, <1>10, <3>3 DEF Service!Next, HandlerPostDisconnect, Serving
    <3>4. CASE HandlerClose(t)
      BY <1>6, <1>10, <3>4 DEF Service!Next, HandlerClose, Serving
    <3> QED
      BY <1>4, <1>9, <2>1, <3>1, <3>2, <3>3, <3>4 DEF Handler
  <2>2. ASSUME NEW c \in Conn, NEW f \in FD, SocketAccept(c, f)
        PROVE  Service!Next
    BY <1>1, <2>2 DEF Service!Next
  <2> QED
    BY <1>7, <1>8, <1>9, <2>1, <2>2 DEF Next, MessageThread

\* Whatever the threads do, the main thread sees the promised service.
THEOREM ServerImplementsService == Spec => ServiceSpec
<1>1. Init => Service!Init
  <2> SUFFICES ASSUME Init PROVE Service!Init
    OBVIOUS
  <2>1. \A c \in Conn : Stage(c) = "away"
    BY DEF Init, Stage
  <2> QED
    BY <2>1 DEF Init, Service!Init
<1> QED
  BY <1>1, ServiceStep, HandInductive, PTL DEF Spec, ServiceSpec, Service!Spec

-----------------------------------------------------------------------------
(***************************************************************************)
(* The order of the messages for the main thread.                          *)
(***************************************************************************)
Closing(f) == \E t \in Thread : tpc[t] = "close" /\ tfd[t] = f

\* A message carries the number its connection has, if it still has one.
Owned ==
    \A k \in DOMAIN exq :
        /\ exq[k].src \in accepted
        /\ \A f \in FD : fd[f] = exq[k].src => f = exq[k].fd

\* The end of an open connection is announced only by a thread about to close.
EndOnlyIfClosing ==
    \A k \in DOMAIN exq, f \in FD :
        exq[k].kind = "disconnect" /\ fd[f] = exq[k].src => Closing(f)

\* And a thread about to close has announced it, after all other messages.
ClosingAnnounced ==
    \A f \in FD, k \in DOMAIN exq :
        Closing(f) /\ exq[k].src = fd[f] => Announced(exq[k], k, Len(exq))

OrderInv == Owned /\ EndOnlyIfClosing /\ ClosingAnnounced /\ DisconnectLast

\* The order while nothing is posted or consumed and no number changes hands.
LEMMA OrderIdle ==
    ASSUME OrderInv, UNCHANGED <<fd, accepted, exq>>,
           \A f \in FD : Closing(f)' <=> Closing(f)
    PROVE  OrderInv'
<1>1. Owned' /\ DisconnectLast'
  BY DEF OrderInv, Owned, DisconnectLast, Announced
<1>2. EndOnlyIfClosing'
  BY DEF OrderInv, EndOnlyIfClosing
<1>3. ClosingAnnounced'
  BY DEF OrderInv, ClosingAnnounced, Announced
<1> QED
  BY <1>1, <1>2, <1>3 DEF OrderInv

\* A message posted about the open connection c on number f: a message of a
\* thread that is not about to close, or the announcement of one that is now.
LEMMA OrderPost ==
    ASSUME TypeOK, KernelInv, OrderInv, UNCHANGED <<fd, accepted>>,
           NEW f \in FD, NEW c \in Conn, fd[f] = c, ~ Closing(f),
           NEW e \in External, e = Said(c, f) \/ e = Gone(c, f),
           exq' = Append(exq, e),
           \A g \in FD : Closing(g)' <=> Closing(g) \/ (g = f /\ e = Gone(c, f))
    PROVE  OrderInv'
<1> DEFINE n == Len(exq)
<1>1. /\ n \in Nat /\ n' = n + 1
      /\ DOMAIN exq = 1 .. n
      /\ DOMAIN exq' = 1 .. n + 1
      /\ \A k \in 1 .. n : exq'[k] = exq[k]
      /\ exq'[n + 1] = e
  BY AppendProperties, LenProperties DEF TypeOK
<1>2. /\ e.src = c /\ e.fd = f /\ c \in accepted /\ c # None
      /\ e.kind = "disconnect" => e = Gone(c, f)
      /\ \A g \in FD : fd[g] = c => g = f
  BY DEF Said, Gone, KernelInv
<1>3. Owned'
  BY <1>1, <1>2 DEF OrderInv, Owned
<1>4. EndOnlyIfClosing'
  BY <1>1, <1>2 DEF OrderInv, EndOnlyIfClosing
<1>5. \A k \in 1 .. n, l \in 0 .. n :
        Announced(exq[k], k, l) =>
          \A m \in l .. n + 1 : \E d \in k .. m : exq'[d] = Gone(exq[k].src, exq[k].fd)
  BY <1>1 DEF Announced
<1>6. ASSUME e = Gone(c, f), NEW k \in 1 .. n + 1, exq'[k].src = c
      PROVE  \E d \in k .. n + 1 : exq'[d] = Gone(exq'[k].src, exq'[k].fd)
  <2>1. exq'[k].fd = f
    BY <1>1, <1>2, <1>6 DEF OrderInv, Owned
  <2> QED
    BY <1>1, <1>6, <2>1
<1>7. ClosingAnnounced'
  <2> SUFFICES ASSUME NEW g \in FD, NEW k \in 1 .. n + 1,
                      Closing(g)', exq'[k].src = fd[g]
               PROVE  \E d \in k .. n + 1 : exq'[d] = Gone(exq'[k].src, exq'[k].fd)
    BY <1>1 DEF ClosingAnnounced, Announced
  <2>1. CASE Closing(g)
    <3>1. g # f /\ fd[g] # c
      BY <1>2, <2>1
    <3>2. k \in 1 .. n /\ exq'[k] = exq[k]
      BY <1>1, <1>2, <3>1
    <3>3. Announced(exq[k], k, n)
      BY <1>1, <2>1, <3>2 DEF OrderInv, ClosingAnnounced
    <3> QED
      BY <1>1, <1>5, <3>2, <3>3
  <2>2. CASE ~ Closing(g)
    BY <1>6, <2>2
  <2> QED
    BY <2>1, <2>2
<1>8. DisconnectLast'
  <2> SUFFICES ASSUME NEW k \in DOMAIN exq'
               PROVE  /\ fd'[exq'[k].fd] # exq'[k].src =>
                           \E d \in k .. Len(exq') :
                             exq'[d] = Gone(exq'[k].src, exq'[k].fd)
                      /\ \A l \in k + 1 .. Len(exq') :
                           /\ exq'[k].kind = "disconnect" => exq'[l].src # exq'[k].src
                           /\ exq'[l].fd = exq'[k].fd /\ exq'[l].src # exq'[k].src =>
                                \E d \in k .. l - 1 :
                                  exq'[d] = Gone(exq'[k].src, exq'[k].fd)
    BY Zenon DEF DisconnectLast, Announced
  <2>0. k \in 1 .. n + 1 /\ Len(exq') = n + 1 /\ fd' = fd
    BY <1>1
  <2>1. ASSUME fd[exq'[k].fd] # exq'[k].src
        PROVE  \E d \in k .. n + 1 : exq'[d] = Gone(exq'[k].src, exq'[k].fd)
    <3>1. k \in 1 .. n /\ exq'[k] = exq[k]
      BY <1>1, <1>2, <2>0, <2>1
    <3>2. Announced(exq[k], k, n)
      BY <1>1, <2>0, <2>1, <3>1 DEF OrderInv, DisconnectLast
    <3> QED
      BY <1>1, <1>5, <3>1, <3>2
  <2>2. ASSUME NEW l \in k + 1 .. n + 1
        PROVE  /\ exq'[k].kind = "disconnect" => exq'[l].src # exq'[k].src
               /\ exq'[l].fd = exq'[k].fd /\ exq'[l].src # exq'[k].src =>
                    \E d \in k .. l - 1 : exq'[d] = Gone(exq'[k].src, exq'[k].fd)
    <3>0. k \in 1 .. n /\ exq'[k] = exq[k]
      BY <1>1, <2>0, <2>2
    <3>1. CASE l \in 1 .. n
      <4>1. /\ exq[k].kind = "disconnect" => exq[l].src # exq[k].src
            /\ exq[l].fd = exq[k].fd /\ exq[l].src # exq[k].src
                 => Announced(exq[k], k, l - 1)
        BY <1>1, <2>0, <2>2, <3>0, <3>1 DEF OrderInv, DisconnectLast
      <4>2. l - 1 \in 0 .. n /\ l - 1 \in l - 1 .. n + 1
        BY <1>1, <3>0, <3>1
      <4>3. Announced(exq[k], k, l - 1) =>
              \E d \in k .. l - 1 : exq'[d] = Gone(exq[k].src, exq[k].fd)
        BY <1>5, <3>0, <4>2
      <4> QED
        BY <1>1, <2>0, <2>2, <3>0, <3>1, <4>1, <4>3
    <3>2. CASE l = n + 1
      <4>1. exq[k].kind = "disconnect" => exq[k].src # c
        BY <1>1, <3>0 DEF OrderInv, EndOnlyIfClosing
      <4>2. exq[k].fd = f /\ exq[k].src # c => Announced(exq[k], k, n)
        BY <1>1, <3>0 DEF OrderInv, DisconnectLast
      <4> QED
        BY <1>1, <1>2, <1>5, <3>0, <3>2, <4>1, <4>2
    <3> QED
      BY <1>1, <2>0, <2>2, <3>0, <3>1, <3>2
  <2> QED
    BY <2>0, <2>1, <2>2
<1> QED
  BY <1>3, <1>4, <1>7, <1>8 DEF OrderInv

\* The main thread consumes a message: positions move up by one.
LEMMA OrderConsume ==
    ASSUME TypeOK, OrderInv, UNCHANGED <<fd, accepted>>,
           exq # <<>>, exq' = Tail(exq),
           \A g \in FD : Closing(g)' <=> Closing(g)
    PROVE  OrderInv'
<1> DEFINE n == Len(exq)
<1>1. /\ n \in Nat \ {0} /\ n' = n - 1
      /\ DOMAIN exq = 1 .. n
      /\ DOMAIN exq' = 1 .. n - 1
      /\ \A k \in 1 .. n - 1 : exq'[k] = exq[k + 1] /\ k + 1 \in 1 .. n
  BY HeadTailProperties, LenProperties, EmptySeq DEF TypeOK
<1>2. Owned' /\ EndOnlyIfClosing'
  BY <1>1 DEF OrderInv, Owned, EndOnlyIfClosing
<1>3. ASSUME NEW k \in 1 .. n - 1, NEW l \in 0 .. n - 1,
             Announced(exq[k + 1], k + 1, l + 1)
      PROVE  \E d \in k .. l : exq'[d] = Gone(exq'[k].src, exq'[k].fd)
  <2>1. PICK d \in k + 1 .. l + 1 : exq[d] = Gone(exq[k + 1].src, exq[k + 1].fd)
    BY <1>3 DEF Announced
  <2>2. d - 1 \in k .. l /\ d - 1 \in 1 .. n - 1 /\ (d - 1) + 1 = d
    BY <1>1, <2>1
  <2>3. exq'[d - 1] = exq[d]
    BY <1>1, <2>2
  <2> QED
    BY <1>1, <2>1, <2>2, <2>3
<1>4. ClosingAnnounced'
  <2>1. ASSUME NEW g \in FD, NEW k \in 1 .. n - 1,
               Closing(g), exq'[k].src = fd[g]
        PROVE  \E d \in k .. n - 1 : exq'[d] = Gone(exq'[k].src, exq'[k].fd)
    <3>1. Announced(exq[k + 1], k + 1, (n - 1) + 1)
      BY <1>1, <2>1 DEF OrderInv, ClosingAnnounced
    <3>2. n - 1 \in 0 .. n - 1
      BY <1>1
    <3> QED
      BY <1>3, <2>1, <3>1, <3>2
  <2> QED
    BY <1>1, <2>1 DEF ClosingAnnounced, Announced
<1>5. DisconnectLast'
  <2> SUFFICES ASSUME NEW k \in DOMAIN exq'
               PROVE  /\ fd'[exq'[k].fd] # exq'[k].src =>
                           \E d \in k .. Len(exq') :
                             exq'[d] = Gone(exq'[k].src, exq'[k].fd)
                      /\ \A l \in k + 1 .. Len(exq') :
                           /\ exq'[k].kind = "disconnect" => exq'[l].src # exq'[k].src
                           /\ exq'[l].fd = exq'[k].fd /\ exq'[l].src # exq'[k].src =>
                                \E d \in k .. l - 1 :
                                  exq'[d] = Gone(exq'[k].src, exq'[k].fd)
    BY Zenon DEF DisconnectLast, Announced
  <2>0. k \in 1 .. n - 1 /\ Len(exq') = n - 1 /\ fd' = fd
    BY <1>1
  <2>1. ASSUME fd[exq'[k].fd] # exq'[k].src
        PROVE  \E d \in k .. n - 1 : exq'[d] = Gone(exq'[k].src, exq'[k].fd)
    <3>1. Announced(exq[k + 1], k + 1, (n - 1) + 1)
      BY <1>1, <2>0, <2>1 DEF OrderInv, DisconnectLast
    <3>2. n - 1 \in 0 .. n - 1
      BY <1>1
    <3> QED
      BY <1>3, <2>0, <3>1, <3>2
  <2>2. ASSUME NEW l \in k + 1 .. n - 1
        PROVE  /\ exq'[k].kind = "disconnect" => exq'[l].src # exq'[k].src
               /\ exq'[l].fd = exq'[k].fd /\ exq'[l].src # exq'[k].src =>
                    \E d \in k .. l - 1 : exq'[d] = Gone(exq'[k].src, exq'[k].fd)
    <3>1. /\ k + 1 \in 1 .. n /\ l + 1 \in (k + 1) + 1 .. n
          /\ exq'[k] = exq[k + 1] /\ exq'[l] = exq[l + 1]
          /\ (l + 1) - 1 = (l - 1) + 1
      BY <1>1, <2>0, <2>2
    <3>2. /\ exq[k + 1].kind = "disconnect" => exq[l + 1].src # exq[k + 1].src
          /\ exq[l + 1].fd = exq[k + 1].fd /\ exq[l + 1].src # exq[k + 1].src
               => Announced(exq[k + 1], k + 1, (l - 1) + 1)
      BY <1>1, <3>1 DEF OrderInv, DisconnectLast
    <3>3. l - 1 \in 0 .. n - 1
      BY <1>1, <2>0, <2>2
    <3>4. Announced(exq[k + 1], k + 1, (l - 1) + 1) =>
            \E d \in k .. l - 1 : exq'[d] = Gone(exq'[k].src, exq'[k].fd)
      BY <1>3, <2>0, <2>2, <3>3
    <3> QED
      BY <3>1, <3>2, <3>4
  <2> QED
    BY <2>0, <2>1, <2>2
<1> QED
  BY <1>2, <1>4, <1>5 DEF OrderInv

\* accept() gives a free number: what is queued about it has been announced.
LEMMA OrderAccept ==
    ASSUME HandInv, OrderInv, NEW c \in Conn, NEW f \in FD, SocketAccept(c, f)
    PROVE  OrderInv'
<1>1. /\ c \notin accepted /\ fd[f] = None /\ fd' = [fd EXCEPT ![f] = c]
      /\ accepted' = accepted \cup {c} /\ UNCHANGED <<exq, tpc, tfd>>
  BY DEF SocketAccept, thr
<1>2. fd \in [FD -> Conn \cup {None}] /\ c # None
      /\ \A k \in DOMAIN exq : exq[k].src \in accepted /\ exq[k].src # None
  BY DEF HandInv, TypeOK, OrderInv, Owned
<1>3. \A g \in FD : (Closing(g)' <=> Closing(g)) /\ (Closing(g) => g # f)
  <2>1. \A g \in FD : Closing(g) => fd[g] # None
    BY DEF Closing, HandInv, OpenIsClaimed, ByThread, Serving
  <2> QED
    BY <1>1, <2>1 DEF Closing
<1>4. Owned' /\ EndOnlyIfClosing'
  BY <1>1, <1>2, <1>3 DEF OrderInv, Owned, EndOnlyIfClosing
<1>5. ClosingAnnounced'
  BY <1>1, <1>2, <1>3 DEF OrderInv, ClosingAnnounced, Announced
<1>6. DisconnectLast'
  <2>1. \A k \in DOMAIN exq :
          fd'[exq[k].fd] # exq[k].src => fd[exq[k].fd] # exq[k].src
    BY <1>1, <1>2
  <2> QED
    BY <1>1, <2>1 DEF OrderInv, DisconnectLast, Announced
<1> QED
  BY <1>4, <1>5, <1>6 DEF OrderInv

\* close() frees a number whose connection has been announced.
LEMMA OrderClose ==
    ASSUME HandInv, OrderInv, NEW t \in Thread, HandlerClose(t)
    PROVE  OrderInv'
<1> DEFINE f == tfd[t]
<1>1. /\ tpc[t] = "close" /\ tpc' = [tpc EXCEPT ![t] = "exit"] /\ f \in FD
      /\ fd' = [fd EXCEPT ![f] = None] /\ UNCHANGED <<accepted, exq, tfd>>
  BY DEF HandlerClose, At, acc, HandInv, Shape, Serving
<1>2. fd \in [FD -> Conn \cup {None}] /\ accepted \subseteq Conn /\ None \notin Conn
  BY NoneAssumption DEF HandInv, TypeOK
<1>3. \A k \in DOMAIN exq : /\ exq[k].src \in accepted /\ exq[k].src # None
                            /\ fd[f] = exq[k].src => exq[k].fd = f
  BY <1>1, <1>2 DEF OrderInv, Owned
<1>4. \A g \in FD : Closing(g)' <=> Closing(g) /\ g # f
  <2>1. \A u \in Thread : tpc[u] = "close" /\ tfd[u] = f => u = t
    BY <1>1 DEF HandInv, OneClaim, ByThread, Serving
  <2> QED
    BY <1>1, <2>1 DEF Closing, HandInv, TypeOK
<1>5. Closing(f)
  BY <1>1 DEF Closing
<1> HIDE DEF f
<1>6. Owned' /\ EndOnlyIfClosing'
  BY <1>1, <1>2, <1>3, <1>4 DEF OrderInv, Owned, EndOnlyIfClosing
<1>7. ClosingAnnounced'
  BY <1>1, <1>2, <1>3, <1>4 DEF OrderInv, ClosingAnnounced, Announced
<1>8. DisconnectLast'
  <2>1. \A k \in DOMAIN exq : fd'[exq[k].fd] # exq[k].src =>
          \/ fd[exq[k].fd] # exq[k].src
          \/ exq[k].src = fd[f]
    BY <1>1, <1>2, <1>3
  <2>2. \A k \in DOMAIN exq : exq[k].src = fd[f] => Announced(exq[k], k, Len(exq))
    BY <1>1, <1>5 DEF OrderInv, ClosingAnnounced
  <2> QED
    BY <1>1, <2>1, <2>2 DEF OrderInv, DisconnectLast, Announced
<1> QED
  BY <1>6, <1>7, <1>8 DEF OrderInv

LEMMA OrderStep == HandInv /\ OrderInv /\ [Next]_vars => OrderInv'
<1> SUFFICES ASSUME HandInv, OrderInv, [Next]_vars
             PROVE  OrderInv'
  OBVIOUS
<1>0. TypeOK /\ Shape /\ OneClaim /\ KernelInv
  BY DEF HandInv
<1> USE DEF kernel, acc, msg, hand, thr, Idle, At
<1>1. ASSUME NEW t \in Thread, HandlerPost(t) \/ HandlerPostDisconnect(t)
      PROVE  OrderInv'
  <2>1. tpc[t] \in {"serve", "disconnect"} /\ Serving(t)
    BY <1>1 DEF HandlerPost, HandlerPostDisconnect, Serving
  <2>2. PICK f \in FD, c \in Conn : f = tfd[t] /\ c = fd[f]
    BY <2>1, ServedIsOpen
  <2>3. ~ Closing(f)
    BY <1>0, <2>1, <2>2 DEF OneClaim, ByThread, Serving, Closing
  <2>4. Said(c, f) \in External /\ Gone(c, f) \in External /\ Said(c, f) # Gone(c, f)
    BY DEF Said, Gone, External
  <2>5. CASE HandlerPost(t)
    <3>1. /\ UNCHANGED <<fd, accepted, tpc, tfd>>
          /\ exq' = Append(exq, Said(c, f))
      BY <2>2, <2>5 DEF HandlerPost
    <3>2. \A g \in FD : Closing(g)' <=>
            Closing(g) \/ (g = f /\ Said(c, f) = Gone(c, f))
      BY <2>4, <3>1 DEF Closing
    <3> QED
      BY <1>0, <2>2, <2>3, <2>4, <3>1, <3>2, OrderPost
  <2>6. CASE HandlerPostDisconnect(t)
    <3>1. /\ UNCHANGED <<fd, accepted, tfd>>
          /\ exq' = Append(exq, Gone(c, f))
          /\ tpc[t] = "disconnect" /\ tpc' = [tpc EXCEPT ![t] = "close"]
      BY <2>2, <2>6 DEF HandlerPostDisconnect
    <3>2. \A g \in FD : Closing(g)' <=>
            Closing(g) \/ (g = f /\ Gone(c, f) = Gone(c, f))
      BY <1>0, <2>2, <3>1 DEF TypeOK, Closing
    <3> QED
      BY <1>0, <2>2, <2>3, <2>4, <3>1, <3>2, OrderPost
  <2> QED
    BY <1>1, <2>5, <2>6
<1>2. CASE MainReceive
  <2>1. /\ UNCHANGED <<fd, accepted, tpc, tfd>>
        /\ exq # <<>> /\ exq' = Tail(exq)
    BY <1>2 DEF MainReceive
  <2>2. \A g \in FD : Closing(g)' <=> Closing(g)
    BY <2>1 DEF Closing
  <2> QED
    BY <1>0, <2>1, <2>2, OrderConsume
<1>3. ASSUME \/ AcceptPost \/ AcceptFail \/ AcceptRetry \/ Receive \/ UNCHANGED vars
             \/ SmsHandler \/ ThreadJoin
             \/ \E t \in Thread : \/ ThreadStart(t) \/ HandlerEnd(t)
                                  \/ HandlerPostExit(t) \/ ThreadExit(t)
      PROVE  OrderInv'
  <2>1. UNCHANGED <<fd, accepted, exq>>
    BY <1>3 DEF AcceptPost, AcceptFail, AcceptRetry, Receive, vars, SmsHandler,
       ThreadJoin, ThreadStart, HandlerEnd, HandlerPostExit, ThreadExit
  <2>2. \A g \in FD : Closing(g)' <=> Closing(g)
    <3>1. CASE AcceptPost \/ AcceptFail \/ AcceptRetry \/ Receive \/ UNCHANGED vars
      BY <3>1 DEF AcceptPost, AcceptFail, AcceptRetry, Receive, vars, Closing
    <3>2. CASE SmsHandler
      BY <1>0, <3>2 DEF TypeOK, SmsHandler, CreateThread, Closing
    <3>3. CASE ThreadJoin
      BY <1>0, <3>3 DEF TypeOK, Shape, ThreadJoin, Closing
    <3>4. ASSUME NEW t \in Thread, \/ ThreadStart(t) \/ HandlerEnd(t)
                                   \/ HandlerPostExit(t) \/ ThreadExit(t)
          PROVE  \A g \in FD : Closing(g)' <=> Closing(g)
      BY <1>0, <3>4 DEF TypeOK, ThreadStart, HandlerEnd, HandlerPostExit,
         ThreadExit, Closing
    <3> QED
      BY <1>3, <3>1, <3>2, <3>3, <3>4
  <2> QED
    BY <2>1, <2>2, OrderIdle
<1> QED
  BY <1>1, <1>2, <1>3, OrderAccept, OrderClose DEF Next, MessageThread, Handler

\* The main thread hears of a connection's end after all its messages and
\* before any message of the next connection on the number.
THEOREM DisconnectLastHolds == Spec => []DisconnectLast
<1>1. Init => OrderInv
  <2> SUFFICES ASSUME Init PROVE OrderInv
    OBVIOUS
  <2>1. DOMAIN exq = {}
    BY EmptySeq DEF Init
  <2> QED
    BY <2>1 DEF OrderInv, Owned, EndOnlyIfClosing, ClosingAnnounced, DisconnectLast
<1>2. OrderInv => DisconnectLast
  BY DEF OrderInv
<1> QED
  BY <1>1, <1>2, OrderStep, HandInductive, PTL DEF Spec

-----------------------------------------------------------------------------
(***************************************************************************)
(* No standstill but the lost hand.                                        *)
(***************************************************************************)

\* A thread that is leaving has its exit message queued, or the message thread
\* has it in hand: nobody else would join it.
WillJoin(t) == In(inq, Exit(t)) \/ (mpc = "join" /\ marg = t)

JoinInv == \A t \in Thread : Leaving(t) => WillJoin(t)

\* An exit message is posted on leaving and kept until the thread is joined.
LEMMA JoinStep == HandInv /\ JoinInv /\ [Next]_vars => JoinInv'
<1> SUFFICES ASSUME HandInv, JoinInv, [Next]_vars
             PROVE  JoinInv'
  OBVIOUS
<1>0. TypeOK /\ Shape /\ Distinct(inq)
  BY DEF HandInv
<1> USE DEF kernel, acc, msg, hand, thr, Idle, At, Leaving, WillJoin
<1>1. ASSUME UNCHANGED <<inq, mpc, marg>>,
             \A t \in Thread : Leaving(t)' => Leaving(t)
      PROVE  JoinInv'
  BY <1>1, Unposted DEF JoinInv
<1>2. CASE AcceptPost
  <2>1. UNCHANGED <<mpc, marg, tpc>> /\ inq' = Append(inq, Accepted(afd)) /\ afd \in FD
    BY <1>0, <1>2 DEF Shape, AcceptPost
  <2>2. \A t : In(inq, Exit(t)) => In(inq, Exit(t))'
    BY <1>0, <2>1, Posted, MessageKinds
  <2> QED
    BY <2>1, <2>2 DEF JoinInv
<1>3. CASE Receive
  <2>1. /\ UNCHANGED tpc /\ mpc = "recv" /\ inq # <<>> /\ inq' = Tail(inq)
        /\ mpc' = Head(inq).cmd /\ marg' = Head(inq).id
    BY <1>3 DEF Receive
  <2>2. \A t : In(inq, Exit(t)) => In(inq, Exit(t))' \/ Exit(t) = Head(inq)
    BY <1>0, <2>1, Received
  <2>3. \A t : Exit(t) = Head(inq) => mpc' = "join" /\ marg' = t
    BY <2>1 DEF Exit
  <2> QED
    BY <2>1, <2>2, <2>3 DEF JoinInv
<1>4. CASE SmsHandler
  <2>1. UNCHANGED inq /\ mpc = "accept" /\ \A t \in Thread : Leaving(t)' => Leaving(t)
    BY <1>0, <1>4 DEF TypeOK, SmsHandler, CreateThread
  <2> QED
    BY <2>1, Unposted DEF JoinInv
<1>5. CASE ThreadJoin
  <2>1. /\ UNCHANGED inq /\ mpc = "join" /\ marg \in Thread
        /\ tpc' = [tpc EXCEPT ![marg] = "free"]
    BY <1>0, <1>5 DEF Shape, ThreadJoin
  <2>2. \A t \in Thread : Leaving(t)' => Leaving(t) /\ t # marg
    BY <1>0, <2>1 DEF TypeOK
  <2> QED
    BY <2>1, <2>2, Unposted DEF JoinInv
<1>6. ASSUME NEW t \in Thread, HandlerPostExit(t)
      PROVE  JoinInv'
  <2>1. /\ UNCHANGED <<mpc, marg>>
        /\ tpc' = [tpc EXCEPT ![t] = "sleep"] /\ inq' = Append(inq, Exit(t))
    BY <1>6 DEF HandlerPostExit
  <2>2. \A u : In(inq, Exit(u)) \/ u = t => In(inq, Exit(u))'
    BY <1>0, <2>1, Posted, MessageKinds
  <2>3. \A u \in Thread : Leaving(u)' => Leaving(u) \/ u = t
    BY <1>0, <2>1 DEF TypeOK
  <2> QED
    BY <2>1, <2>2, <2>3 DEF JoinInv
<1>7. ASSUME NEW t \in Thread,
             \/ ThreadStart(t) \/ HandlerPost(t) \/ HandlerEnd(t)
             \/ HandlerPostDisconnect(t) \/ HandlerClose(t) \/ ThreadExit(t)
      PROVE  JoinInv'
  <2>1. UNCHANGED <<inq, mpc, marg>> /\ \A u \in Thread : Leaving(u)' => Leaving(u)
    BY <1>0, <1>7 DEF TypeOK, ThreadStart, HandlerPost, HandlerEnd,
       HandlerPostDisconnect, HandlerClose, ThreadExit
  <2> QED
    BY <1>1, <2>1
<1>8. CASE \/ \E c \in Conn, f \in FD : SocketAccept(c, f)
           \/ AcceptFail \/ AcceptRetry \/ MainReceive \/ UNCHANGED vars
  <2>1. UNCHANGED <<inq, mpc, marg, tpc>>
    BY <1>8 DEF SocketAccept, AcceptFail, AcceptRetry, MainReceive, vars
  <2> QED
    BY <1>1, <2>1
<1> QED
  BY <1>2, <1>3, <1>4, <1>5, <1>6, <1>7, <1>8 DEF Next, MessageThread, Handler

\* A mutex that no thread is about to release is held for a number nobody has.
LEMMA LockedIsLost ==
    ASSUME HandInv, Standstill, lock
    PROVE  HandLost
<1>1. clientFD \in FD /\ ByHand(clientFD)
  BY DEF HandInv, Shape, ByHand
<1>2. fd[clientFD] # None
  BY <1>1 DEF HandInv, OpenIsClaimed
<1>3. \A t \in Thread : ~ ByThread(t, clientFD)
  BY <1>1 DEF HandInv, OneClaim
<1>4. \A t \in Thread : tpc[t] # "start"
  BY DEF Standstill, HandlerWaits
<1> QED
  BY <1>2, <1>3, <1>4 DEF HandLost

\* The threads of the server do not block each other: at a standstill each has
\* done what it has to, unless pthread_create has failed.
THEOREM NoOtherStandstillHolds == Spec => []NoOtherStandstill
<1>1. Init => JoinInv
  BY DEF Init, JoinInv, Leaving
<1>2. HandInv /\ JoinInv => NoOtherStandstill
  <2> SUFFICES ASSUME HandInv, JoinInv, Standstill, ~ HandLost
               PROVE  /\ mpc = "recv" /\ inq = <<>> /\ apc # "post"
                      /\ \A t \in Thread : tpc[t] \in {"free", "serve"}
    BY DEF NoOtherStandstill
  <2>0. TypeOK /\ Shape /\ ExitInv
    BY DEF HandInv
  <2>1. MessageThreadWaits /\ \A t \in Thread : HandlerWaits(t)
    BY DEF Standstill
  <2>2. mpc # "accept"
    BY <2>1, LockedIsLost DEF MessageThreadWaits
  <2>3. mpc # "join"
    <3> SUFFICES ASSUME mpc = "join" PROVE FALSE
      OBVIOUS
    <3>1. marg \in Thread /\ Leaving(marg) /\ tpc[marg] # "ended"
      BY <2>0, <2>1 DEF Shape, ExitInv, MessageThreadWaits
    <3>2. tpc[marg] # "sleep"
      BY <2>1, <3>1 DEF HandlerWaits
    <3> QED
      BY <3>1, <3>2 DEF Leaving
  <2>4. mpc = "recv" /\ inq = <<>>
    BY <2>1, <2>2, <2>3 DEF MessageThreadWaits
  <2>5. Room
    <3>1. Len(inq) = 0 /\ Len(exq) = 0
      BY <2>4, EmptySeq DEF Standstill
    <3> QED
      BY <3>1 DEF Room
  <2>6. \A t \in Thread : tpc[t] # "ended"
    <3>1. \A t : ~ In(inq, Exit(t))
      BY <2>4, EmptySeq DEF In
    <3> QED
      BY <2>4, <3>1 DEF JoinInv, WillJoin, Leaving
  <2> QED
    BY <2>1, <2>4, <2>5, <2>6 DEF Standstill, HandlerWaits
<1> QED
  BY <1>1, <1>2, JoinStep, HandInductive, PTL DEF Spec
=============================================================================
