-------------------------- MODULE ControllerProofs --------------------------
(***************************************************************************)
(* Theorems about Controller, for any numbers, connections, ids and queue  *)
(* bound, and for both programs.                                           *)
(***************************************************************************)
EXTENDS Controller, SequenceTheorems, TLAPS

USE NamesAssumption, QueueAssumption, DirectAssumption, ReachableAssumption,
    CreateAssumption

-----------------------------------------------------------------------------
(***************************************************************************)
(* Types.                                                                  *)
(***************************************************************************)

\* A thread in recv() has a number and a socket, a drop loop about to close a
\* number.
Shape ==
    /\ \A t \in Conn : tpc[t] = "recv" => ton[t] \in Conn /\ tfd[t] # None
    /\ epc = "close" => hand \in FD

TypeInv == TypeOK /\ Shape

LEMMA PduType ==
    \A p \in Pdu : /\ p.kind = "bind" => p.id \in Id
                   /\ p.kind # "disconnect"
BY DEF Pdu, Bind, Plain

LEMMA QueueHead ==
    ASSUME TypeOK, queue # <<>>
    PROVE  /\ Head(queue) \in Event
           /\ Head(queue).fd \in FD \cup {None}
           /\ Head(queue).src \in Conn
           /\ Tail(queue) \in Seq(Event)
<1>1. queue \in Seq(Event)
  BY DEF TypeOK
<1>2. Head(queue) \in Event /\ Tail(queue) \in Seq(Event)
  BY <1>1, HeadTailProperties
<1>3. \A e \in Event : e.fd \in FD \cup {None} /\ e.src \in Conn
  BY DEF Event
<1> QED
  BY <1>2, <1>3

LEMMA PostType ==
    ASSUME TypeOK, NEW f \in FD \cup {None}, NEW c \in Conn,
           NEW p \in Pdu \cup {Plain("disconnect"), Plain("lost")},
           Post(f, p, c)
    PROVE  queue' \in Seq(Event)
<1>1. [fd |-> f, src |-> c, pdu |-> p] \in Event
  BY DEF Event
<1>2. queue' = Append(queue, [fd |-> f, pdu |-> p, src |-> c])
  BY DEF Post
<1>3. [fd |-> f, pdu |-> p, src |-> c] = [fd |-> f, src |-> c, pdu |-> p]
  OBVIOUS
<1> QED
  BY <1>1, <1>2, <1>3, AppendProperties DEF TypeOK

LEMMA UnbindType ==
    ASSUME TypeOK, NEW f, SetUnbindState(f)
    PROVE  device' \in SUBSET Row
<1>1. ASSUME NEW r \in device
      PROVE  [r EXCEPT !.status = 0] \in Row /\ r \in Row
  <2>1. r \in Row
    BY DEF TypeOK
  <2> QED
    BY <2>1 DEF Row
<1> QED
  BY <1>1 DEF SetUnbindState

LEMMA HandleType ==
    ASSUME TypeInv, NEW w \in Worker, NEW f \in FD \cup {None}, NEW c \in Conn,
           NEW p \in Pdu, Handle(w, f, p, c)
    PROVE  /\ device' \in SUBSET Row
           /\ job' \in [Worker -> Row \cup {None}]
           /\ asked' \in [FD -> Nat] /\ todo' \in [FD -> Nat]
           /\ hand' \in FD \cup {None}
           /\ epc' \in {epc, "overrun"}
           /\ epc' = "close" => hand' \in FD
<1>1. CASE p.kind = "bind" /\ StartBind(w, p.id, f, c)
  <2>1. [id |-> p.id, status |-> 1, fd |-> f, src |-> c] \in Row
    BY <1>1, PduType DEF Row
  <2> QED
    BY <1>1, <2>1 DEF StartBind, TypeInv, TypeOK, Shape
<1>2. CASE SetUnbindState(f) /\ UNCHANGED <<job, asked, epc, todo, hand>>
  BY <1>2, UnbindType DEF TypeInv, TypeOK, Shape
<1>3. CASE AckPacket(f)
  <2>1. UNCHANGED <<device, job>>
    BY <1>3 DEF AckPacket
  <2>2. CASE f \in FD /\ asked[f] > 0
    <3>1. asked' = [asked EXCEPT ![f] = @ - 1] /\ Shift
      BY <1>3, <2>2 DEF AckPacket
    <3>2. asked[f] - 1 \in Nat
      BY <2>2 DEF TypeInv, TypeOK
    <3>3. asked' \in [FD -> Nat]
      BY <3>1, <3>2 DEF TypeInv, TypeOK
    <3>4. CASE UNCHANGED <<epc, todo, hand>>
      BY <2>1, <3>3, <3>4 DEF TypeInv, TypeOK, Shape
    <3>5. CASE epc' = "overrun" /\ hand' = None /\ UNCHANGED todo
      BY <2>1, <3>3, <3>5 DEF TypeInv, TypeOK
    <3>6. CASE /\ hand' \in IF epc = "close" THEN {g \in FD : asked'[g] > 0} ELSE {hand}
               /\ todo' \in [FD -> 0 .. Entries(todo)]
               /\ UNCHANGED epc
      <4>1. \A n : 0 .. n \subseteq Nat
        OBVIOUS
      <4>2. todo' \in [FD -> Nat]
        BY <3>6, <4>1
      <4> QED
        BY <2>1, <3>3, <3>6, <4>2 DEF TypeInv, TypeOK, Shape
    <3> QED
      BY <3>1, <3>4, <3>5, <3>6 DEF Shift
  <2>3. CASE ~(f \in FD /\ asked[f] > 0)
    BY <1>3, <2>1, <2>3 DEF AckPacket, TypeInv, TypeOK, Shape
  <2> QED
    BY <2>2, <2>3
<1> QED
  BY <1>1, <1>2, <1>3 DEF Handle

LEMMA CloseType ==
    ASSUME TypeOK, NEW f \in FD, NEW t, Close(f, t)
    PROVE  /\ fd' \in [FD -> Conn \cup {None}]
           /\ peer' \in [Conn -> {"unborn", "open", "shut"}]
           /\ known' \in SUBSET Link
           /\ tainted' \in SUBSET FD
BY DEF Close, TypeOK

LEMMA FinishType ==
    ASSUME TypeOK, NEW w \in Worker, FinishBind(w)
    PROVE  device' \in SUBSET Row /\ job' \in [Worker -> Row \cup {None}]
<1>1. job[w] \in Row
  BY DEF FinishBind, TypeOK
<1> QED
  BY <1>1 DEF FinishBind, TypeOK

LEMMA TypeInit == Init => TypeInv
<1> SUFFICES ASSUME Init PROVE TypeInv
  OBVIOUS
<1>1. <<>> \in Seq(Event) /\ {} \in SUBSET Row
  OBVIOUS
<1> QED
  BY <1>1 DEF Init, TypeInv, TypeOK, Shape

LEMMA EnvType ==
    ASSUME TypeInv,
           \/ \E c \in Client, f \in FD : Accept(c, f)
           \/ \E c \in Client : ClientStop(c)
           \/ CenterDown \/ CenterUp
           \/ \E l \in Link : CenterDrop(l)
    PROVE  TypeInv'
<1>1. ASSUME NEW c \in Client, NEW f \in FD, Accept(c, f) PROVE TypeInv'
  BY <1>1 DEF Accept, TypeInv, TypeOK, Shape, Conn, reg, enq, link
<1>2. ASSUME NEW c \in Client, ClientStop(c) PROVE TypeInv'
  BY <1>2 DEF ClientStop, TypeInv, TypeOK, Shape, Conn, thr, reg, enq, link
<1>3. CASE CenterDown
  BY <1>3 DEF CenterDown, TypeInv, TypeOK, Shape, thr, reg, enq, link
<1>4. CASE CenterUp
  BY <1>4 DEF CenterUp, TypeInv, TypeOK, Shape, thr, reg, enq, link
<1>5. ASSUME NEW l \in Link, CenterDrop(l) PROVE TypeInv'
  BY <1>5 DEF CenterDrop, TypeInv, TypeOK, Shape, Conn, thr, reg, enq, link
<1> QED
  BY <1>1, <1>2, <1>3, <1>4, <1>5

LEMMA HandlerType ==
    ASSUME TypeInv, NEW t \in Conn, Handler(t)
    PROVE  TypeInv'
<1> USE DEF TypeInv
<1>1. t \in Worker /\ tfd[t] \in FD \cup {None}
  BY DEF Worker, TypeOK
<1>2. CASE ReceiverStart(t)
  BY <1>2 DEF ReceiverStart, TypeOK, Shape, env, reg, enq, link
<1>3. CASE HandlerCall(t)
  <2>1. CASE tpc' = [tpc EXCEPT ![t] = "post"] /\ UNCHANGED ton
    BY <1>3, <2>1 DEF HandlerCall, TypeOK, Shape, env, reg, enq, link
  <2>2. CASE /\ tfd[t] # None /\ fd[tfd[t]] # None
             /\ tpc' = [tpc EXCEPT ![t] = "recv"]
             /\ ton' = [ton EXCEPT ![t] = fd[tfd[t]]]
    <3>1. fd[tfd[t]] \in Conn
      BY <1>1, <2>2 DEF TypeOK
    <3>2. /\ ton' \in [Conn -> Conn \cup {None}]
          /\ \A u \in Conn : tpc'[u] = "recv" => ton'[u] \in Conn /\ tfd[u] # None
      BY <2>2, <3>1 DEF TypeOK, Shape
    <3>3. tpc' \in [Conn -> {"none", "start", "call", "recv", "insert", "post",
                             "reset", "close", "done", "failed"}]
      BY <2>2 DEF TypeOK
    <3> QED
      BY <1>3, <3>2, <3>3 DEF HandlerCall, TypeOK, Shape, env, reg, enq, link
  <2> QED
    BY <1>3, <2>1, <2>2, Zenon DEF HandlerCall
<1>4. CASE HandlerReceive(t)
  <2>1. PICK p \in Pdu :
           IF direct
           THEN /\ Handle(t, tfd[t], p, ton[t])
                /\ tpc' = [tpc EXCEPT ![t] = IF p.kind = "bind" THEN "insert" ELSE "call"]
                /\ UNCHANGED queue
           ELSE /\ Post(tfd[t], p, ton[t])
                /\ tpc' = [tpc EXCEPT ![t] = "call"]
                /\ UNCHANGED <<job, device, asked, epc, todo, hand>>
    BY <1>4 DEF HandlerReceive
  <2>2. /\ ton[t] \in Conn
        /\ ton' = [ton EXCEPT ![t] = None]
        /\ UNCHANGED <<fd, peer, center, known, direct, tfd, elist,
                       sockfd, dpc, dial, tainted>>
    BY <1>4 DEF HandlerReceive, Conn, env, link
  <2>3. tpc' \in {[tpc EXCEPT ![t] = "insert"], [tpc EXCEPT ![t] = "call"]}
    BY <2>1
  <2>4. queue' \in Seq(Event)
    BY <1>1, <2>1, <2>2, PostType DEF TypeOK
  <2>5. /\ device' \in SUBSET Row
        /\ job' \in [Worker -> Row \cup {None}]
        /\ asked' \in [FD -> Nat] /\ todo' \in [FD -> Nat]
        /\ hand' \in FD \cup {None}
        /\ epc' \in {epc, "overrun"}
        /\ epc' = "close" => hand' \in FD
    <3>1. CASE direct
      BY <1>1, <2>1, <2>2, <3>1, HandleType
    <3>2. CASE ~direct
      BY <2>1, <2>2, <3>2 DEF TypeOK, Shape
    <3> QED
      BY <3>1, <3>2
  <2>6. tpc' \in [Conn -> {"none", "start", "call", "recv", "insert", "post",
                           "reset", "close", "done", "failed"}]
    BY <2>3 DEF TypeOK
  <2>7. \A u \in Conn : tpc'[u] = "recv" => ton'[u] \in Conn /\ tfd'[u] # None
    BY <2>2, <2>3 DEF TypeOK, Shape
  <2>8. ton' \in [Conn -> Conn \cup {None}]
    BY <2>2 DEF TypeOK
  <2> QED
    BY <2>2, <2>4, <2>5, <2>6, <2>7, <2>8 DEF TypeOK, Shape
<1>5. CASE HandlerInsert(t)
  BY <1>1, <1>5, FinishType DEF HandlerInsert, TypeOK, Shape, env, enq, link
<1>6. CASE HandlerEnd(t)
  BY <1>6 DEF HandlerEnd, TypeOK, Shape, env, reg, enq, link
<1>7. CASE HandlerPostDisconnect(t)
  <2>1. queue' \in Seq(Event)
    BY <1>1, <1>7, PostType DEF HandlerPostDisconnect
  <2> QED
    BY <1>7, <2>1 DEF HandlerPostDisconnect, TypeOK, Shape, env, enq, link
<1>8. CASE HandlerReset(t)
  BY <1>8 DEF HandlerReset, TypeOK, Shape, env, reg, enq
<1>9. CASE HandlerClose(t)
  <2>1. /\ fd' \in [FD -> Conn \cup {None}]
        /\ peer' \in [Conn -> {"unborn", "open", "shut"}]
        /\ known' \in SUBSET Link
        /\ tainted' \in SUBSET FD
    BY <1>1, <1>9, CloseType DEF HandlerClose, TypeOK
  <2>2. /\ tfd' \in [Conn -> FD \cup {None}]
        /\ \A u \in Conn : u # t => tfd'[u] = tfd[u] /\ tpc'[u] = tpc[u]
        /\ tpc'[t] = "done"
    BY <1>9 DEF HandlerClose, TypeOK
  <2>3. tpc' \in [Conn -> {"none", "start", "call", "recv", "insert", "post",
                           "reset", "close", "done", "failed"}]
    BY <1>9 DEF HandlerClose, TypeOK
  <2>4. \A u \in Conn : tpc'[u] = "recv" => ton[u] \in Conn /\ tfd'[u] # None
    BY <2>2 DEF Shape
  <2> QED
    BY <1>9, <2>1, <2>2, <2>3, <2>4 DEF HandlerClose, TypeOK, Shape, reg, enq, link
<1> QED
  BY <1>2, <1>3, <1>4, <1>5, <1>6, <1>7, <1>8, <1>9 DEF Handler

LEMMA DialType ==
    ASSUME TypeInv, NEW d \in Dialer, Dial(d)
    PROVE  TypeInv'
<1> USE DEF TypeInv
<1>1. ASSUME NEW l \in Link, NEW f \in FD, DialCreate(d, l, f) PROVE TypeInv'
  BY <1>1 DEF DialCreate, TypeOK, Shape, Conn, thr, reg, enq
<1>2. CASE DialNoSocket(d)
  BY <1>2 DEF DialNoSocket, TypeOK, Shape, env, thr, reg, enq
<1>3. CASE DialConnected(d)
  <2>1. tpc' \in {[tpc EXCEPT ![dial[d]] = "failed"], [tpc EXCEPT ![dial[d]] = "start"]}
    BY <1>3 DEF DialConnected
  <2>2. /\ tpc' \in [Conn -> {"none", "start", "call", "recv", "insert", "post",
                              "reset", "close", "done", "failed"}]
        /\ \A t \in Conn : tpc'[t] = "recv" => tpc[t] = "recv"
    BY <2>1 DEF TypeOK
  <2> QED
    BY <1>3, <2>2 DEF DialConnected, TypeOK, Shape, reg, enq
<1>4. CASE DialRefused(d)
  <2>1. tainted' \in SUBSET FD
    BY <1>4 DEF DialRefused, TypeOK
  <2>2. fd' \in [FD -> Conn \cup {None}]
    BY <1>4 DEF DialRefused, TypeOK
  <2> QED
    BY <1>4, <2>1, <2>2 DEF DialRefused, TypeOK, Shape, thr, reg, enq
<1>5. CASE DialBind(d)
  <2>1. known' \in SUBSET Link
    BY <1>5 DEF DialBind, TypeOK
  <2> QED
    BY <1>5, <2>1 DEF DialBind, TypeOK, Shape, thr, reg, enq
<1>6. CASE DialReset(d)
  BY <1>6 DEF DialReset, TypeOK, Shape, env, thr, reg, enq
<1> QED
  BY <1>1, <1>2, <1>3, <1>4, <1>5, <1>6 DEF Dial

LEMMA MainType ==
    ASSUME TypeInv, OnDisconnect \/ OnLost \/ OnPdu \/ MainInsert
    PROVE  TypeInv'
<1> USE DEF TypeInv
<1>1. CASE OnDisconnect
  BY <1>1, QueueHead, UnbindType
     DEF OnDisconnect, Dequeue, TypeOK, Shape, env, thr, enq, link
<1>2. CASE OnLost
  BY <1>2, QueueHead DEF OnLost, Dequeue, TypeOK, Shape, env, thr, enq, link
<1>3. CASE OnPdu
  <2>1. /\ queue # <<>> /\ queue' = Tail(queue)
        /\ Handle(Main, Head(queue).fd, Head(queue).pdu, Head(queue).src)
        /\ Head(queue).pdu \in Pdu /\ Main \in Worker
        /\ UNCHANGED <<fd, peer, center, known, direct, tpc, tfd, ton, elist,
                       sockfd, dpc, dial, tainted>>
    BY <1>3 DEF OnPdu, Dequeue, Worker, env, thr, link
  <2>2. queue' \in Seq(Event)
    BY <2>1, QueueHead
  <2>3. /\ device' \in SUBSET Row
        /\ job' \in [Worker -> Row \cup {None}]
        /\ asked' \in [FD -> Nat] /\ todo' \in [FD -> Nat]
        /\ hand' \in FD \cup {None}
        /\ epc' \in {epc, "overrun"}
        /\ epc' = "close" => hand' \in FD
    BY <2>1, QueueHead, HandleType
  <2> QED
    BY <2>1, <2>2, <2>3 DEF TypeOK, Shape
<1>4. CASE MainInsert
  <2>1. Main \in Worker
    BY DEF Worker
  <2> QED
    BY <1>4, <2>1, FinishType DEF MainInsert, TypeOK, Shape, env, thr, enq, link
<1> QED
  BY <1>1, <1>2, <1>3, <1>4

LEMMA EnquireType ==
    ASSUME TypeInv, Enquire
    PROVE  TypeInv'
<1> USE DEF TypeInv
<1>1. CASE EnqWake
  BY <1>1 DEF EnqWake, TypeOK, Shape, env, thr, reg, link
<1>2. ASSUME NEW f \in FD, EnqDelete(f) PROVE TypeInv'
  <2>1. [todo EXCEPT ![f] = @ - 1] \in [FD -> Nat]
    BY <1>2 DEF EnqDelete, TypeOK
  <2> QED
    BY <1>2, <2>1 DEF EnqDelete, TypeOK, Shape, env, thr, link
<1>3. CASE EnqClose
  <2>1. hand \in FD /\ Close(hand, None)
    BY <1>3 DEF EnqClose, Shape
  <2>2. /\ fd' \in [FD -> Conn \cup {None}]
        /\ peer' \in [Conn -> {"unborn", "open", "shut"}]
        /\ known' \in SUBSET Link
        /\ tainted' \in SUBSET FD
    BY <2>1, CloseType
  <2> QED
    BY <1>3, <2>2 DEF EnqClose, TypeOK, Shape, thr, reg, link
<1>4. CASE EnqClear
  BY <1>4 DEF EnqClear, TypeOK, Shape, env, thr, reg, link
<1>5. CASE EnqSelect
  BY <1>5 DEF EnqSelect, TypeOK, Shape, env, thr, reg, link
<1>6. ASSUME NEW r \in elist, EnqPush(r) PROVE TypeInv'
  <2>1. asked' \in [FD -> Nat]
    <3>1. r.fd \in FD \cup {None}
      BY DEF TypeOK, Row
    <3>2. ASSUME NEW f \in FD
          PROVE  [asked EXCEPT ![f] = @ + 1] \in [FD -> Nat]
      BY DEF TypeOK
    <3>3. CASE r.fd = None
      BY <1>6, <3>3 DEF EnqPush, TypeOK
    <3>4. CASE r.fd \in FD
      <4>1. r.fd # None
        BY <3>4
      <4>2. asked' = [asked EXCEPT ![r.fd] = @ + 1]
        BY <1>6, <4>1 DEF EnqPush
      <4> QED
        BY <3>2, <3>4, <4>2
    <3> QED
      BY <3>1, <3>3, <3>4
  <2> QED
    BY <1>6, <2>1 DEF EnqPush, TypeOK, Shape, env, thr, reg, link
<1>7. CASE EnqLink
  BY <1>7 DEF EnqLink, TypeOK, Shape, env, thr, reg
<1>8. CASE EnqRest
  BY <1>8 DEF EnqRest, TypeOK, Shape, env, thr, reg, link
<1>9. CASE DialCheck
  BY <1>9 DEF DialCheck, TypeOK, Shape, env, thr, reg, enq
<1>10. CASE Dial(Enq)
  BY <1>10, DialType DEF Dialer
<1>11. ASSUME NEW f \in FD, EnqOverrun(f) PROVE TypeInv'
  <2>1. /\ fd' \in [FD -> Conn \cup {None}]
        /\ peer' \in [Conn -> {"unborn", "open", "shut"}]
        /\ known' \in SUBSET Link
        /\ tainted' \in SUBSET FD
    BY <1>11, CloseType DEF EnqOverrun
  <2> QED
    BY <1>11, <2>1 DEF EnqOverrun, TypeOK, Shape, thr, enq, link
<1> QED
  BY <1>1, <1>2, <1>3, <1>4, <1>5, <1>6, <1>7, <1>8, <1>9, <1>10, <1>11 DEF Enquire

LEMMA TypeStep == TypeInv /\ [Next]_vars => TypeInv'
<1> SUFFICES ASSUME TypeInv, [Next]_vars PROVE TypeInv'
  OBVIOUS
<1>1. CASE UNCHANGED vars
  BY <1>1 DEF vars, env, thr, reg, enq, link, TypeInv, TypeOK, Shape
<1>2. CASE MainLoop
  <2>1. Main \in Dialer
    BY DEF Dialer
  <2> QED
    BY <1>2, <2>1, MainType, DialType DEF MainLoop
<1> QED
  BY <1>1, <1>2, EnvType, HandlerType, EnquireType DEF Next

LEMMA TypeInvariant == Spec => []TypeInv
BY TypeInit, TypeStep, PTL DEF Spec

\* Every reachable state of either program has its types: ackPacket never
\* erases an entry that is not there, and the drop loop closes numbers only.
THEOREM ControllerTypeCorrect == Spec => []TypeOK
<1>1. TypeInv => TypeOK
  BY DEF TypeInv
<1> QED
  BY <1>1, TypeInvariant, PTL

-----------------------------------------------------------------------------
(***************************************************************************)
(* One row for each id.  Where the main thread handles every PDU it alone  *)
(* has a bind under way, whose id has no row.                              *)
(***************************************************************************)
Single ==
    ~direct =>
        /\ \A t \in Conn : job[t] = None
        /\ \A r \in device : job[Main] # None => r.id # job[Main].id
        /\ OneRowPerId

\* The steps that bring no row and no bind.
LEMMA SingleCalm ==
    ASSUME TypeOK, Single, direct' = direct,
           UNCHANGED job, \/ device' \subseteq device
                          \/ \E f : SetUnbindState(f)
    PROVE  Single'
<1> SUFFICES ASSUME ~direct PROVE Single'
  BY DEF Single
<1>1. \A r \in device' : \E q \in device : q.id = r.id
  <2>1. ASSUME NEW q \in device
        PROVE  [q EXCEPT !.status = 0].id = q.id
    <3>1. q \in Row
      BY DEF TypeOK
    <3> QED
      BY <3>1 DEF Row
  <2>2. CASE device' \subseteq device
    BY <2>2
  <2>3. ASSUME NEW f, SetUnbindState(f), NEW r \in device'
        PROVE  \E q \in device : q.id = r.id
    <3>1. PICK q \in device : r = IF q.fd = f THEN [q EXCEPT !.status = 0] ELSE q
      BY <2>3 DEF SetUnbindState
    <3> QED
      BY <2>1, <3>1
  <2> QED
    BY <2>2, <2>3
<1>2. \A r, q \in device' : r.id = q.id => r = q
  <2>1. CASE device' \subseteq device
    BY <2>1 DEF Single, OneRowPerId
  <2>2. ASSUME NEW f, SetUnbindState(f)
        PROVE  \A r, q \in device' : r.id = q.id => r = q
    <3>1. \A q \in device : [q EXCEPT !.status = 0].id = q.id
      <4>1. \A q \in device : q \in Row
        BY DEF TypeOK
      <4> QED
        BY <4>1 DEF Row
    <3>2. \A r, q \in device : r.id = q.id => r = q
      BY DEF Single, OneRowPerId
    <3>3. ASSUME NEW r \in device', NEW q \in device', r.id = q.id
          PROVE  r = q
      <4>1. PICK a \in device : r = IF a.fd = f THEN [a EXCEPT !.status = 0] ELSE a
        BY <2>2 DEF SetUnbindState
      <4>2. PICK b \in device : q = IF b.fd = f THEN [b EXCEPT !.status = 0] ELSE b
        BY <2>2 DEF SetUnbindState
      <4>3. a = b
        BY <3>1, <3>2, <3>3, <4>1, <4>2
      <4> QED
        BY <4>1, <4>2, <4>3
    <3> QED
      BY <3>3
  <2> QED
    BY <2>1, <2>2
<1> QED
  BY <1>1, <1>2 DEF Single, OneRowPerId

\* Which of the two programs it is does not change.
LEMMA DirectFixed == [Next]_vars => direct' = direct
BY DEF Next, Accept, ClientStop, CenterDown, CenterUp, CenterDrop,
       Handler, ReceiverStart, HandlerCall, HandlerReceive, HandlerInsert,
       HandlerEnd, HandlerPostDisconnect, HandlerReset, HandlerClose,
       MainLoop, OnDisconnect, OnLost, OnPdu, MainInsert,
       Enquire, EnqWake, EnqDelete, EnqClose, EnqOverrun, EnqClear, EnqSelect,
       EnqPush, EnqLink, EnqRest, DialCheck, Dial, DialCreate, DialNoSocket,
       DialConnected, DialRefused, DialReset, DialBind, vars, env

LEMMA SingleStep == TypeInv /\ Single /\ [Next]_vars => Single'
<1> SUFFICES ASSUME TypeInv, Single, [Next]_vars PROVE Single'
  OBVIOUS
<1> USE DEF TypeInv
<1>1. direct' = direct
  BY DirectFixed
<1> SUFFICES ASSUME ~direct PROVE Single'
  BY <1>1 DEF Single
<1>2. CASE UNCHANGED vars \/ (\E c \in Client, f \in FD : Accept(c, f))
           \/ (\E c \in Client : ClientStop(c)) \/ CenterDown \/ CenterUp
           \/ (\E l \in Link : CenterDrop(l))
  <2>1. UNCHANGED <<job, device>>
    BY <1>2 DEF vars, reg, Accept, ClientStop, CenterDown, CenterUp, CenterDrop
  <2> QED
    BY <1>1, <2>1, SingleCalm
<1>3. ASSUME NEW t \in Conn, Handler(t) PROVE Single'
  <2>1. CASE HandlerReceive(t)
    <3>1. UNCHANGED <<job, device>>
      BY <2>1 DEF HandlerReceive
    <3> QED
      BY <1>1, <3>1, SingleCalm
  <2>2. CASE HandlerInsert(t)
    <3>1. FALSE
      BY <2>2 DEF HandlerInsert, FinishBind, Single
    <3> QED
      BY <3>1
  <2>3. CASE ~HandlerReceive(t) /\ ~HandlerInsert(t)
    <3>1. UNCHANGED <<job, device>>
      BY <1>3, <2>3 DEF Handler, reg, ReceiverStart, HandlerCall, HandlerEnd,
                        HandlerPostDisconnect, HandlerReset, HandlerClose
    <3> QED
      BY <1>1, <3>1, SingleCalm
  <2> QED
    BY <2>1, <2>2, <2>3
<1>4. CASE OnDisconnect \/ OnLost
  <2>1. /\ UNCHANGED job
        /\ device' \subseteq device \/ \E f : SetUnbindState(f)
    BY <1>4 DEF OnDisconnect, OnLost
  <2> QED
    BY <1>1, <2>1, SingleCalm
<1>5. CASE OnPdu
  <2> DEFINE p == Head(queue).pdu
             f == Head(queue).fd
             c == Head(queue).src
  <2>1. job[Main] = None /\ p \in Pdu /\ Handle(Main, f, p, c)
    BY <1>5 DEF OnPdu, Dequeue
  <2>2. CASE StartBind(Main, p.id, f, c)
    <3>1. device' = {r \in device : r.id # p.id}
      BY <2>2 DEF StartBind
    <3>2. job'[Main].id = p.id /\ \A t \in Conn : job'[t] = None
      BY <2>2 DEF StartBind, Single, TypeOK, Worker
    <3> QED
      BY <1>1, <3>1, <3>2 DEF Single, OneRowPerId
  <2>3. CASE SetUnbindState(f) /\ UNCHANGED job
    BY <1>1, <2>3, SingleCalm
  <2>4. CASE AckPacket(f)
    <3>1. UNCHANGED <<job, device>>
      BY <2>4 DEF AckPacket
    <3> QED
      BY <1>1, <3>1, SingleCalm
  <2> QED
    BY <2>1, <2>2, <2>3, <2>4 DEF Handle
<1>6. CASE MainInsert
  <2>1. /\ device' = device \cup {job[Main]} /\ job[Main] # None
        /\ job' = [job EXCEPT ![Main] = None]
    BY <1>6 DEF MainInsert, FinishBind
  <2>2. job'[Main] = None /\ \A t \in Conn : job'[t] = None
    BY <2>1 DEF Single, TypeOK, Worker
  <2> QED
    BY <1>1, <2>1, <2>2 DEF Single, OneRowPerId
<1>7. ASSUME NEW d \in Dialer, Dial(d) PROVE Single'
  <2>1. UNCHANGED <<job, device>>
    BY <1>7 DEF Dial, DialCreate, DialNoSocket, DialConnected, DialRefused, DialReset,
                DialBind, reg
  <2> QED
    BY <1>1, <2>1, SingleCalm
<1>8. CASE Enquire
  <2>1. CASE \E f \in FD : EnqDelete(f) \/ EnqOverrun(f)
    <3>1. UNCHANGED job /\ device' \subseteq device
      BY <2>1 DEF EnqDelete, EnqOverrun
    <3> QED
      BY <1>1, <3>1, SingleCalm
  <2>2. CASE Dial(Enq)
    BY <1>7, <2>2 DEF Dialer
  <2>3. CASE ~(\E f \in FD : EnqDelete(f) \/ EnqOverrun(f)) /\ ~Dial(Enq)
    <3>1. UNCHANGED <<job, device>>
      BY <1>8, <2>3 DEF Enquire, reg, EnqWake, EnqClose, EnqClear, EnqSelect, EnqPush,
                        EnqLink, EnqRest, DialCheck
    <3> QED
      BY <1>1, <3>1, SingleCalm
  <2> QED
    BY <2>1, <2>2, <2>3
<1> QED
  BY <1>2, <1>3, <1>4, <1>5, <1>6, <1>7, <1>8 DEF Next, MainLoop, Dialer

\* In ControllerClient an id has one row, whoever bound with it and whenever.
THEOREM OneRowPerIdHolds == Spec => []OneRowPerId
<1>1. Init => Single
  BY DEF Init, Single, OneRowPerId, Worker
<1>2. Single => OneRowPerId
  BY DEF Single, OneRowPerId
<1> QED
  BY <1>1, <1>2, SingleStep, TypeInvariant, PTL DEF Spec

-----------------------------------------------------------------------------
(***************************************************************************)
(* Who connects when.  The enquire-link thread connects in its own last    *)
(* stage only, and not while the main thread is on its way to a first link *)
(* or undoing a first attempt: until then no receiver runs.                *)
(***************************************************************************)
\* m_nSocketFD is reset by a dialer or by a receiver, never by a client's thread.
NoClientResets == \A c \in Client : tpc[c] \notin {"start", "reset"}

EnqLast == epc # "link" => dpc[Enq] = "idle"

DialHeld == \A d \in Dialer : dpc[d] # "connect" => dial[d] = None

MainFirst ==
    dpc[Main] \in {"create", "connect", "reset"} =>
        /\ dpc[Enq] \in {"idle", "check"}
        /\ dpc[Main] # "create" => sockfd # None
        /\ \A l \in Link : tpc[l] = "none"

DialInv == NoClientResets /\ EnqLast /\ DialHeld /\ MainFirst

LEMMA DialHandler ==
    ASSUME TypeInv, DialInv, NEW t \in Conn, Handler(t)
    PROVE  DialInv' /\ UNCHANGED <<dpc, dial>>
<1> USE DEF TypeInv, DialInv
<1>1. /\ UNCHANGED <<dpc, dial>>
      /\ tpc[t] # "none"
      /\ \A u \in Conn : u # t => tpc'[u] = tpc[u]
      /\ \A l \in Link : l \in Conn
      /\ \A c \in Client : c \in Conn /\ c \notin Link
  BY DEF Conn, Handler, ReceiverStart, HandlerCall, HandlerReceive, HandlerInsert,
         HandlerEnd, HandlerPostDisconnect, HandlerReset, HandlerClose, link, TypeOK
<1>2. DialHeld'
  BY <1>1 DEF DialHeld
<1>3. NoClientResets'
  <2>1. t \in Client => tpc'[t] \notin {"start", "reset"}
    BY <1>1 DEF NoClientResets, Handler, ReceiverStart, HandlerCall, HandlerReceive,
         HandlerInsert, HandlerEnd, HandlerPostDisconnect, HandlerReset, HandlerClose,
         TypeOK
  <2> QED
    BY <1>1, <2>1 DEF NoClientResets
<1>4. EnqLast'
  <2>1. epc' = "link" <=> epc = "link"
    <3>1. CASE HandlerReceive(t)
      <4>1. PICK p \in Pdu :
               IF direct
               THEN Handle(t, tfd[t], p, ton[t])
               ELSE UNCHANGED epc
        BY <3>1 DEF HandlerReceive
      <4>2. epc' \in {epc, "overrun"} /\ (epc' # epc => epc \in {"drop", "close"})
        BY <4>1 DEF Handle, StartBind, AckPacket, Shift, Dropping
      <4> QED
        BY <4>2
    <3>2. CASE ~HandlerReceive(t)
      BY <3>2 DEF Handler, ReceiverStart, HandlerCall, HandlerInsert, HandlerEnd,
         HandlerPostDisconnect, HandlerReset, HandlerClose, enq
    <3> QED
      BY <3>1, <3>2
  <2> QED
    BY <1>1, <2>1 DEF EnqLast
<1>5. MainFirst'
  <2> SUFFICES ASSUME dpc[Main] \in {"create", "connect", "reset"}
               PROVE  sockfd' = sockfd /\ t \notin Link
    BY <1>1 DEF MainFirst
  <2>1. t \notin Link
    BY <1>1 DEF MainFirst
  <2>2. tpc[t] # "reset"
    BY <2>1 DEF NoClientResets, Conn
  <2> QED
    BY <2>1, <2>2 DEF Handler, ReceiverStart, HandlerCall, HandlerReceive,
       HandlerInsert, HandlerEnd, HandlerPostDisconnect, HandlerReset, HandlerClose, link
<1> QED
  BY <1>1, <1>3, <1>4, <1>5, <1>2

LEMMA DialDial ==
    ASSUME TypeInv, DialInv, NEW d \in Dialer, Dial(d)
    PROVE  DialInv'
<1> USE DEF TypeInv, DialInv
<1>1. /\ \A l \in Link : l \in Conn
      /\ \A c \in Client : c \in Conn /\ c \notin Link /\ c # None
      /\ epc' = epc /\ \A e \in Dialer : e # d => dpc'[e] = dpc[e]
      /\ dpc[d] \in {"create", "connect", "reset", "bind"}
      /\ Main \in Dialer /\ Enq \in Dialer /\ (d = Main \/ d = Enq)
  BY DEF Conn, Dial, DialCreate, DialNoSocket, DialConnected, DialRefused, DialReset,
         DialBind, enq, TypeOK, Dialer
<1>2. EnqLast'
  BY <1>1 DEF EnqLast
<1>3. DialHeld'
  <2>1. /\ \A e \in Dialer : e # d => dial'[e] = dial[e]
        /\ dpc'[d] # "connect" => dial'[d] = None
    BY DEF Dial, DialCreate, DialNoSocket, DialConnected, DialRefused, DialReset,
           DialBind, TypeOK, DialHeld
  <2> QED
    BY <1>1, <2>1 DEF DialHeld
<1>4. NoClientResets'
  <2>1. CASE DialConnected(d)
    <3>1. dial[d] \in Link \cup {None}
      BY DEF TypeOK
    <3>2. \A c \in Client : tpc'[c] = tpc[c]
      BY <1>1, <2>1, <3>1 DEF DialConnected, TypeOK
    <3> QED
      BY <3>2 DEF NoClientResets
  <2>2. CASE ~DialConnected(d)
    <3>1. tpc' = tpc
      BY <2>2 DEF Dial, DialCreate, DialNoSocket, DialRefused, DialReset, DialBind, thr
    <3> QED
      BY <3>1 DEF NoClientResets
  <2> QED
    BY <2>1, <2>2
<1>5. MainFirst'
  <2>1. CASE d = Enq
    <3>1. dpc[Main] \notin {"create", "connect", "reset"}
      BY <1>1, <2>1 DEF MainFirst
    <3> QED
      BY <1>1, <2>1, <3>1 DEF MainFirst
  <2>2. CASE d = Main
    <3>1. CASE DialNoSocket(d) \/ DialConnected(d) \/ DialReset(d) \/ DialBind(d)
      <4>1. dpc'[Main] \in {"bind", "idle"}
        BY <1>1, <2>2, <3>1 DEF DialNoSocket, DialConnected, DialReset, DialBind, TypeOK
      <4> QED
        BY <4>1 DEF MainFirst
    <3>2. CASE \/ \E l \in Link, f \in FD : DialCreate(d, l, f)
               \/ DialRefused(d)
      <4>1. /\ dpc[Main] \in {"create", "connect"} /\ UNCHANGED tpc
            /\ dpc'[Main] # "create"
            /\ dpc'[Main] = "connect" \/ dpc'[Main] = "reset" => sockfd' # None
        BY <1>1, <2>2, <3>2 DEF DialCreate, DialRefused, thr, TypeOK
      <4> QED
        BY <1>1, <2>2, <4>1 DEF MainFirst
    <3> QED
      BY <3>1, <3>2 DEF Dial
  <2> QED
    BY <1>1, <2>1, <2>2
<1> QED
  BY <1>2, <1>4, <1>5, <1>3

\* What the enquire-link thread does outside connectCenter.
LEMMA DialEnquire ==
    ASSUME TypeInv, DialInv, Enquire, ~Dial(Enq)
    PROVE  /\ DialInv' /\ UNCHANGED <<tpc, tfd, ton, sockfd, dial>>
           /\ dpc'[Main] = dpc[Main]
           /\ dpc'[Enq] # dpc[Enq] =>
                  dpc[Enq] \in {"idle", "check"} /\ dpc'[Enq] \in {"check", "create", "idle"}
<1> USE DEF TypeInv, DialInv
<1>1. /\ UNCHANGED <<tpc, tfd, ton, sockfd, dial>>
      /\ Main \in Dialer /\ Enq \in Dialer
  BY DEF Enquire, EnqWake, EnqDelete, EnqClose, EnqOverrun, EnqClear, EnqSelect, EnqPush,
         EnqLink, EnqRest, DialCheck, thr, link, enq, Dialer
<1>2. CASE EnqLink
  <2>1. /\ dpc'[Main] = dpc[Main] /\ dpc'[Enq] = "check" /\ epc' = "link"
        /\ dpc[Enq] = "idle"
    BY <1>1, <1>2 DEF EnqLink, EnqLast, TypeOK
  <2> QED
    BY <1>1, <2>1 DEF NoClientResets, EnqLast, DialHeld, MainFirst, Dialer
<1>3. CASE DialCheck
  <2>1. /\ dpc'[Main] = dpc[Main] /\ dpc[Enq] = "check" /\ epc' = epc
        /\ dpc'[Enq] \in {"create", "idle"} /\ dpc[Main] # "create"
        /\ dpc'[Enq] = "create" => sockfd = None
    BY <1>1, <1>3 DEF DialCheck, enq, TypeOK
  <2> QED
    BY <1>1, <2>1 DEF NoClientResets, EnqLast, DialHeld, MainFirst, Dialer
<1>4. CASE ~EnqLink /\ ~DialCheck
  <2>1. UNCHANGED dpc /\ (epc' # "link" => epc # "link" \/ dpc[Enq] = "idle")
    BY <1>4 DEF Enquire, EnqWake, EnqDelete, EnqClose, EnqOverrun, EnqClear, EnqSelect,
         EnqPush, EnqRest, link, enq
  <2>2. dpc' = dpc /\ (epc' # "link" => dpc[Enq] = "idle")
    BY <2>1 DEF EnqLast
  <2>3. NoClientResets' /\ EnqLast' /\ DialHeld'
    BY <1>1, <2>2 DEF NoClientResets, EnqLast, DialHeld
  <2>4. MainFirst'
    BY <1>1, <2>2 DEF MainFirst
  <2> QED
    BY <1>1, <2>2, <2>3, <2>4
<1> QED
  BY <1>2, <1>3, <1>4

LEMMA DialStep == TypeInv /\ DialInv /\ [Next]_vars => DialInv'
<1> SUFFICES ASSUME TypeInv, DialInv, [Next]_vars PROVE DialInv'
  OBVIOUS
<1>1. ASSUME NEW c \in Client, NEW f \in FD, Accept(c, f) PROVE DialInv'
  <2>1. /\ UNCHANGED <<epc, sockfd, dpc, dial>>
        /\ c \in Conn /\ c \notin Link
        /\ tpc' = [tpc EXCEPT ![c] = "call"]
    BY <1>1 DEF Accept, Conn, enq, link
  <2>2. /\ tpc'[c] = "call"
        /\ \A u \in Conn : u # c => tpc'[u] = tpc[u]
    BY <2>1 DEF TypeInv, TypeOK
  <2> QED
    BY <2>1, <2>2 DEF DialInv, NoClientResets, EnqLast, DialHeld, MainFirst, Conn
<1>2. CASE (\E c \in Client : ClientStop(c)) \/ CenterDown \/ CenterUp
           \/ (\E l \in Link : CenterDrop(l)) \/ UNCHANGED vars
           \/ OnDisconnect \/ OnLost \/ MainInsert
  <2>1. UNCHANGED <<epc, tpc, sockfd, dpc, dial>>
    BY <1>2 DEF ClientStop, CenterDown, CenterUp, CenterDrop, vars, OnDisconnect, OnLost,
                MainInsert, thr, enq, link
  <2> QED
    BY <2>1 DEF DialInv, NoClientResets, EnqLast, DialHeld, MainFirst
<1>3. CASE OnPdu
  <2>1. UNCHANGED <<tpc, sockfd, dpc, dial>>
    BY <1>3 DEF OnPdu, thr, link
  <2>2. epc' \in {epc, "overrun"} /\ (epc' # epc => epc \in {"drop", "close"})
    BY <1>3 DEF OnPdu, Handle, StartBind, AckPacket, Shift, Dropping
  <2> QED
    BY <2>1, <2>2 DEF DialInv, NoClientResets, EnqLast, DialHeld, MainFirst
<1> QED
  BY <1>1, <1>2, <1>3, DialHandler, DialDial, DialEnquire DEF Next, MainLoop, Dialer

LEMMA DialInvariant == Spec => []DialInv
<1>1. Init => DialInv
  BY DEF Init, DialInv, NoClientResets, EnqLast, DialHeld, MainFirst, Conn, Dialer
<1> QED
  BY <1>1, DialStep, TypeInvariant, PTL DEF Spec

-----------------------------------------------------------------------------
(***************************************************************************)
(* Whose a number is.  As long as no foreign thread has closed it, it      *)
(* denotes the client whose thread goes by it, or a socket to the center.  *)
(***************************************************************************)
Born == \A c \in Client : peer[c] = "unborn" => tpc[c] = "none"

OwnClient ==
    \A c \in Client : Live(c) =>
        /\ tpc[c] \notin {"start", "reset"}
        /\ tfd[c] \in FD
        /\ tfd[c] \notin tainted =>
               fd[tfd[c]] = c /\ (tpc[c] = "recv" => ton[c] = c)

OwnLink ==
    \A l \in Link :
        /\ tpc[l] \in {"call", "recv", "insert", "post", "reset", "close"}
        /\ tfd[l] # None /\ tfd[l] \notin tainted
        => fd[tfd[l]] \in Link /\ (tpc[l] = "recv" => ton[l] \notin Client)

\* m_nSocketFD is reset before the number is closed.
CloseLast ==
    \A l \in Link :
        tpc[l] = "close" /\ tfd[l] # None /\ fd[tfd[l]] = l => sockfd # tfd[l]

\* No receiver is about to learn a number that a failed dial has just closed.
NoneLearns ==
    Resetting /\ sockfd # None /\ sockfd \notin tainted =>
        \A l \in Link : tpc[l] # "start"

OwnerInv ==
    Born /\ OwnClient /\ OwnLink /\ CloseLast /\ NoneLearns /\ LinkDenotesCenter

LEMMA OwnerInit == Init => OwnerInv
BY DEF Init, OwnerInv, Born, OwnClient, OwnLink, CloseLast, NoneLearns,
       LinkDenotesCenter, Live, Conn

\* A close by a thread that is done with the number, or is no handler.
LEMMA OwnerClose ==
    ASSUME TypeInv, OwnerInv,
           NEW f \in FD, NEW t \in Conn \cup {None}, Close(f, t),
           t \in Conn => tpc[t] = "close" /\ tfd[t] = f,
           tpc' = IF t = None THEN tpc ELSE [tpc EXCEPT ![t] = "done"],
           \A u \in Conn : u # t => tfd'[u] = tfd[u],
           UNCHANGED <<ton, sockfd, dpc>>
    PROVE  OwnerInv'
<1> USE DEF TypeInv, OwnerInv
<1>1. /\ fd' = [fd EXCEPT ![f] = None]
      /\ tainted' = IF InUse(f, t) THEN tainted \cup {f} ELSE tainted
      /\ \A c \in Conn : peer'[c] \in {peer[c], "shut"}
  BY DEF Close, TypeOK
<1>2. /\ \A g \in FD : g # f => fd'[g] = fd[g]
      /\ fd'[f] = None
  BY <1>1 DEF TypeOK
<1>3. /\ \A u \in Conn : u # t => tpc'[u] = tpc[u] /\ tfd'[u] = tfd[u]
      /\ t \in Conn => tpc'[t] = "done"
      /\ Resetting' = Resetting
  BY DEF TypeOK, Resetting
<1>4. ASSUME NEW u \in Conn, u # t, Live(u), tfd[u] = f
      PROVE  f \in tainted'
  BY <1>1, <1>4 DEF InUse, GoesBy
<1>5. \A g : g \notin tainted' => g \notin tainted
  BY <1>1
<1>6. Born'
  BY <1>1, <1>3 DEF Born, Conn
<1>7. OwnClient'
  <2> SUFFICES ASSUME NEW c \in Client, Live(c)'
               PROVE  /\ tpc'[c] \notin {"start", "reset"}
                      /\ tfd'[c] \in FD
                      /\ tfd'[c] \notin tainted' =>
                             fd'[tfd'[c]] = c /\ (tpc'[c] = "recv" => ton'[c] = c)
    BY DEF OwnClient
  <2>1. c # t /\ tpc'[c] = tpc[c] /\ Live(c) /\ c \in Conn /\ tfd'[c] = tfd[c]
    BY <1>3 DEF Live, Conn
  <2> QED
    BY <1>2, <1>4, <1>5, <2>1 DEF OwnClient
<1>8. OwnLink'
  <2> SUFFICES ASSUME NEW l \in Link,
                      tpc'[l] \in {"call", "recv", "insert", "post", "reset", "close"},
                      tfd'[l] # None, tfd'[l] \notin tainted'
               PROVE  fd'[tfd'[l]] \in Link /\ (tpc'[l] = "recv" => ton'[l] \notin Client)
    BY DEF OwnLink
  <2>1. l # t /\ tpc'[l] = tpc[l] /\ l \in Conn /\ Live(l) /\ tfd'[l] = tfd[l]
    BY <1>3 DEF Live, Conn
  <2>2. tfd[l] \in FD
    BY <2>1 DEF TypeOK
  <2> QED
    BY <1>2, <1>4, <1>5, <2>1, <2>2 DEF OwnLink
<1>9. CloseLast'
  <2> SUFFICES ASSUME NEW l \in Link, tpc'[l] = "close", tfd'[l] # None, fd'[tfd'[l]] = l
               PROVE  sockfd' # tfd'[l]
    BY DEF CloseLast
  <2>1. l # t /\ tpc'[l] = tpc[l] /\ l \in Conn /\ tfd'[l] = tfd[l] /\ tfd[l] \in FD
    BY <1>3 DEF Conn, TypeOK
  <2>2. l # None
    BY <2>1
  <2> QED
    BY <1>2, <2>1, <2>2 DEF CloseLast
<1>10. LinkDenotesCenter'
  <2> SUFFICES ASSUME sockfd # None, sockfd \notin tainted', ~Resetting
               PROVE  fd'[sockfd] \in Link
    BY <1>3 DEF LinkDenotesCenter
  <2>1. fd[sockfd] \in Link /\ sockfd \in FD
    BY <1>5 DEF LinkDenotesCenter, TypeOK
  <2>2. sockfd # f
    <3> SUFFICES ASSUME sockfd = f PROVE FALSE
      OBVIOUS
    <3>1. t \in Link /\ fd[f] = t
      BY <1>1 DEF InUse
    <3> QED
      BY <3>1 DEF CloseLast, Conn
  <2> QED
    BY <1>2, <2>1, <2>2
<1>11. NoneLearns'
  <2> SUFFICES ASSUME Resetting, sockfd # None, sockfd \notin tainted', NEW l \in Link
               PROVE  tpc'[l] # "start"
    BY <1>3 DEF NoneLearns
  <2>1. tpc[l] # "start" /\ l \in Conn
    BY <1>5 DEF NoneLearns, Conn
  <2> QED
    BY <1>3, <2>1
<1> QED
  BY <1>6, <1>7, <1>8, <1>9, <1>10, <1>11

\* The steps of the handler threads but close() move one thread.
LEMMA OwnerHandler ==
    ASSUME TypeInv, DialInv, OwnerInv, NEW t \in Conn, Handler(t)
    PROVE  OwnerInv'
<1> USE DEF TypeInv, OwnerInv
<1>1. /\ t \in Client \/ (t \in Link /\ t \notin Client)
      /\ tfd[t] \in FD \cup {None}
      /\ \A c \in Client : c \in Conn
      /\ \A l \in Link : l \in Conn
      /\ Resetting' = Resetting
  <2>1. t \in Client \/ (t \in Link /\ t \notin Client)
    BY DEF Conn
  <2>2. tfd[t] \in FD \cup {None}
    BY DEF TypeOK
  <2>3. dpc' = dpc
    BY DialHandler
  <2> QED
    BY <2>1, <2>2, <2>3 DEF Conn, Resetting
<1>2. CASE ReceiverStart(t)
  <2>1. /\ tfd' = [tfd EXCEPT ![t] = sockfd]
        /\ tpc' = [tpc EXCEPT ![t] = "call"]
        /\ tpc[t] = "start"
        /\ UNCHANGED <<fd, peer, ton, sockfd, tainted>>
    BY <1>2 DEF ReceiverStart, env, link
  <2>2. t \in Link
    BY <1>1, <2>1 DEF OwnClient, Live
  <2>3. /\ tpc'[t] = "call" /\ tfd'[t] = sockfd
        /\ \A u \in Conn : u # t => tpc'[u] = tpc[u] /\ tfd'[u] = tfd[u]
    BY <2>1 DEF TypeOK
  <2>4. Born' /\ OwnClient'
    BY <1>1, <2>1, <2>2, <2>3 DEF Born, OwnClient, Live, Conn
  <2>5. OwnLink' /\ CloseLast' /\ LinkDenotesCenter' /\ NoneLearns'
    BY <1>1, <2>1, <2>2, <2>3 DEF OwnLink, CloseLast, LinkDenotesCenter, NoneLearns
  <2> QED
    BY <2>4, <2>5
<1>3. CASE HandlerCall(t)
  <2>1. /\ tpc[t] = "call"
        /\ UNCHANGED <<fd, peer, tfd, sockfd, tainted>>
        /\ \A u \in Conn : u # t => tpc'[u] = tpc[u] /\ ton'[u] = ton[u]
    BY <1>3 DEF HandlerCall, env, link, TypeOK
  <2>2. tpc'[t] \in {"post", "recv"}
    BY <1>3 DEF HandlerCall, TypeOK
  <2>3. tpc'[t] = "recv" => ton'[t] = fd[tfd[t]] /\ tfd[t] # None
    BY <1>3 DEF HandlerCall, TypeOK
  <2>4. Born'
    BY <1>1, <2>1, <2>2 DEF Born
  <2>5. OwnClient'
    BY <1>1, <2>1, <2>2, <2>3 DEF OwnClient, Live
  <2>6. OwnLink'
    <3>1. \A l \in Link : l \notin Client
      OBVIOUS
    <3> QED
      BY <1>1, <2>1, <2>2, <2>3, <3>1 DEF OwnLink
  <2>7. CloseLast' /\ LinkDenotesCenter' /\ NoneLearns'
    BY <1>1, <2>1, <2>2 DEF CloseLast, LinkDenotesCenter, NoneLearns
  <2> QED
    BY <2>4, <2>5, <2>6, <2>7
<1>4. CASE \/ HandlerReceive(t) \/ HandlerInsert(t) \/ HandlerEnd(t)
           \/ HandlerPostDisconnect(t)
  <2>1. /\ tpc[t] \in {"recv", "insert", "post"}
        /\ UNCHANGED <<fd, peer, tfd, sockfd, tainted>>
        /\ \A u \in Conn : u # t => tpc'[u] = tpc[u] /\ ton'[u] = ton[u]
    BY <1>4 DEF HandlerReceive, HandlerInsert, HandlerEnd, HandlerPostDisconnect,
                env, link, TypeOK
  <2>2. /\ tpc'[t] \in {"call", "insert", "post", "reset", "close"}
        /\ t \in Client => tpc'[t] # "reset"
        /\ t \in Link => tpc'[t] # "close"
    BY <1>1, <1>4 DEF HandlerReceive, HandlerInsert, HandlerEnd, HandlerPostDisconnect,
                TypeOK
  <2>3. Born'
    BY <1>1, <2>1, <2>2 DEF Born
  <2>4. OwnClient'
    BY <1>1, <2>1, <2>2 DEF OwnClient, Live
  <2>5. OwnLink'
    BY <1>1, <2>1, <2>2 DEF OwnLink
  <2>6. CloseLast' /\ LinkDenotesCenter' /\ NoneLearns'
    BY <1>1, <2>1, <2>2 DEF CloseLast, LinkDenotesCenter, NoneLearns
  <2> QED
    BY <2>3, <2>4, <2>5, <2>6
<1>5. CASE HandlerReset(t)
  <2>1. /\ tpc[t] = "reset"
        /\ UNCHANGED <<fd, peer, tfd, ton, tainted>>
        /\ \A u \in Conn : u # t => tpc'[u] = tpc[u]
        /\ tpc'[t] = "close"
        /\ sockfd' = IF sockfd = tfd[t] THEN None ELSE sockfd
    BY <1>5 DEF HandlerReset, env, TypeOK
  <2>2. Born'
    BY <1>1, <2>1 DEF Born
  <2>3. OwnClient'
    BY <1>1, <2>1 DEF OwnClient, Live
  <2>4. OwnLink'
    BY <1>1, <2>1 DEF OwnLink
  <2>5. CloseLast' /\ LinkDenotesCenter' /\ NoneLearns'
    BY <1>1, <2>1 DEF CloseLast, LinkDenotesCenter, NoneLearns
  <2> QED
    BY <2>2, <2>3, <2>4, <2>5
<1>6. CASE HandlerClose(t)
  <2>1. /\ tpc[t] = "close" /\ tpc' = [tpc EXCEPT ![t] = "done"]
        /\ UNCHANGED <<ton, sockfd, dpc>>
        /\ \A u \in Conn : u # t => tfd'[u] = tfd[u]
        /\ t \in Client => tfd'[t] = tfd[t]
    BY <1>1, <1>6 DEF HandlerClose, link, TypeOK
  <2>2. CASE tfd[t] # None
    <3>1. tfd[t] \in FD /\ Close(tfd[t], t) /\ t # None
      BY <1>1, <1>6, <2>2 DEF HandlerClose
    <3> QED
      BY <2>1, <3>1, OwnerClose
  <2>3. CASE tfd[t] = None
    <3>1. UNCHANGED <<fd, peer, tainted>>
      BY <1>6, <2>3 DEF HandlerClose
    <3>2. /\ \A u \in Conn : u # t => tpc'[u] = tpc[u]
          /\ tpc'[t] = "done"
      BY <2>1 DEF TypeOK
    <3>3. Born'
      BY <1>1, <2>1, <3>1, <3>2 DEF Born
    <3>4. OwnClient'
      BY <1>1, <2>1, <3>1, <3>2 DEF OwnClient, Live
    <3>5. OwnLink' /\ CloseLast' /\ LinkDenotesCenter' /\ NoneLearns'
      BY <1>1, <2>1, <3>1, <3>2 DEF OwnLink, CloseLast, LinkDenotesCenter, NoneLearns
    <3> QED
      BY <3>3, <3>4, <3>5
  <2> QED
    BY <2>2, <2>3
<1> QED
  BY <1>2, <1>3, <1>4, <1>5, <1>6 DEF Handler

LEMMA OwnerDial ==
    ASSUME TypeInv, DialInv, OwnerInv, NEW d \in Dialer, Dial(d)
    PROVE  OwnerInv'
<1> USE DEF TypeInv, OwnerInv
<1>1. /\ \A c \in Client : c \in Conn /\ c \notin Link /\ c # None
      /\ \A l \in Link : l \in Conn /\ l # None
  BY DEF Conn
\* While one dialer is to reset the field the other does not connect.
<1>2. /\ \A e \in Dialer : e # d => dpc'[e] = dpc[e]
      /\ dpc[d] \in {"create", "connect"} => ~Resetting
  <2>1. \A e \in Dialer : e # d => dpc'[e] = dpc[e]
    BY DEF Dial, DialCreate, DialNoSocket, DialConnected, DialRefused, DialReset,
           DialBind, TypeOK
  <2> QED
    BY <2>1 DEF DialInv, MainFirst, Resetting, Dialer
<1>3. ASSUME NEW l \in Link, NEW f \in FD, DialCreate(d, l, f) PROVE OwnerInv'
  <2>1. /\ fd[f] = None /\ ~Live(l)
        /\ fd'[f] = l /\ \A g \in FD : g # f => fd'[g] = fd[g]
        /\ sockfd' = f
        /\ \A c \in Client : peer'[c] = peer[c]
        /\ UNCHANGED <<tpc, tfd, ton, tainted>>
        /\ dpc[d] = "create" /\ dpc'[d] = "connect"
    BY <1>1, <1>3 DEF DialCreate, TypeOK, thr
  <2>2. Born' /\ LinkDenotesCenter' /\ NoneLearns'
    <3>1. ~Resetting'
      BY <1>2, <2>1 DEF Resetting
    <3> QED
      BY <1>1, <2>1, <3>1 DEF Born, LinkDenotesCenter, NoneLearns
  <2>3. OwnClient'
    BY <1>1, <2>1 DEF OwnClient, Live
  <2>4. OwnLink'
    <3>1. \A k \in Link : tfd[k] \in FD \cup {None}
      BY <1>1 DEF TypeOK
    <3> QED
      BY <1>1, <2>1, <3>1 DEF OwnLink
  <2>5. CloseLast'
    <3> SUFFICES ASSUME NEW k \in Link, tpc[k] = "close", tfd[k] # None, fd'[tfd[k]] = k
                 PROVE  f # tfd[k]
      BY <2>1 DEF CloseLast
    <3>1. k # l
      BY <2>1 DEF Live
    <3> QED
      BY <2>1, <3>1
  <2> QED
    BY <2>2, <2>3, <2>4, <2>5
<1>4. CASE DialNoSocket(d) \/ DialReset(d)
  <2>1. UNCHANGED <<fd, peer, tpc, tfd, ton, tainted>> /\ sockfd' = None
    BY <1>4 DEF DialNoSocket, DialReset, env, thr
  <2> QED
    BY <2>1 DEF Born, OwnClient, OwnLink, CloseLast, NoneLearns, LinkDenotesCenter, Live
<1>5. CASE DialConnected(d)
  <2> DEFINE k == dial[d]
  <2>1. /\ UNCHANGED <<fd, tfd, ton, sockfd, tainted>>
        /\ peer' = [peer EXCEPT ![k] = "open"]
        /\ \/ tpc' = [tpc EXCEPT ![k] = "start"]
           \/ tpc' = [tpc EXCEPT ![k] = "failed"]
        /\ k \in Link \cup {None}
        /\ dpc[d] = "connect" /\ dpc'[d] = "bind"
    BY <1>5 DEF DialConnected, TypeOK
  <2>2. /\ \A c \in Client : peer'[c] = peer[c] /\ tpc'[c] = tpc[c]
        /\ \A l \in Link : tpc'[l] = tpc[l] \/ tpc'[l] \in {"start", "failed"}
    BY <1>1, <2>1 DEF TypeOK
  <2>3. Born' /\ OwnClient'
    BY <2>1, <2>2 DEF Born, OwnClient, Live
  <2>4. OwnLink' /\ CloseLast'
    BY <2>1, <2>2 DEF OwnLink, CloseLast
  <2>5. ~Resetting /\ ~Resetting'
    BY <1>2, <2>1 DEF Resetting
  <2>6. LinkDenotesCenter' /\ NoneLearns'
    BY <2>1, <2>5 DEF LinkDenotesCenter, NoneLearns
  <2> QED
    BY <2>3, <2>4, <2>6
<1>6. CASE DialRefused(d)
  <2>1. /\ UNCHANGED <<tpc, tfd, ton, sockfd>>
        /\ sockfd # None => dpc'[d] = "reset"
        /\ fd' = IF sockfd = None THEN fd ELSE [fd EXCEPT ![sockfd] = None]
        /\ tainted' = IF sockfd # None /\ \E u \in Conn : GoesBy(u, sockfd)
                      THEN tainted \cup {sockfd} ELSE tainted
        /\ peer' = [peer EXCEPT ![dial[d]] = "shut"]
    BY <1>6 DEF DialRefused, TypeOK, thr
  <2>2. \A g \in FD : g # sockfd => fd'[g] = fd[g]
    BY <2>1 DEF TypeOK
  <2>3. /\ \A g : g \notin tainted' => g \notin tainted
        /\ \A u \in Conn : Live(u) /\ tfd[u] # None /\ tfd[u] \notin tainted' =>
               tfd[u] # sockfd
        /\ sockfd # None /\ sockfd \notin tainted' => \A u \in Conn : tpc[u] # "start"
    BY <2>1 DEF GoesBy, Live
  <2>4. Born'
    <3>1. \A c \in Client : peer'[c] \in {peer[c], "shut"}
      BY <1>1, <2>1 DEF TypeOK
    <3> QED
      BY <2>1, <3>1 DEF Born
  <2>5. OwnClient'
    <3>1. \A c \in Client : Live(c) => tfd[c] # None
      BY DEF OwnClient
    <3> QED
      BY <1>1, <2>1, <2>2, <2>3, <3>1 DEF OwnClient, Live
  <2>6. OwnLink'
    <3>1. \A k \in Link : tfd[k] \in FD \cup {None}
      BY <1>1 DEF TypeOK
    <3> QED
      BY <1>1, <2>1, <2>2, <2>3, <3>1 DEF OwnLink, Live
  <2>7. CloseLast'
    <3>1. \A k \in Link : tfd[k] \in FD \cup {None}
      BY <1>1 DEF TypeOK
    <3>2. \A g \in FD : fd'[g] \in {fd[g], None}
      BY <2>1 DEF TypeOK
    <3> QED
      BY <1>1, <2>1, <3>1, <3>2 DEF CloseLast
  <2>8. LinkDenotesCenter' /\ NoneLearns'
    BY <1>1, <2>1, <2>3 DEF LinkDenotesCenter, NoneLearns, Resetting
  <2> QED
    BY <2>4, <2>5, <2>6, <2>7, <2>8
<1>7. CASE DialBind(d)
  <2>1. /\ UNCHANGED <<fd, peer, tpc, tfd, ton, sockfd, tainted>>
        /\ dpc[d] = "bind" /\ dpc'[d] = "idle"
    BY <1>7 DEF DialBind, thr, TypeOK
  <2>2. Resetting' = Resetting
    BY <1>2, <2>1 DEF Resetting
  <2> QED
    BY <2>1, <2>2 DEF Born, OwnClient, OwnLink, CloseLast, NoneLearns,
                      LinkDenotesCenter, Live
<1> QED
  BY <1>3, <1>4, <1>5, <1>6, <1>7 DEF Dial

LEMMA OwnerStep == TypeInv /\ DialInv /\ OwnerInv /\ [Next]_vars => OwnerInv'
<1> SUFFICES ASSUME TypeInv, DialInv, OwnerInv, [Next]_vars PROVE OwnerInv'
  OBVIOUS
<1> USE DEF TypeInv, OwnerInv
<1>1. /\ \A c \in Client : c \in Conn /\ c \notin Link /\ c # None
      /\ \A l \in Link : l \in Conn /\ l # None
  BY DEF Conn
<1>2. CASE UNCHANGED <<fd, tpc, tfd, ton, sockfd, tainted>>
           /\ (\A c \in Client : peer'[c] = peer[c] \/ peer'[c] = "shut")
           /\ Resetting' = Resetting
  BY <1>2 DEF Born, OwnClient, OwnLink, CloseLast, NoneLearns, LinkDenotesCenter, Live
<1>3. ASSUME NEW c \in Client, NEW f \in FD, Accept(c, f) PROVE OwnerInv'
  <2>1. /\ fd[f] = None
        /\ fd'[f] = c /\ \A g \in FD : g # f => fd'[g] = fd[g]
        /\ peer'[c] = "open" /\ \A u \in Conn : u # c => peer'[u] = peer[u]
        /\ tpc'[c] = "call" /\ \A u \in Conn : u # c => tpc'[u] = tpc[u]
        /\ tfd'[c] = f /\ \A u \in Conn : u # c => tfd'[u] = tfd[u]
        /\ UNCHANGED <<ton, sockfd, tainted, dpc>>
    BY <1>1, <1>3 DEF Accept, TypeOK, link
  <2>2. Born'
    BY <1>1, <2>1 DEF Born
  <2>3. OwnClient'
    BY <1>1, <2>1 DEF OwnClient, Live
  <2>4. OwnLink'
    <3>1. \A k \in Link : tfd[k] \in FD \cup {None}
      BY <1>1 DEF TypeOK
    <3> QED
      BY <1>1, <2>1, <3>1 DEF OwnLink
  <2>5. CloseLast'
    <3>1. \A k \in Link : tfd[k] \in FD \cup {None}
      BY <1>1 DEF TypeOK
    <3> QED
      BY <1>1, <2>1, <3>1 DEF CloseLast
  <2>6. LinkDenotesCenter' /\ NoneLearns'
    <3>1. Resetting' = Resetting
      BY <2>1 DEF Resetting
    <3> QED
      BY <1>1, <2>1, <3>1 DEF LinkDenotesCenter, NoneLearns, TypeOK
  <2> QED
    BY <2>2, <2>3, <2>4, <2>5, <2>6
<1>4. CASE EnqClose \/ \E f \in FD : EnqOverrun(f)
  <2>1. PICK f \in FD : Close(f, None)
    BY <1>4 DEF EnqClose, EnqOverrun, Shape
  <2>2. UNCHANGED <<tpc, tfd, ton, sockfd, dpc>>
    BY <1>4 DEF EnqClose, EnqOverrun, thr, link
  <2>3. None \notin Conn
    OBVIOUS
  <2> QED
    BY <2>1, <2>2, <2>3, OwnerClose
<1>5. CASE (\E c \in Client : ClientStop(c)) \/ CenterDown \/ CenterUp
           \/ (\E l \in Link : CenterDrop(l)) \/ UNCHANGED vars
  <2>1. UNCHANGED <<fd, tpc, tfd, ton, sockfd, tainted, dpc>>
    BY <1>5 DEF ClientStop, CenterDown, CenterUp, CenterDrop, vars, env, thr, link
  <2>2. \A c \in Client : peer'[c] = peer[c] \/ peer'[c] = "shut"
    <3>1. ASSUME NEW c \in Client, ClientStop(c)
          PROVE  \A k \in Client : peer'[k] = peer[k] \/ peer'[k] = "shut"
      BY <1>1, <3>1 DEF ClientStop, TypeOK
    <3>2. CASE CenterDown
      BY <1>1, <3>2 DEF CenterDown, TypeOK
    <3>3. ASSUME NEW l \in Link, CenterDrop(l)
          PROVE  \A k \in Client : peer'[k] = peer[k] \/ peer'[k] = "shut"
      BY <1>1, <3>3 DEF CenterDrop, TypeOK
    <3>4. CASE CenterUp \/ UNCHANGED vars
      BY <3>4 DEF CenterUp, vars, env
    <3> QED
      BY <1>5, <3>1, <3>2, <3>3, <3>4
  <2> QED
    BY <1>2, <2>1, <2>2 DEF Resetting
<1>6. CASE OnDisconnect \/ OnLost \/ OnPdu \/ MainInsert
  <2>1. UNCHANGED <<fd, peer, tpc, tfd, ton, sockfd, tainted, dpc>>
    BY <1>6 DEF OnDisconnect, OnLost, OnPdu, MainInsert, env, thr, link
  <2> QED
    BY <1>2, <2>1 DEF Resetting
<1>7. CASE /\ Enquire /\ ~EnqClose /\ ~Dial(Enq)
           /\ ~\E f \in FD : EnqOverrun(f)
  <2>1. UNCHANGED <<fd, peer, tpc, tfd, ton, sockfd, tainted>>
    BY <1>7 DEF Enquire, EnqWake, EnqDelete, EnqClear, EnqSelect, EnqPush,
                EnqLink, EnqRest, DialCheck, env, thr, link
  <2>2. Resetting' = Resetting
    <3>1. /\ dpc'[Main] = dpc[Main]
          /\ dpc'[Enq] # dpc[Enq] => dpc[Enq] # "reset" /\ dpc'[Enq] # "reset"
      BY <1>7, DialEnquire
    <3> QED
      BY <3>1 DEF Resetting, Dialer
  <2> QED
    BY <1>2, <2>1, <2>2
<1>8. CASE Dial(Main) \/ Dial(Enq)
  BY <1>8, OwnerDial DEF Dialer
<1> QED
  BY <1>3, <1>4, <1>5, <1>6, <1>7, <1>8, OwnerHandler DEF Next, MainLoop, Enquire

\* m_nSocketFD names a socket to the center, so what is meant for the center goes
\* to no client, unless a thread has closed the number while another served it,
\* or a failed dial has closed it and is about to reset the field.
THEOREM LinkDenotesCenterHolds == Spec => []LinkDenotesCenter
<1>1. OwnerInv => LinkDenotesCenter
  BY DEF OwnerInv
<1> QED
  BY <1>1, OwnerInit, OwnerStep, TypeInvariant, DialInvariant, PTL DEF Spec

-----------------------------------------------------------------------------
(***************************************************************************)
(* The number in a bound row is that of a client whose thread has yet to   *)
(* post its disconnect, or the disconnect is in the queue; so is that in a *)
(* bind on its way there, the disconnect coming after it.                  *)
(***************************************************************************)
Serving(c, f) ==
    /\ c \in Client /\ tfd[c] = f
    /\ tpc[c] \in {"call", "recv", "insert", "post"}

Ends(k, f) ==
    \E j \in DOMAIN queue :
        j >= k /\ queue[j].fd = f /\ queue[j].pdu = Plain("disconnect")

Held(k, c, f) == Serving(c, f) \/ Ends(k, f)

RowsHeld ==
    \A r \in device : r.status = 1 /\ r.fd \notin tainted => Held(1, r.src, r.fd)

JobsHeld ==
    \A t \in Conn : job[t] # None /\ job[t].fd \notin tainted =>
        /\ job[t].src = t /\ t \in Client
        /\ tpc[t] = "insert" /\ tfd[t] = job[t].fd

MainJobHeld ==
    job[Main] # None /\ job[Main].fd \notin tainted =>
        Held(1, job[Main].src, job[Main].fd)

BindsHeld ==
    \A k \in DOMAIN queue :
        queue[k].pdu.kind = "bind" /\ queue[k].fd \notin tainted =>
            Held(k + 1, queue[k].src, queue[k].fd)

HeldInv == RowsHeld /\ JobsHeld /\ MainJobHeld /\ BindsHeld

LEMMA AppendEnds ==
    ASSUME TypeOK, NEW e \in Event, queue' = Append(queue, e)
    PROVE  /\ Len(queue) \in Nat /\ DOMAIN queue = 1 .. Len(queue)
           /\ DOMAIN queue' = 1 .. Len(queue) + 1
           /\ queue'[Len(queue) + 1] = e
           /\ \A k \in 1 .. Len(queue) : queue'[k] = queue[k]
           /\ \A k, f : Ends(k, f) => Ends(k, f)'
           /\ e.pdu = Plain("disconnect") =>
                  \A k \in 1 .. Len(queue) + 1 : \A f : f = e.fd => Ends(k, f)'
<1>1. queue \in Seq(Event) /\ Len(queue) \in Nat /\ DOMAIN queue = 1 .. Len(queue)
  BY LenProperties DEF TypeOK
<1>2. /\ DOMAIN queue' = 1 .. Len(queue) + 1
      /\ queue'[Len(queue) + 1] = e
      /\ \A k \in 1 .. Len(queue) : queue'[k] = queue[k]
  BY <1>1, AppendProperties, LenProperties
<1>3. \A k, f : Ends(k, f) => Ends(k, f)'
  <2> SUFFICES ASSUME NEW k, NEW f, Ends(k, f) PROVE Ends(k, f)'
    OBVIOUS
  <2>1. PICK j \in DOMAIN queue :
            j >= k /\ queue[j].fd = f /\ queue[j].pdu = Plain("disconnect")
    BY DEF Ends
  <2>2. j \in DOMAIN queue' /\ queue'[j] = queue[j]
    BY <1>1, <1>2, <2>1
  <2> QED
    BY <2>1, <2>2 DEF Ends, Plain
<1>4. ASSUME e.pdu = Plain("disconnect"), NEW k \in 1 .. Len(queue) + 1,
             NEW f, f = e.fd
      PROVE  Ends(k, f)'
  <2>1. Len(queue) + 1 \in DOMAIN queue' /\ Len(queue) + 1 >= k
    BY <1>1, <1>2
  <2> QED
    BY <1>2, <1>4, <2>1 DEF Ends, Plain
<1> QED
  BY <1>1, <1>2, <1>3, <1>4

LEMMA TailEnds ==
    ASSUME TypeOK, queue # <<>>, queue' = Tail(queue)
    PROVE  /\ Len(queue) \in Nat \ {0} /\ DOMAIN queue = 1 .. Len(queue)
           /\ DOMAIN queue' = 1 .. Len(queue) - 1
           /\ Head(queue) = queue[1]
           /\ \A k \in DOMAIN queue' : queue'[k] = queue[k + 1] /\ k + 1 \in DOMAIN queue
           /\ \A k \in Nat : \A f : Ends(k + 1, f) /\ k > 0 => Ends(k, f)'
           /\ \A f : Ends(1, f) =>
                  \/ Ends(1, f)'
                  \/ Head(queue).fd = f /\ Head(queue).pdu = Plain("disconnect")
<1>1. queue \in Seq(Event) /\ Len(queue) \in Nat \ {0} /\ DOMAIN queue = 1 .. Len(queue)
  BY LenProperties, EmptySeq DEF TypeOK
<1>2. /\ DOMAIN queue' = 1 .. Len(queue) - 1
      /\ Head(queue) = queue[1]
      /\ \A k \in DOMAIN queue' : queue'[k] = queue[k + 1] /\ k + 1 \in DOMAIN queue
  <2>1. Tail(queue) \in Seq(Event) /\ Len(Tail(queue)) = Len(queue) - 1
    BY <1>1, HeadTailProperties
  <2>2. \A k \in 1 .. Len(queue) - 1 : Tail(queue)[k] = queue[k + 1]
    BY <1>1, HeadTailProperties
  <2> QED
    BY <1>1, <2>1, <2>2, LenProperties
<1>3. ASSUME NEW k \in Nat, NEW f, NEW j \in DOMAIN queue, j > 1, j >= k + 1,
             queue[j].fd = f, queue[j].pdu = Plain("disconnect")
      PROVE  Ends(k, f)'
  <2>1. j - 1 \in DOMAIN queue' /\ queue'[j - 1] = queue[j] /\ j - 1 >= k
    BY <1>1, <1>2, <1>3
  <2> QED
    BY <1>3, <2>1 DEF Ends, Plain
<1>4. ASSUME NEW k \in Nat, NEW f, Ends(k + 1, f), k > 0
      PROVE  Ends(k, f)'
  <2>1. PICK j \in DOMAIN queue :
            j >= k + 1 /\ queue[j].fd = f /\ queue[j].pdu = Plain("disconnect")
    BY <1>4 DEF Ends
  <2>2. j > 1
    BY <1>1, <1>4, <2>1
  <2> QED
    BY <1>3, <2>1, <2>2
<1>5. ASSUME NEW f, Ends(1, f)
      PROVE  \/ Ends(1, f)'
             \/ Head(queue).fd = f /\ Head(queue).pdu = Plain("disconnect")
  <2>1. PICK j \in DOMAIN queue :
            j >= 1 /\ queue[j].fd = f /\ queue[j].pdu = Plain("disconnect")
    BY <1>5 DEF Ends
  <2>2. CASE j = 1
    BY <1>2, <2>1, <2>2
  <2>3. CASE j # 1
    <3>1. j > 1 /\ j >= 1 + 1
      BY <1>1, <2>1, <2>3
    <3> QED
      BY <1>3, <2>1, <3>1
  <2> QED
    BY <2>2, <2>3
<1> QED
  BY <1>1, <1>2, <1>4, <1>5

\* The steps that leave queue and binds alone.
LEMMA HeldCalm ==
    ASSUME HeldInv,
           UNCHANGED <<queue, job>>,
           \A g : g \notin tainted' => g \notin tainted,
           \A c, f : Serving(c, f) => Serving(c, f)',
           \A r \in device' : r.status = 1 => r \in device,
           \A t \in Client : tpc[t] = "insert" => tpc'[t] = "insert" /\ tfd'[t] = tfd[t]
    PROVE  HeldInv'
<1>1. \A k, c, f : Held(k, c, f) => Held(k, c, f)'
  BY DEF Held, Ends, Plain
<1>2. RowsHeld'
  BY <1>1 DEF HeldInv, RowsHeld
<1>3. JobsHeld'
  BY DEF HeldInv, JobsHeld
<1>4. MainJobHeld'
  <2> SUFFICES ASSUME job[Main] # None, job[Main].fd \notin tainted'
               PROVE  \A c, f : c = job[Main].src /\ f = job[Main].fd => Held(1, c, f)'
    BY DEF MainJobHeld, Held, Serving, Ends
  <2> QED
    BY <1>1 DEF HeldInv, MainJobHeld
<1>5. BindsHeld'
  <2> SUFFICES ASSUME NEW k \in DOMAIN queue,
                      queue[k].pdu.kind = "bind", queue[k].fd \notin tainted'
               PROVE  \A n, c, f : n = k + 1 /\ c = queue[k].src /\ f = queue[k].fd =>
                                       Held(n, c, f)'
    BY DEF BindsHeld, Held, Serving, Ends
  <2> QED
    BY <1>1 DEF HeldInv, BindsHeld
<1> QED
  BY <1>2, <1>3, <1>4, <1>5 DEF HeldInv

\* An unbind sets no row's status to 1.
LEMMA UnbindRows ==
    ASSUME TypeOK, NEW f, SetUnbindState(f)
    PROVE  /\ \A r \in device' : r.status = 1 => r \in device
           /\ \A r \in device' : r.status = 1 => r.fd # f
<1>1. ASSUME NEW r \in device
      PROVE  [r EXCEPT !.status = 0].status = 0
  <2>1. r \in Row
    BY DEF TypeOK
  <2> QED
    BY <2>1 DEF Row
<1>2. ASSUME NEW r \in device', r.status = 1
      PROVE  r \in device /\ r.fd # f
  <2>1. PICK q \in device : r = IF q.fd = f THEN [q EXCEPT !.status = 0] ELSE q
    BY <1>2 DEF SetUnbindState
  <2>2. q.fd # f
    <3> SUFFICES ASSUME q.fd = f PROVE FALSE
      OBVIOUS
    <3> QED
      BY <1>1, <1>2, <2>1
  <2> QED
    BY <2>1, <2>2
<1> QED
  BY <1>2

LEMMA HeldHandler ==
    ASSUME TypeInv, OwnerInv, HeldInv, NEW t \in Conn, Handler(t)
    PROVE  HeldInv'
<1> USE DEF TypeInv, OwnerInv
<1>1. /\ t \in Client \/ (t \in Link /\ t \notin Client)
      /\ \A c \in Client : c \in Conn
      /\ t \in Worker /\ Main \in Worker /\ Main # t
  BY DEF Conn, Worker
<1>2. CASE \/ ReceiverStart(t) \/ HandlerCall(t) \/ HandlerEnd(t)
           \/ HandlerReset(t) \/ HandlerClose(t)
  <2>1. /\ UNCHANGED <<queue, job, device>>
        /\ \A g : g \notin tainted' => g \notin tainted
        /\ tpc[t] # "insert"
    BY <1>2 DEF ReceiverStart, HandlerCall, HandlerEnd, HandlerReset, HandlerClose,
                Close, reg
  <2>2. \A u \in Conn : u # t => tpc'[u] = tpc[u] /\ tfd'[u] = tfd[u]
    BY <1>2 DEF ReceiverStart, HandlerCall, HandlerEnd, HandlerReset, HandlerClose,
                TypeOK
  <2>3. \A f : Serving(t, f) => Serving(t, f)'
    <3>1. CASE ReceiverStart(t)
      BY <3>1 DEF ReceiverStart, Serving
    <3>2. CASE HandlerCall(t)
      BY <3>2 DEF HandlerCall, Serving, TypeOK
    <3>3. CASE HandlerEnd(t)
      BY <3>3 DEF HandlerEnd, Serving, TypeOK
    <3>4. CASE HandlerReset(t) \/ HandlerClose(t)
      BY <3>4 DEF HandlerReset, HandlerClose, Serving
    <3> QED
      BY <1>2, <3>1, <3>2, <3>3, <3>4
  <2>4. \A c, f : Serving(c, f) => Serving(c, f)'
    <3>1. ASSUME NEW c, NEW f, Serving(c, f), c # t
          PROVE  Serving(c, f)'
      BY <1>1, <2>2, <3>1 DEF Serving
    <3> QED
      BY <2>3, <3>1
  <2>5. \A u \in Client : tpc[u] = "insert" => tpc'[u] = "insert" /\ tfd'[u] = tfd[u]
    BY <1>1, <2>1, <2>2
  <2> QED
    BY <2>1, <2>4, <2>5, HeldCalm
<1>3. CASE HandlerReceive(t)
  <2> DEFINE f == tfd[t]
             c == ton[t]
  <2>1. PICK p \in Pdu :
           IF direct
           THEN /\ Handle(t, f, p, c)
                /\ tpc' = [tpc EXCEPT ![t] = IF p.kind = "bind" THEN "insert" ELSE "call"]
                /\ UNCHANGED queue
           ELSE /\ Post(f, p, c)
                /\ tpc' = [tpc EXCEPT ![t] = "call"]
                /\ UNCHANGED <<job, device, asked, todo, hand>>
    BY <1>3 DEF HandlerReceive
  <2>2. /\ tpc[t] = "recv" /\ c \in Client /\ UNCHANGED <<tfd, tainted>>
    BY <1>3 DEF HandlerReceive
  <2>3. f \in FD \cup {None}
    BY DEF TypeOK
  <2>4. /\ \A u \in Conn : u # t => tpc'[u] = tpc[u]
        /\ tpc'[t] \in {"insert", "call"}
    BY <2>1 DEF TypeOK
  <2>5. \A u, g : Serving(u, g) => Serving(u, g)'
    BY <1>1, <2>2, <2>4 DEF Serving
  <2>6. \A u \in Client : tpc[u] = "insert" => tpc'[u] = "insert" /\ tfd'[u] = tfd[u]
    BY <1>1, <2>2, <2>4
  \* A thread that receives from a client on an untainted number is that client's.
  <2>7. f # None
    <3>1. CASE t \in Client
      BY <2>2, <3>1 DEF OwnClient, Live
    <3>2. CASE t \in Link /\ t \notin Client
      BY <1>3, <2>2, <3>2 DEF HandlerReceive, Shape
    <3> QED
      BY <1>1, <3>1, <3>2
  <2>8. f \notin tainted => c = t /\ t \in Client
    <3>1. CASE t \in Client
      BY <2>2, <3>1 DEF OwnClient, Live
    <3>2. CASE t \in Link /\ t \notin Client
      BY <2>2, <2>7, <3>2 DEF OwnLink
    <3> QED
      BY <1>1, <3>1, <3>2
  <2>9. CASE direct /\ p.kind = "bind" /\ StartBind(t, p.id, f, c)
    <3> DEFINE b == [id |-> p.id, status |-> 1, fd |-> f, src |-> c]
    <3>1. /\ device' \subseteq device /\ queue' = queue
          /\ job'[t] = b /\ \A w \in Worker : w # t => job'[w] = job[w]
          /\ tpc'[t] = "insert"
      BY <1>1, <2>1, <2>9 DEF StartBind, TypeOK
    <3>2. \A k, u, g : Held(k, u, g) => Held(k, u, g)'
      BY <2>5, <3>1 DEF Held, Ends, Plain
    <3>3. RowsHeld'
      BY <2>2, <3>1, <3>2 DEF HeldInv, RowsHeld
    <3>4. JobsHeld'
      <4>1. b.fd = f /\ b.src = c
        OBVIOUS
      <4>2. \A u \in Conn : u \in Worker
        BY DEF Worker
      <4> QED
        BY <2>2, <2>4, <2>8, <3>1, <4>1, <4>2 DEF HeldInv, JobsHeld
    <3>5. MainJobHeld'
      <4> SUFFICES ASSUME job[Main] # None, job[Main].fd \notin tainted
                   PROVE  \A u, g : u = job[Main].src /\ g = job[Main].fd =>
                                        Held(1, u, g)'
        BY <1>1, <2>2, <3>1 DEF MainJobHeld, Held, Serving, Ends
      <4> QED
        BY <3>2 DEF HeldInv, MainJobHeld
    <3>6. BindsHeld'
      <4> SUFFICES ASSUME NEW k \in DOMAIN queue,
                          queue[k].pdu.kind = "bind", queue[k].fd \notin tainted
                   PROVE  \A n, u, g : n = k + 1 /\ u = queue[k].src /\ g = queue[k].fd =>
                                           Held(n, u, g)'
        BY <2>2, <3>1 DEF BindsHeld, Held, Serving, Ends
      <4> QED
        BY <3>2 DEF HeldInv, BindsHeld
    <3> QED
      BY <3>3, <3>4, <3>5, <3>6 DEF HeldInv
  <2>10. CASE direct /\ SetUnbindState(f) /\ UNCHANGED <<job, asked, todo, hand>>
    <3>1. UNCHANGED <<queue, job>>
      BY <2>1, <2>10
    <3>2. \A r \in device' : r.status = 1 => r \in device
      BY <2>10, UnbindRows
    <3> QED
      BY <2>2, <2>5, <2>6, <3>1, <3>2, HeldCalm
  <2>11. CASE direct /\ AckPacket(f)
    <3>1. UNCHANGED <<queue, job, device>>
      BY <2>1, <2>11 DEF AckPacket
    <3> QED
      BY <2>2, <2>5, <2>6, <3>1, HeldCalm
  <2>12. CASE ~direct
    <3> DEFINE e == [fd |-> f, pdu |-> p, src |-> c]
    <3>1. /\ queue' = Append(queue, e) /\ UNCHANGED <<job, device>>
          /\ tpc'[t] = "call"
      BY <2>1, <2>12 DEF Post, TypeOK
    <3>2. e \in Event /\ e.fd = f /\ e.src = c
      BY <1>1, <2>2, <2>3 DEF Event
    <3>3. /\ Len(queue) \in Nat /\ DOMAIN queue = 1 .. Len(queue)
          /\ DOMAIN queue' = 1 .. Len(queue) + 1
          /\ queue'[Len(queue) + 1] = e
          /\ \A k \in 1 .. Len(queue) : queue'[k] = queue[k]
          /\ \A k, g : Ends(k, g) => Ends(k, g)'
      BY <3>1, <3>2, AppendEnds
    <3>4. \A k, u, g : Held(k, u, g) => Held(k, u, g)'
      BY <2>5, <3>3 DEF Held
    <3>5. RowsHeld' /\ JobsHeld'
      BY <2>2, <2>6, <3>1, <3>4 DEF HeldInv, RowsHeld, JobsHeld
    <3>6. MainJobHeld'
      <4> SUFFICES ASSUME job[Main] # None, job[Main].fd \notin tainted
                   PROVE  \A u, g : u = job[Main].src /\ g = job[Main].fd =>
                                        Held(1, u, g)'
        BY <2>2, <3>1 DEF MainJobHeld, Held, Serving, Ends
      <4> QED
        BY <3>4 DEF HeldInv, MainJobHeld
    <3>7. BindsHeld'
      <4> SUFFICES ASSUME NEW k \in 1 .. Len(queue) + 1,
                          queue'[k].pdu.kind = "bind", queue'[k].fd \notin tainted
                   PROVE  \A n, u, g : n = k + 1 /\ u = queue'[k].src /\ g = queue'[k].fd =>
                                           Held(n, u, g)'
        BY <2>2, <3>3 DEF BindsHeld, Held, Serving, Ends
      <4>1. CASE k \in 1 .. Len(queue)
        BY <3>3, <3>4, <4>1 DEF HeldInv, BindsHeld
      <4>2. CASE k = Len(queue) + 1
        <5>1. c = t /\ t \in Client /\ queue'[k] = e
          BY <2>8, <3>2, <3>3, <4>2
        <5>2. \A g : g = f => Serving(t, g)'
          BY <2>2, <3>1, <5>1 DEF Serving
        <5> QED
          BY <3>2, <5>1, <5>2 DEF Held
      <4> QED
        BY <3>3, <4>1, <4>2
    <3> QED
      BY <3>5, <3>6, <3>7 DEF HeldInv
  <2> QED
    BY <2>1, <2>9, <2>10, <2>11, <2>12 DEF Handle
<1>4. CASE HandlerInsert(t)
  <2>1. /\ tpc[t] = "insert" /\ job[t] # None
        /\ device' = device \cup {job[t]}
        /\ job'[t] = None /\ \A w \in Worker : w # t => job'[w] = job[w]
        /\ UNCHANGED <<queue, tfd, tainted>>
        /\ tpc'[t] = "call" /\ \A u \in Conn : u # t => tpc'[u] = tpc[u]
    BY <1>1, <1>4 DEF HandlerInsert, FinishBind, TypeOK
  <2>2. \A u, g : Serving(u, g) => Serving(u, g)'
    BY <1>1, <2>1 DEF Serving
  <2>3. \A k, u, g : Held(k, u, g) => Held(k, u, g)'
    BY <2>1, <2>2 DEF Held, Ends, Plain
  <2>4. RowsHeld'
    <3> SUFFICES ASSUME NEW r \in device', r.status = 1, r.fd \notin tainted
                 PROVE  Held(1, r.src, r.fd)'
      BY <2>1 DEF RowsHeld
    <3>1. CASE r \in device
      BY <2>3, <3>1 DEF HeldInv, RowsHeld
    <3>2. CASE r = job[t]
      <4>1. r.src = t /\ t \in Client /\ tfd[t] = r.fd
        BY <2>1, <3>2 DEF HeldInv, JobsHeld
      <4>2. Serving(t, r.fd)
        BY <2>1, <4>1 DEF Serving
      <4> QED
        BY <2>2, <4>1, <4>2 DEF Held
    <3> QED
      BY <2>1, <3>1, <3>2
  <2>5. JobsHeld'
    <3>1. \A u \in Conn : u \in Worker
      BY DEF Worker
    <3> QED
      BY <2>1, <3>1 DEF HeldInv, JobsHeld
  <2>6. MainJobHeld'
    <3> SUFFICES ASSUME job[Main] # None, job[Main].fd \notin tainted
                 PROVE  \A u, g : u = job[Main].src /\ g = job[Main].fd => Held(1, u, g)'
      BY <1>1, <2>1 DEF MainJobHeld, Held, Serving, Ends
    <3> QED
      BY <2>3 DEF HeldInv, MainJobHeld
  <2>7. BindsHeld'
    <3> SUFFICES ASSUME NEW k \in DOMAIN queue,
                        queue[k].pdu.kind = "bind", queue[k].fd \notin tainted
                 PROVE  \A n, u, g : n = k + 1 /\ u = queue[k].src /\ g = queue[k].fd =>
                                         Held(n, u, g)'
      BY <2>1 DEF BindsHeld, Held, Serving, Ends
    <3> QED
      BY <2>3 DEF HeldInv, BindsHeld
  <2> QED
    BY <2>4, <2>5, <2>6, <2>7 DEF HeldInv
<1>5. CASE HandlerPostDisconnect(t)
  <2> DEFINE kind == IF t \in Client THEN "disconnect" ELSE "lost"
             e == [fd |-> tfd[t], pdu |-> Plain(kind), src |-> t]
  <2>1. /\ tpc[t] = "post" /\ queue' = Append(queue, e)
        /\ UNCHANGED <<job, device, tfd, tainted>>
        /\ \A u \in Conn : u # t => tpc'[u] = tpc[u]
    BY <1>5 DEF HandlerPostDisconnect, Post, TypeOK
  <2>2. e \in Event /\ e.fd = tfd[t] /\ e.pdu = Plain(kind) /\ e.pdu.kind # "bind"
    BY DEF Event, TypeOK, Plain
  <2>3. /\ Len(queue) \in Nat /\ DOMAIN queue = 1 .. Len(queue)
        /\ DOMAIN queue' = 1 .. Len(queue) + 1
        /\ queue'[Len(queue) + 1] = e
        /\ \A k \in 1 .. Len(queue) : queue'[k] = queue[k]
        /\ \A k, g : Ends(k, g) => Ends(k, g)'
        /\ e.pdu = Plain("disconnect") =>
               \A k \in 1 .. Len(queue) + 1 : \A f : f = e.fd => Ends(k, f)'
    BY <2>1, <2>2, AppendEnds
  <2>4. ASSUME NEW k \in 1 .. Len(queue) + 1, NEW u, NEW g, Held(k, u, g)
        PROVE  Held(k, u, g)'
    <3>1. CASE Serving(u, g) /\ u = t
      <4>1. t \in Client /\ g = tfd[t]
        BY <3>1 DEF Serving
      <4>2. e.pdu = Plain("disconnect") /\ e.fd = g
        BY <2>2, <4>1
      <4>3. Ends(k, g)'
        BY <2>3, <4>2
      <4> QED
        BY <4>3 DEF Held
    <3>2. CASE Serving(u, g) /\ u # t
      <4>1. Serving(u, g)'
        BY <1>1, <2>1, <3>2 DEF Serving
      <4> QED
        BY <4>1 DEF Held
    <3>3. CASE Ends(k, g)
      BY <2>3, <3>3 DEF Held
    <3> QED
      BY <2>4, <3>1, <3>2, <3>3 DEF Held
  <2>5. 1 \in 1 .. Len(queue) + 1
    BY <2>3
  <2>6. RowsHeld'
    BY <2>1, <2>4, <2>5 DEF HeldInv, RowsHeld
  <2>7. JobsHeld'
    BY <2>1 DEF HeldInv, JobsHeld
  <2>8. MainJobHeld'
    <3> SUFFICES ASSUME job[Main] # None, job[Main].fd \notin tainted
                 PROVE  \A u, g : u = job[Main].src /\ g = job[Main].fd => Held(1, u, g)'
      BY <2>1 DEF MainJobHeld, Held, Serving, Ends
    <3> QED
      BY <2>4, <2>5 DEF HeldInv, MainJobHeld
  <2>9. BindsHeld'
    <3> SUFFICES ASSUME NEW k \in 1 .. Len(queue) + 1,
                        queue'[k].pdu.kind = "bind", queue'[k].fd \notin tainted
                 PROVE  \A n, u, g : n = k + 1 /\ u = queue'[k].src /\ g = queue'[k].fd =>
                                         Held(n, u, g)'
      BY <2>1, <2>3 DEF BindsHeld, Held, Serving, Ends
    <3>1. k \in 1 .. Len(queue) /\ k + 1 \in 1 .. Len(queue) + 1 /\ queue'[k] = queue[k]
      BY <2>2, <2>3
    <3> QED
      BY <2>3, <2>4, <3>1 DEF HeldInv, BindsHeld
  <2> QED
    BY <2>6, <2>7, <2>8, <2>9 DEF HeldInv
<1> QED
  BY <1>2, <1>3, <1>4, <1>5 DEF Handler

LEMMA HeldMain ==
    ASSUME TypeInv, HeldInv, OnDisconnect \/ OnLost \/ OnPdu \/ MainInsert
    PROVE  HeldInv'
<1> USE DEF TypeInv
<1>1. /\ Main \in Worker /\ Main \notin Conn
      /\ \A u \in Conn : u \in Worker
  BY DEF Worker
<1>2. UNCHANGED <<tpc, tfd, tainted>>
  BY DEF OnDisconnect, OnLost, OnPdu, MainInsert, thr
<1>3. \A u, g : Serving(u, g) <=> Serving(u, g)'
  BY <1>2 DEF Serving
<1>4. CASE MainInsert
  <2>1. /\ device' = device \cup {job[Main]} /\ queue' = queue
        /\ job[Main] # None /\ job'[Main] = None
        /\ \A u \in Conn : job'[u] = job[u]
    BY <1>1, <1>4 DEF MainInsert, FinishBind, TypeOK
  <2>2. \A k, u, g : Held(k, u, g) => Held(k, u, g)'
    BY <1>3, <2>1 DEF Held, Ends, Plain
  <2>3. RowsHeld'
    BY <1>2, <2>1, <2>2 DEF HeldInv, RowsHeld, MainJobHeld
  <2>4. JobsHeld' /\ MainJobHeld'
    BY <1>2, <2>1 DEF HeldInv, JobsHeld, MainJobHeld
  <2>5. BindsHeld'
    <3> SUFFICES ASSUME NEW k \in DOMAIN queue,
                        queue[k].pdu.kind = "bind", queue[k].fd \notin tainted
                 PROVE  \A n, u, g : n = k + 1 /\ u = queue[k].src /\ g = queue[k].fd =>
                                         Held(n, u, g)'
      BY <1>2, <2>1 DEF BindsHeld, Held, Serving, Ends
    <3> QED
      BY <2>2 DEF HeldInv, BindsHeld
  <2> QED
    BY <2>3, <2>4, <2>5 DEF HeldInv
<1>5. CASE OnDisconnect \/ OnLost \/ OnPdu
  <2> DEFINE h == Head(queue)
  <2>1. job[Main] = None /\ queue # <<>> /\ queue' = Tail(queue)
    BY <1>5 DEF OnDisconnect, OnLost, OnPdu, Dequeue
  <2>2. /\ Len(queue) \in Nat \ {0} /\ DOMAIN queue = 1 .. Len(queue)
        /\ DOMAIN queue' = 1 .. Len(queue) - 1
        /\ h = queue[1]
        /\ \A k \in DOMAIN queue' : queue'[k] = queue[k + 1] /\ k + 1 \in DOMAIN queue
        /\ \A k \in Nat : \A f : Ends(k + 1, f) /\ k > 0 => Ends(k, f)'
        /\ \A f : Ends(1, f) => \/ Ends(1, f)'
                                \/ h.fd = f /\ h.pdu = Plain("disconnect")
    BY <2>1, TailEnds
  <2>3. ASSUME NEW k \in Nat, k > 0, NEW u, NEW g, Held(k + 1, u, g)
        PROVE  Held(k, u, g)'
    BY <1>3, <2>2, <2>3 DEF Held
  <2>4. BindsHeld'
    <3> SUFFICES ASSUME NEW k \in DOMAIN queue',
                        queue'[k].pdu.kind = "bind", queue'[k].fd \notin tainted
                 PROVE  \A n, u, g : n = k + 1 /\ u = queue'[k].src /\ g = queue'[k].fd =>
                                         Held(n, u, g)'
      BY <1>2 DEF BindsHeld, Held, Serving, Ends
    <3>1. k + 1 \in DOMAIN queue /\ queue'[k] = queue[k + 1] /\ k + 1 \in Nat /\ k + 1 > 0
      BY <2>2
    <3>2. \A n, u, g : n = k + 1 + 1 /\ u = queue'[k].src /\ g = queue'[k].fd =>
              Held(n, u, g)
      BY <3>1 DEF HeldInv, BindsHeld
    <3> QED
      BY <2>3, <3>1, <3>2
  <2>5. ASSUME h.pdu # Plain("disconnect"), NEW r \in device,
               r.status = 1, r.fd \notin tainted
        PROVE  Held(1, r.src, r.fd)'
    <3>1. Held(1, r.src, r.fd)
      BY <2>5 DEF HeldInv, RowsHeld
    <3> QED
      BY <1>3, <2>2, <2>5, <3>1 DEF Held
  <2>6. CASE OnDisconnect
    <3>1. SetUnbindState(h.fd) /\ job' = job
      BY <2>6 DEF OnDisconnect
    <3>2. RowsHeld'
      <4> SUFFICES ASSUME NEW r \in device', r.status = 1, r.fd \notin tainted
                   PROVE  Held(1, r.src, r.fd)'
        BY <1>2 DEF RowsHeld
      <4>1. r \in device /\ r.fd # h.fd
        BY <3>1, UnbindRows
      <4>2. Held(1, r.src, r.fd)
        BY <4>1 DEF HeldInv, RowsHeld
      <4> QED
        BY <1>3, <2>2, <4>1, <4>2 DEF Held
    <3>3. JobsHeld' /\ MainJobHeld'
      BY <1>2, <2>1, <3>1 DEF HeldInv, JobsHeld, MainJobHeld
    <3> QED
      BY <2>4, <3>2, <3>3 DEF HeldInv
  <2>7. CASE OnLost
    <3>1. UNCHANGED <<job, device>> /\ h.pdu.kind = "lost"
      BY <2>7 DEF OnLost
    <3>2. h.pdu # Plain("disconnect")
      BY <3>1 DEF Plain
    <3>3. RowsHeld'
      BY <1>2, <2>5, <3>1, <3>2 DEF RowsHeld
    <3>4. JobsHeld' /\ MainJobHeld'
      BY <1>2, <2>1, <3>1 DEF HeldInv, JobsHeld, MainJobHeld
    <3> QED
      BY <2>4, <3>3, <3>4 DEF HeldInv
  <2>8. CASE OnPdu
    <3>1. h.pdu \in Pdu /\ Handle(Main, h.fd, h.pdu, h.src)
      BY <2>8 DEF OnPdu
    <3>2. h.pdu # Plain("disconnect")
      BY <3>1, PduType DEF Plain
    <3>3. CASE h.pdu.kind = "bind" /\ StartBind(Main, h.pdu.id, h.fd, h.src)
      <4> DEFINE b == [id |-> h.pdu.id, status |-> 1, fd |-> h.fd, src |-> h.src]
      <4>1. /\ device' \subseteq device
            /\ job'[Main] = b /\ \A u \in Conn : job'[u] = job[u]
        BY <1>1, <3>3 DEF StartBind, TypeOK
      <4>2. RowsHeld'
        BY <1>2, <2>5, <3>2, <4>1 DEF RowsHeld
      <4>3. JobsHeld'
        BY <1>2, <4>1 DEF HeldInv, JobsHeld
      <4>4. MainJobHeld'
        <5> SUFFICES ASSUME h.fd \notin tainted
                     PROVE  \A u, g : u = h.src /\ g = h.fd => Held(1, u, g)'
          BY <1>2, <4>1 DEF MainJobHeld, Held, Serving, Ends
        <5>1. 1 \in DOMAIN queue /\ queue[1] = h
          BY <2>2
        <5>2. \A u, g : u = h.src /\ g = h.fd => Held(1 + 1, u, g)
          BY <3>3, <5>1 DEF HeldInv, BindsHeld
        <5> QED
          BY <2>3, <5>2
      <4> QED
        BY <2>4, <4>2, <4>3, <4>4 DEF HeldInv
    <3>4. CASE SetUnbindState(h.fd) /\ UNCHANGED job
      <4>1. \A r \in device' : r.status = 1 => r \in device
        BY <3>4, UnbindRows
      <4>2. RowsHeld'
        BY <1>2, <2>5, <3>2, <4>1 DEF RowsHeld
      <4>3. JobsHeld' /\ MainJobHeld'
        BY <1>2, <2>1, <3>4 DEF HeldInv, JobsHeld, MainJobHeld
      <4> QED
        BY <2>4, <4>2, <4>3 DEF HeldInv
    <3>5. CASE AckPacket(h.fd)
      <4>1. UNCHANGED <<job, device>>
        BY <3>5 DEF AckPacket
      <4>2. RowsHeld'
        BY <1>2, <2>5, <3>2, <4>1 DEF RowsHeld
      <4>3. JobsHeld' /\ MainJobHeld'
        BY <1>2, <2>1, <4>1 DEF HeldInv, JobsHeld, MainJobHeld
      <4> QED
        BY <2>4, <4>2, <4>3 DEF HeldInv
    <3> QED
      BY <3>1, <3>3, <3>4, <3>5 DEF Handle
  <2> QED
    BY <1>5, <2>6, <2>7, <2>8
<1> QED
  BY <1>4, <1>5

LEMMA HeldStep == TypeInv /\ OwnerInv /\ HeldInv /\ [Next]_vars => HeldInv'
<1> SUFFICES ASSUME TypeInv, OwnerInv, HeldInv, [Next]_vars PROVE HeldInv'
  OBVIOUS
<1> USE DEF TypeInv, OwnerInv
<1>1. \A c \in Client : c \in Conn /\ c \notin Link /\ c # None
  BY DEF Conn
<1>2. ASSUME NEW c \in Client, NEW f \in FD, Accept(c, f) PROVE HeldInv'
  <2>1. /\ UNCHANGED <<queue, job, device, tainted>>
        /\ tpc[c] = "none"
        /\ \A u \in Client : u # c => tpc'[u] = tpc[u] /\ tfd'[u] = tfd[u]
    BY <1>1, <1>2 DEF Accept, Born, TypeOK, reg
  <2>2. \A u, g : Serving(u, g) => Serving(u, g)'
    BY <2>1 DEF Serving
  <2> QED
    BY <2>1, <2>2, HeldCalm
<1>3. CASE (\E c \in Client : ClientStop(c)) \/ CenterDown \/ CenterUp
           \/ (\E l \in Link : CenterDrop(l)) \/ UNCHANGED vars
  <2>1. UNCHANGED <<queue, job, device, tainted, tpc, tfd>>
    BY <1>3 DEF ClientStop, CenterDown, CenterUp, CenterDrop, vars, thr, reg
  <2>2. \A u, g : Serving(u, g) => Serving(u, g)'
    BY <2>1 DEF Serving
  <2> QED
    BY <2>1, <2>2, HeldCalm
<1>4. ASSUME NEW d \in Dialer, Dial(d) PROVE HeldInv'
  <2>1. /\ UNCHANGED <<queue, job, device, tfd>>
        /\ \A g : g \notin tainted' => g \notin tainted
        /\ \A u \in Client : tpc'[u] = tpc[u]
    <3>1. CASE DialConnected(d)
      <4>1. dial[d] \notin Client
        BY <1>1 DEF TypeOK
      <4> QED
        BY <1>1, <3>1, <4>1 DEF DialConnected, TypeOK, reg
    <3>2. CASE DialRefused(d)
      BY <3>2 DEF DialRefused, reg, thr
    <3> QED
      BY <1>4, <3>1, <3>2 DEF Dial, DialCreate, DialNoSocket, DialReset, DialBind, reg, thr
  <2>2. \A u, g : Serving(u, g) => Serving(u, g)'
    BY <2>1 DEF Serving
  <2> QED
    BY <2>1, <2>2, HeldCalm
<1>5. CASE Enquire /\ ~Dial(Enq)
  <2>1. /\ UNCHANGED <<queue, job, tpc, tfd>>
        /\ device' \subseteq device
        /\ \A g : g \notin tainted' => g \notin tainted
    BY <1>5 DEF Enquire, EnqWake, EnqDelete, EnqClose, EnqOverrun, EnqClear, EnqSelect,
                EnqPush, EnqLink, EnqRest, DialCheck, Close, thr, reg
  <2>2. \A u, g : Serving(u, g) => Serving(u, g)'
    BY <2>1 DEF Serving
  <2> QED
    BY <2>1, <2>2, HeldCalm
<1> QED
  BY <1>2, <1>3, <1>4, <1>5, HeldHandler, HeldMain DEF Next, MainLoop, Dialer

LEMMA HeldInit == Init => HeldInv
BY DEF Init, HeldInv, RowsHeld, JobsHeld, MainJobHeld, BindsHeld, Worker

\* The number in a bound row denotes the client that bound, or the disconnect
\* that unbinds it is in the queue, unless a foreign thread has closed it.
THEOREM StaleRowNoticedHolds == Spec => []StaleRowNoticed
<1>1. OwnerInv /\ HeldInv => StaleRowNoticed
  <2> SUFFICES ASSUME OwnerInv, HeldInv,
                      NEW r \in device, r.status = 1, ~Denoted(r.src), r.fd \notin tainted
               PROVE  \E k \in DOMAIN queue :
                          queue[k].fd = r.fd /\ queue[k].pdu = Plain("disconnect")
    BY DEF StaleRowNoticed
  <2>1. Held(1, r.src, r.fd)
    BY DEF HeldInv, RowsHeld
  <2>2. ~Serving(r.src, r.fd)
    BY DEF Serving, OwnerInv, OwnClient, Live, Denoted
  <2> QED
    BY <2>1, <2>2 DEF Held, Ends
<1> QED
  BY <1>1, OwnerInit, OwnerStep, HeldInit, HeldStep, TypeInvariant, DialInvariant, PTL
     DEF Spec
-----------------------------------------------------------------------------
(***************************************************************************)
(* Whom an unbind hits.  A client is denoted by no number but its own, and *)
(* by that one only until its thread is done; its thread leaves recv() on  *)
(* a number that is still its own only when the connection has ended.      *)
(***************************************************************************)
OnlyOwn == \A c \in Client, g \in FD : fd[g] = c => tfd[c] = g /\ Live(c)

ShutFirst ==
    \A c \in Client :
        tpc[c] \in {"post", "close"} /\ tfd[c] \notin tainted => peer[c] = "shut"

PlaceInv == OnlyOwn /\ ShutFirst

Settled(c) == peer[c] = "shut" \/ ~Denoted(c)

\* Client c was given number f.
Bound(c, f) == c \in Client /\ tfd[c] = f /\ tpc[c] # "none"

\* No step takes back what a client was given, or reopens its connection.
Forward ==
    /\ \A g : g \notin tainted' => g \notin tainted
    /\ \A c, f : Bound(c, f) => Bound(c, f)' /\ (Settled(c) => Settled(c)')

\* What every step but an accept does to the clients.
Onward ==
    /\ \A g : g \notin tainted' => g \notin tainted
    /\ \A c \in Client :
        /\ tfd'[c] = tfd[c]
        /\ tpc[c] # "none" => tpc'[c] # "none"
        /\ peer[c] = "shut" => peer'[c] = "shut"
        /\ \A g \in FD : fd'[g] = c => fd[g] = c /\ tpc'[c] \notin {"done", "failed"}
        /\ tpc'[c] \in {"post", "close"} /\ tfd[c] \notin tainted =>
               tpc[c] \in {"post", "close"} \/ peer[c] = "shut"

LEMMA OnwardPlace == PlaceInv /\ Onward => PlaceInv' /\ Forward
<1> SUFFICES ASSUME PlaceInv, Onward PROVE PlaceInv' /\ Forward
  OBVIOUS
<1>1. OnlyOwn'
  BY DEF PlaceInv, OnlyOwn, Onward, Live
<1>2. ShutFirst'
  BY DEF PlaceInv, ShutFirst, Onward
<1>3. Forward
  BY DEF Forward, Onward, Bound, Settled, Denoted
<1> QED
  BY <1>1, <1>2, <1>3 DEF PlaceInv

LEMMA OnwardHandler ==
    ASSUME TypeInv, OwnerInv, PlaceInv, NEW t \in Conn, Handler(t)
    PROVE  Onward
<1> USE DEF TypeInv, OwnerInv
<1>1. \A c \in Client : c \in Conn /\ c # None
  BY DEF Conn
<1>2. CASE ReceiverStart(t)
  <2>1. /\ UNCHANGED <<fd, peer, tainted>>
        /\ tpc[t] = "start" /\ tpc'[t] = "call"
        /\ \A u \in Conn : u # t => tpc'[u] = tpc[u] /\ tfd'[u] = tfd[u]
    BY <1>2 DEF ReceiverStart, env, TypeOK
  <2>2. t \notin Client
    BY <2>1 DEF OwnClient, Live
  <2>3. \A c \in Client, g \in FD : fd[g] = c => tpc[c] \notin {"done", "failed"}
    BY DEF PlaceInv, OnlyOwn, Live
  <2> QED
    BY <1>1, <2>1, <2>2, <2>3 DEF Onward
<1>3. CASE \/ HandlerCall(t) \/ HandlerReceive(t) \/ HandlerInsert(t) \/ HandlerEnd(t)
           \/ HandlerPostDisconnect(t) \/ HandlerReset(t)
  <2>1. /\ UNCHANGED <<fd, peer, tfd, tainted>>
        /\ \A u \in Conn : u # t => tpc'[u] = tpc[u]
    BY <1>3 DEF HandlerCall, HandlerReceive, HandlerInsert, HandlerEnd,
                HandlerPostDisconnect, HandlerReset, env, TypeOK
  <2>2. tpc'[t] \notin {"none", "done", "failed"}
    BY <1>3 DEF HandlerCall, HandlerReceive, HandlerInsert, HandlerEnd,
                HandlerPostDisconnect, HandlerReset, TypeOK
  <2>3. ASSUME t \in Client, tpc'[t] \in {"post", "close"}, tfd[t] \notin tainted
        PROVE  tpc[t] \in {"post", "close"} \/ peer[t] = "shut"
    <3>1. CASE HandlerCall(t)
      <4>1. tfd[t] # None /\ fd[tfd[t]] = t /\ tpc[t] = "call"
        BY <2>3, <3>1 DEF HandlerCall, OwnClient, Live
      <4> QED
        BY <1>1, <2>3, <3>1, <4>1 DEF HandlerCall, TypeOK
    <3>2. CASE HandlerReceive(t) \/ HandlerInsert(t)
      BY <2>3, <3>2 DEF HandlerReceive, HandlerInsert, TypeOK
    <3>3. CASE HandlerEnd(t)
      BY <2>3, <3>3 DEF HandlerEnd, OwnClient, Live
    <3>4. CASE HandlerPostDisconnect(t)
      BY <3>4 DEF HandlerPostDisconnect
    <3>5. CASE HandlerReset(t)
      BY <2>3, <3>5 DEF HandlerReset, OwnClient, Live
    <3> QED
      BY <1>3, <3>1, <3>2, <3>3, <3>4, <3>5
  <2>4. \A c \in Client, g \in FD : fd[g] = c => tpc[c] \notin {"done", "failed"}
    BY DEF PlaceInv, OnlyOwn, Live
  <2> QED
    BY <1>1, <2>1, <2>2, <2>3, <2>4 DEF Onward
<1>4. CASE HandlerClose(t)
  <2>1. /\ tpc[t] = "close" /\ tpc'[t] = "done"
        /\ \A u \in Conn : u # t => tpc'[u] = tpc[u]
        /\ \A c \in Client : tfd'[c] = tfd[c]
    BY <1>1, <1>4 DEF HandlerClose, TypeOK
  <2>2. /\ \A g : g \notin tainted' => g \notin tainted
        /\ \A u \in Conn : peer[u] = "shut" => peer'[u] = "shut"
    BY <1>4 DEF HandlerClose, Close, TypeOK
  <2>3. /\ \A g \in FD : fd'[g] = fd[g] \/ fd'[g] = None
        /\ tfd[t] # None => fd'[tfd[t]] = None
    BY <1>4 DEF HandlerClose, Close, TypeOK
  <2>4. \A c \in Client, g \in FD : fd[g] = c => tfd[c] = g /\ tpc[c] \notin {"done", "failed"}
    BY DEF PlaceInv, OnlyOwn, Live
  <2>5. \A c \in Client, g \in FD : fd'[g] = c => fd[g] = c /\ tpc'[c] \notin {"done", "failed"}
    BY <1>1, <2>1, <2>3, <2>4
  <2> QED
    BY <1>1, <2>1, <2>2, <2>5 DEF Onward
<1> QED
  BY <1>2, <1>3, <1>4 DEF Handler

LEMMA OnwardDial ==
    ASSUME TypeInv, PlaceInv, NEW d \in Dialer, Dial(d)
    PROVE  Onward
<1> USE DEF TypeInv
<1>1. /\ \A c \in Client : c \in Conn /\ c \notin Link /\ c # None
      /\ \A c \in Client, g \in FD : fd[g] = c => tpc[c] \notin {"done", "failed"}
  BY DEF Conn, PlaceInv, OnlyOwn, Live
<1>2. ASSUME NEW l \in Link, NEW f \in FD, DialCreate(d, l, f) PROVE Onward
  <2>1. /\ UNCHANGED <<tpc, tfd, tainted>>
        /\ \A c \in Client : peer'[c] = peer[c]
        /\ \A g \in FD : fd'[g] = fd[g] \/ fd'[g] = l
    BY <1>1, <1>2 DEF DialCreate, TypeOK, thr
  <2> QED
    BY <1>1, <2>1 DEF Onward
<1>3. CASE DialNoSocket(d) \/ DialReset(d) \/ DialBind(d)
  <2>1. UNCHANGED <<fd, peer, tpc, tfd, tainted>>
    BY <1>3 DEF DialNoSocket, DialReset, DialBind, env, thr
  <2> QED
    BY <1>1, <2>1 DEF Onward
<1>4. CASE DialConnected(d)
  <2>1. UNCHANGED <<fd, tfd, tainted>>
    BY <1>4 DEF DialConnected
  <2>2. dial[d] \notin Client
    BY <1>1 DEF TypeOK
  <2>3. \A c \in Client : peer'[c] = peer[c] /\ tpc'[c] = tpc[c]
    BY <1>1, <1>4, <2>2 DEF DialConnected, TypeOK
  <2> QED
    BY <1>1, <2>1, <2>3 DEF Onward
<1>5. CASE DialRefused(d)
  <2>1. /\ UNCHANGED <<tpc, tfd>>
        /\ \A g : g \notin tainted' => g \notin tainted
        /\ \A u \in Conn : peer[u] = "shut" => peer'[u] = "shut"
        /\ \A g \in FD : fd'[g] = fd[g] \/ fd'[g] = None
    BY <1>5 DEF DialRefused, TypeOK, thr
  <2> QED
    BY <1>1, <2>1 DEF Onward
<1> QED
  BY <1>2, <1>3, <1>4, <1>5 DEF Dial

LEMMA PlaceStep ==
    TypeInv /\ OwnerInv /\ PlaceInv /\ [Next]_vars => PlaceInv' /\ Forward
<1> SUFFICES ASSUME TypeInv, OwnerInv, PlaceInv, [Next]_vars
             PROVE  PlaceInv' /\ Forward
  OBVIOUS
<1> USE DEF TypeInv
<1>1. /\ \A c \in Client : c \in Conn /\ c \notin Link /\ c # None
      /\ \A c \in Client, g \in FD : fd[g] = c => tfd[c] = g /\ Live(c)
  BY DEF Conn, PlaceInv, OnlyOwn
<1>2. ASSUME NEW c \in Client, NEW f \in FD, Accept(c, f)
      PROVE  PlaceInv' /\ Forward
  <2>1. /\ tpc[c] = "none" /\ UNCHANGED tainted
        /\ fd'[f] = c /\ \A g \in FD : g # f => fd'[g] = fd[g]
        /\ \A u \in Conn : u # c => peer'[u] = peer[u]
        /\ tpc'[c] = "call" /\ \A u \in Conn : u # c => tpc'[u] = tpc[u]
        /\ tfd'[c] = f /\ \A u \in Conn : u # c => tfd'[u] = tfd[u]
    BY <1>1, <1>2 DEF Accept, TypeOK, OwnerInv, Born
  <2>2. OnlyOwn'
    BY <1>1, <2>1 DEF OnlyOwn, Live
  <2>3. ShutFirst'
    BY <1>1, <2>1 DEF PlaceInv, ShutFirst
  <2>4. ASSUME NEW u, NEW g, Bound(u, g)
        PROVE  Bound(u, g)' /\ (Settled(u) => Settled(u)')
    <3>1. u # c /\ u \in Client /\ u \in Conn
      BY <1>1, <2>1, <2>4 DEF Bound
    <3>2. Bound(u, g)'
      BY <2>1, <2>4, <3>1 DEF Bound
    <3>3. Settled(u) => Settled(u)'
      BY <2>1, <3>1 DEF Settled, Denoted
    <3> QED
      BY <3>2, <3>3
  <2> QED
    BY <2>1, <2>2, <2>3, <2>4 DEF PlaceInv, Forward
<1>3. CASE (\E c \in Client : ClientStop(c)) \/ CenterDown \/ CenterUp
           \/ (\E l \in Link : CenterDrop(l)) \/ UNCHANGED vars
           \/ OnDisconnect \/ OnLost \/ OnPdu \/ MainInsert
           \/ (Enquire /\ ~EnqClose /\ (\A f \in FD : ~EnqOverrun(f)) /\ ~Dial(Enq))
  <2>1. UNCHANGED <<fd, tpc, tfd, tainted>>
    BY <1>3 DEF ClientStop, CenterDown, CenterUp, CenterDrop, vars,
                OnDisconnect, OnLost, OnPdu, MainInsert, Enquire, EnqWake, EnqDelete,
                EnqClear, EnqSelect, EnqPush, EnqLink, EnqRest, DialCheck, env, thr
  <2>2. \A u \in Conn : peer[u] = "shut" => peer'[u] = "shut"
    BY <1>3 DEF ClientStop, CenterDown, CenterUp, CenterDrop, vars,
                OnDisconnect, OnLost, OnPdu, MainInsert, Enquire, EnqWake, EnqDelete,
                EnqClear, EnqSelect, EnqPush, EnqLink, EnqRest, DialCheck, env, TypeOK
  <2>3. Onward
    BY <1>1, <2>1, <2>2 DEF Onward, Live
  <2> QED
    BY <2>3, OnwardPlace
<1>4. CASE EnqClose \/ \E f \in FD : EnqOverrun(f)
  <2>1. /\ UNCHANGED <<tpc, tfd>>
        /\ \A g : g \notin tainted' => g \notin tainted
        /\ \A u \in Conn : peer[u] = "shut" => peer'[u] = "shut"
        /\ \A g \in FD : fd'[g] = fd[g] \/ fd'[g] = None
    BY <1>4 DEF EnqClose, EnqOverrun, Close, TypeOK, thr
  <2>2. Onward
    BY <1>1, <2>1 DEF Onward, Live
  <2> QED
    BY <2>2, OnwardPlace
<1> QED
  BY <1>2, <1>3, <1>4, OnwardHandler, OnwardDial, OnwardPlace
     DEF Next, MainLoop, Enquire, Dialer

(***************************************************************************)
(* In ControllerClient a bound row, and a bind on its way to become one,   *)
(* goes by the number of the client that sent it; once a disconnect with   *)
(* that number waits behind it, that client's connection has ended.        *)
(***************************************************************************)
Fit(k, c, f) == Bound(c, f) /\ (Ends(k, f) => Settled(c))

RowsFit == \A r \in device : r.status = 1 /\ r.fd \notin tainted => Fit(1, r.src, r.fd)

MainJobFit ==
    job[Main] # None /\ job[Main].fd \notin tainted => Fit(1, job[Main].src, job[Main].fd)

BindsFit ==
    \A k \in DOMAIN queue :
        queue[k].pdu.kind = "bind" /\ queue[k].fd \notin tainted =>
            Fit(k + 1, queue[k].src, queue[k].fd)

FitInv == ~direct => RowsFit /\ MainJobFit /\ BindsFit

\* An append ends no number but that of a disconnect, and a dequeue none.
LEMMA AppendEndsOnly ==
    ASSUME TypeOK, NEW e \in Event, queue' = Append(queue, e),
           NEW k, NEW f, Ends(k, f)'
    PROVE  \/ Ends(k, f)
           \/ /\ e.fd = f /\ e.pdu = Plain("disconnect")
              /\ Len(queue) + 1 >= k
<1>1. PICK j \in DOMAIN queue' :
          j >= k /\ queue'[j].fd = f /\ queue'[j].pdu = Plain("disconnect")
  BY DEF Ends, Plain
<1>2. /\ Len(queue) \in Nat /\ DOMAIN queue = 1 .. Len(queue)
      /\ DOMAIN queue' = 1 .. Len(queue) + 1
      /\ queue'[Len(queue) + 1] = e
      /\ \A i \in 1 .. Len(queue) : queue'[i] = queue[i]
  BY AppendEnds
<1>3. CASE j = Len(queue) + 1
  BY <1>1, <1>2, <1>3
<1>4. CASE j # Len(queue) + 1
  <2>1. j \in DOMAIN queue /\ queue'[j] = queue[j]
    BY <1>2, <1>4
  <2> QED
    BY <1>1, <2>1 DEF Ends
<1> QED
  BY <1>3, <1>4

LEMMA TailEndsOnly ==
    ASSUME TypeOK, queue # <<>>, queue' = Tail(queue), NEW k \in Nat, NEW f, Ends(k, f)'
    PROVE  Ends(k + 1, f)
<1>1. PICK j \in DOMAIN queue' :
          j >= k /\ queue'[j].fd = f /\ queue'[j].pdu = Plain("disconnect")
  BY DEF Ends, Plain
<1>2. /\ Len(queue) \in Nat /\ DOMAIN queue' = 1 .. Len(queue) - 1
      /\ \A i \in DOMAIN queue' : queue'[i] = queue[i + 1] /\ i + 1 \in DOMAIN queue
  BY TailEnds
<1>3. j + 1 \in DOMAIN queue /\ queue[j + 1] = queue'[j] /\ j + 1 >= k + 1
  BY <1>1, <1>2
<1> QED
  BY <1>1, <1>3 DEF Ends

\* The steps that leave queue and binds alone.
LEMMA FitCalm ==
    ASSUME FitInv, Forward, direct' = direct, UNCHANGED <<queue, job>>,
           \A r \in device' : r.status = 1 => r \in device
    PROVE  FitInv'
<1> SUFFICES ASSUME ~direct PROVE RowsFit' /\ MainJobFit' /\ BindsFit'
  BY DEF FitInv
<1>1. \A k, c, f : Fit(k, c, f) => Fit(k, c, f)'
  BY DEF Fit, Ends, Plain, Forward
<1>2. RowsFit'
  BY <1>1 DEF FitInv, RowsFit, Forward
<1>3. MainJobFit'
  <2> SUFFICES ASSUME job[Main] # None, job[Main].fd \notin tainted'
               PROVE  \A c, f : c = job[Main].src /\ f = job[Main].fd => Fit(1, c, f)'
    BY DEF MainJobFit, Fit, Bound, Settled, Denoted, Ends
  <2> QED
    BY <1>1 DEF FitInv, MainJobFit, Forward
<1>4. BindsFit'
  <2> SUFFICES ASSUME NEW k \in DOMAIN queue,
                      queue[k].pdu.kind = "bind", queue[k].fd \notin tainted'
               PROVE  \A n, c, f : n = k + 1 /\ c = queue[k].src /\ f = queue[k].fd =>
                                       Fit(n, c, f)'
    BY DEF BindsFit, Fit, Bound, Settled, Denoted, Ends
  <2> QED
    BY <1>1 DEF FitInv, BindsFit, Forward
<1> QED
  BY <1>2, <1>3, <1>4

\* A message at the back: what stood before it still fits, and so does the
\* message.
LEMMA FitAppend ==
    ASSUME TypeOK, FitInv, Forward, direct' = direct, ~direct,
           UNCHANGED <<job, device>>, NEW e \in Event, queue' = Append(queue, e),
           \A c : e.pdu = Plain("disconnect") /\ Bound(c, e.fd) /\ e.fd \notin tainted
                      => Settled(c),
           e.pdu.kind = "bind" /\ e.fd \notin tainted => Bound(e.src, e.fd)
    PROVE  FitInv'
<1>1. /\ Len(queue) \in Nat /\ DOMAIN queue = 1 .. Len(queue)
      /\ DOMAIN queue' = 1 .. Len(queue) + 1
      /\ queue'[Len(queue) + 1] = e
      /\ \A k \in 1 .. Len(queue) : queue'[k] = queue[k]
  BY AppendEnds
<1>2. ASSUME NEW k, NEW c, NEW f, Fit(k, c, f), f \notin tainted'
      PROVE  Fit(k, c, f)'
  <2>1. Bound(c, f) /\ Bound(c, f)' /\ f \notin tainted /\ (Settled(c) => Settled(c)')
    BY <1>2 DEF Fit, Forward
  <2>2. Ends(k, f)' => Settled(c)
    BY <1>2, <2>1, AppendEndsOnly DEF Fit
  <2> QED
    BY <2>1, <2>2 DEF Fit
<1>3. RowsFit'
  BY <1>2 DEF FitInv, RowsFit, Forward
<1>4. MainJobFit'
  <2> SUFFICES ASSUME job[Main] # None, job[Main].fd \notin tainted'
               PROVE  \A c, f : c = job[Main].src /\ f = job[Main].fd => Fit(1, c, f)'
    BY DEF MainJobFit, Fit, Bound, Settled, Denoted, Ends
  <2> QED
    BY <1>2 DEF FitInv, MainJobFit, Forward
<1>5. BindsFit'
  <2> SUFFICES ASSUME NEW k \in 1 .. Len(queue) + 1,
                      queue'[k].pdu.kind = "bind", queue'[k].fd \notin tainted'
               PROVE  \A n, c, f : n = k + 1 /\ c = queue'[k].src /\ f = queue'[k].fd =>
                                       Fit(n, c, f)'
    BY <1>1 DEF BindsFit, Fit, Bound, Settled, Denoted, Ends
  <2>1. CASE k \in 1 .. Len(queue)
    BY <1>1, <1>2, <2>1 DEF FitInv, BindsFit, Forward
  <2>2. CASE k = Len(queue) + 1
    <3>1. queue'[k] = e /\ Bound(e.src, e.fd)
      BY <1>1, <2>2 DEF Forward
    <3>2. \A c, f : c = e.src /\ f = e.fd => Bound(c, f)'
      BY <3>1 DEF Forward
    <3>3. \A n, f : n = k + 1 => ~Ends(n, f)'
      BY <1>1, <2>2 DEF Ends
    <3>4. \A n, c, f : n = k + 1 /\ c = e.src /\ f = e.fd => Fit(n, c, f)'
      BY <3>2, <3>3 DEF Fit
    <3> QED
      BY <3>1, <3>4
  <2> QED
    BY <1>1, <2>1, <2>2
<1> QED
  BY <1>3, <1>4, <1>5 DEF FitInv

LEMMA FitHandler ==
    ASSUME TypeInv, OwnerInv, PlaceInv, Single, FitInv, Forward,
           ~direct, direct' = direct, NEW t \in Conn, Handler(t)
    PROVE  FitInv'
<1> USE DEF TypeInv, OwnerInv
<1>1. t \in Client \/ (t \in Link /\ t \notin Client)
  BY DEF Conn
<1>2. CASE \/ ReceiverStart(t) \/ HandlerCall(t) \/ HandlerEnd(t)
           \/ HandlerReset(t) \/ HandlerClose(t)
  <2>1. UNCHANGED <<queue, job, device>>
    BY <1>2 DEF ReceiverStart, HandlerCall, HandlerEnd, HandlerReset, HandlerClose, reg
  <2> QED
    BY <2>1, FitCalm
<1>3. CASE HandlerReceive(t)
  <2> DEFINE f == tfd[t]
             c == ton[t]
  <2>1. PICK p \in Pdu : Post(f, p, c) /\ UNCHANGED <<job, device>>
    BY <1>3 DEF HandlerReceive
  <2>2. tpc[t] = "recv" /\ c \in Client /\ c \in Conn
    BY <1>3 DEF HandlerReceive, Conn
  <2>3. f \in FD \cup {None}
    BY DEF TypeOK
  \* A thread that receives from a client on an untainted number is that client's.
  <2>4. f \notin tainted => Bound(c, f)
    <3>1. CASE t \in Client
      BY <2>2, <3>1 DEF OwnClient, Live, Bound
    <3>2. CASE t \in Link /\ t \notin Client
      BY <1>3, <2>2, <3>2 DEF OwnLink, HandlerReceive, Shape
    <3> QED
      BY <1>1, <3>1, <3>2
  <2> DEFINE e == [fd |-> f, pdu |-> p, src |-> c]
  <2>5. e \in Event /\ queue' = Append(queue, e)
    BY <2>1, <2>2, <2>3 DEF Event, Post
  <2>6. e.pdu # Plain("disconnect")
    BY PduType DEF Plain
  <2>7. e.pdu.kind = "bind" /\ e.fd \notin tainted => Bound(e.src, e.fd)
    BY <2>4
  <2> HIDE DEF e
  <2> QED
    BY <2>1, <2>5, <2>6, <2>7, FitAppend
<1>4. CASE HandlerInsert(t)
  BY <1>4 DEF HandlerInsert, FinishBind, Single
<1>5. CASE HandlerPostDisconnect(t)
  <2> DEFINE kind == IF t \in Client THEN "disconnect" ELSE "lost"
             e == [fd |-> tfd[t], pdu |-> Plain(kind), src |-> t]
  <2>1. /\ tpc[t] = "post" /\ queue' = Append(queue, e)
        /\ UNCHANGED <<job, device>>
    BY <1>5 DEF HandlerPostDisconnect, Post
  <2>2. e \in Event /\ e.fd = tfd[t] /\ e.pdu = Plain(kind) /\ e.pdu.kind # "bind"
    BY DEF Event, TypeOK, Plain
  \* The number still denotes t, so whoever else was given it is gone.
  <2>3. ASSUME NEW c, e.pdu = Plain("disconnect"), Bound(c, e.fd), e.fd \notin tainted
        PROVE  Settled(c)
    <3>1. t \in Client
      BY <2>2, <2>3 DEF Plain
    <3>2. fd[tfd[t]] = t /\ peer[t] = "shut"
      BY <2>1, <2>2, <2>3, <3>1 DEF OwnClient, Live, PlaceInv, ShutFirst
    <3>3. CASE c = t
      BY <3>2, <3>3 DEF Settled
    <3>4. CASE c # t
      BY <2>2, <2>3, <3>2, <3>4 DEF Settled, Denoted, Bound, PlaceInv, OnlyOwn
    <3> QED
      BY <3>3, <3>4
  <2> HIDE DEF e
  <2> QED
    BY <2>1, <2>2, <2>3, FitAppend
<1> QED
  BY <1>2, <1>3, <1>4, <1>5 DEF Handler

LEMMA FitMain ==
    ASSUME TypeInv, FitInv, Forward, ~direct, direct' = direct,
           OnDisconnect \/ OnLost \/ OnPdu \/ MainInsert
    PROVE  FitInv'
<1> USE DEF TypeInv
<1>1. Main \in Worker /\ RowsFit /\ MainJobFit /\ BindsFit
  BY DEF Worker, FitInv
<1>2. \A c, f : Bound(c, f) => Bound(c, f)' /\ (Settled(c) => Settled(c)')
  BY DEF Forward
<1>3. tainted' = tainted
  BY DEF OnDisconnect, OnLost, OnPdu, MainInsert
<1>4. CASE MainInsert
  <2>1. /\ device' = device \cup {job[Main]} /\ queue' = queue
        /\ job[Main] # None /\ job'[Main] = None
    BY <1>1, <1>4 DEF MainInsert, FinishBind, TypeOK
  <2>2. \A k, c, f : Fit(k, c, f) => Fit(k, c, f)'
    BY <1>2, <2>1 DEF Fit, Ends, Plain
  <2>3. RowsFit' /\ MainJobFit'
    BY <1>1, <1>3, <2>1, <2>2 DEF RowsFit, MainJobFit
  <2>4. BindsFit'
    <3> SUFFICES ASSUME NEW k \in DOMAIN queue,
                        queue[k].pdu.kind = "bind", queue[k].fd \notin tainted
                 PROVE  \A n, c, f : n = k + 1 /\ c = queue[k].src /\ f = queue[k].fd =>
                                         Fit(n, c, f)'
      BY <1>3, <2>1 DEF BindsFit, Fit, Bound, Settled, Denoted, Ends
    <3> QED
      BY <1>1, <2>2 DEF BindsFit
  <2> QED
    BY <2>3, <2>4 DEF FitInv
<1>5. CASE OnDisconnect \/ OnLost \/ OnPdu
  <2> DEFINE h == Head(queue)
  <2>1. job[Main] = None /\ queue # <<>> /\ queue' = Tail(queue)
    BY <1>5 DEF OnDisconnect, OnLost, OnPdu, Dequeue
  <2>2. /\ DOMAIN queue = 1 .. Len(queue) /\ Len(queue) \in Nat \ {0}
        /\ DOMAIN queue' = 1 .. Len(queue) - 1
        /\ h = queue[1]
        /\ \A k \in DOMAIN queue' : queue'[k] = queue[k + 1] /\ k + 1 \in DOMAIN queue
    BY <2>1, TailEnds
  <2>3. ASSUME NEW k \in Nat, NEW c, NEW f, Fit(k + 1, c, f)
        PROVE  Fit(k, c, f)'
    <3>1. Ends(k, f)' => Ends(k + 1, f)
      BY <2>1, TailEndsOnly
    <3> QED
      BY <1>2, <2>3, <3>1 DEF Fit
  <2>4. ASSUME NEW c, NEW f, Fit(1, c, f)
        PROVE  Fit(1, c, f)'
    <3>1. Ends(1, f)' => Ends(1 + 1, f)
      BY <2>1, TailEndsOnly
    <3>2. Ends(1 + 1, f) => Ends(1, f)
      BY <2>2 DEF Ends
    <3> QED
      BY <1>2, <2>4, <3>1, <3>2 DEF Fit
  <2>5. BindsFit'
    <3> SUFFICES ASSUME NEW k \in DOMAIN queue',
                        queue'[k].pdu.kind = "bind", queue'[k].fd \notin tainted
                 PROVE  \A n, c, f : n = k + 1 /\ c = queue'[k].src /\ f = queue'[k].fd =>
                                         Fit(n, c, f)'
      BY <1>3 DEF BindsFit, Fit, Bound, Settled, Denoted, Ends
    <3>1. k + 1 \in DOMAIN queue /\ queue'[k] = queue[k + 1] /\ k + 1 \in Nat
      BY <2>2
    <3>2. \A n, c, f : n = k + 1 + 1 /\ c = queue'[k].src /\ f = queue'[k].fd => Fit(n, c, f)
      BY <1>1, <3>1 DEF BindsFit
    <3> QED
      BY <2>3, <3>1, <3>2
  <2>6. ASSUME \A r \in device' : r.status = 1 => r \in device
        PROVE  RowsFit'
    BY <1>1, <1>3, <2>4, <2>6 DEF RowsFit
  <2>7. CASE UNCHANGED job /\ \A r \in device' : r.status = 1 => r \in device
    BY <2>1, <2>5, <2>6, <2>7 DEF FitInv, MainJobFit
  <2>8. CASE OnPdu /\ h.pdu.kind = "bind" /\ StartBind(Main, h.pdu.id, h.fd, h.src)
    <3> DEFINE b == [id |-> h.pdu.id, status |-> 1, fd |-> h.fd, src |-> h.src]
    <3>1. device' \subseteq device /\ job'[Main] = b
      BY <1>1, <2>8 DEF StartBind, TypeOK
    <3>2. MainJobFit'
      <4> SUFFICES ASSUME h.fd \notin tainted
                   PROVE  \A c, f : c = h.src /\ f = h.fd => Fit(1, c, f)'
        BY <1>3, <3>1 DEF MainJobFit, Fit, Bound, Settled, Denoted, Ends
      <4>1. 1 \in DOMAIN queue /\ queue[1] = h
        BY <2>2
      <4>2. \A c, f : c = h.src /\ f = h.fd => Fit(1 + 1, c, f)
        BY <1>1, <2>8, <4>1 DEF BindsFit
      <4> QED
        BY <2>3, <4>2
    <3> QED
      BY <2>5, <2>6, <3>1, <3>2 DEF FitInv
  <2>9. CASE job' = job /\ (device' = device \/ SetUnbindState(h.fd))
    BY <2>7, <2>9, UnbindRows
  <2> QED
    BY <1>5, <2>8, <2>9 DEF OnDisconnect, OnLost, OnPdu, Handle, AckPacket
<1> QED
  BY <1>4, <1>5

LEMMA FitStep ==
    /\ TypeInv /\ OwnerInv /\ PlaceInv /\ Single /\ FitInv
    /\ [Next]_vars
    => FitInv'
<1> SUFFICES ASSUME TypeInv, OwnerInv, PlaceInv, Single, FitInv, [Next]_vars
             PROVE  FitInv'
  OBVIOUS
<1>1. direct' = direct /\ Forward
  BY DirectFixed, PlaceStep
<1> SUFFICES ASSUME ~direct PROVE FitInv'
  BY <1>1 DEF FitInv
<1>2. CASE (\E c \in Client, f \in FD : Accept(c, f)) \/ (\E c \in Client : ClientStop(c))
           \/ CenterDown \/ CenterUp \/ (\E l \in Link : CenterDrop(l)) \/ UNCHANGED vars
  <2>1. UNCHANGED <<queue, job, device>>
    BY <1>2 DEF Accept, ClientStop, CenterDown, CenterUp, CenterDrop, vars, reg
  <2> QED
    BY <1>1, <2>1, FitCalm
<1>3. ASSUME NEW d \in Dialer, Dial(d) PROVE FitInv'
  <2>1. UNCHANGED <<queue, job, device>>
    BY <1>3 DEF Dial, DialCreate, DialNoSocket, DialConnected, DialRefused, DialReset,
                DialBind, reg
  <2> QED
    BY <1>1, <2>1, FitCalm
<1>4. CASE Enquire /\ ~Dial(Enq)
  <2>1. UNCHANGED <<queue, job>> /\ device' \subseteq device
    BY <1>4 DEF Enquire, EnqWake, EnqDelete, EnqClose, EnqOverrun, EnqClear, EnqSelect,
                EnqPush, EnqLink, EnqRest, DialCheck, reg
  <2> QED
    BY <1>1, <2>1, FitCalm
<1> QED
  BY <1>1, <1>2, <1>3, <1>4, FitHandler, FitMain DEF Next, MainLoop, Dialer

\* In ControllerClient the disconnect the main thread handles unbinds no row of a
\* client whose connection lives, unless a foreign thread has closed the number:
\* binds and disconnects come through one queue, and the number is free for the
\* next client only after the disconnect is in it.
THEOREM UnbindsOnlyClosedHolds == Spec => UnbindsOnlyClosed
<1> DEFINE Unbinds(r) == /\ ~direct /\ OnDisconnect
                         /\ r.fd = Head(queue).fd /\ r.status = 1 /\ r.fd \notin tainted
           Sound == \A r \in device : Unbinds(r) => peer[r.src] = "shut" \/ ~Denoted(r.src)
<1>1. Init => PlaceInv /\ FitInv /\ Single
  <2> SUFFICES ASSUME Init PROVE PlaceInv /\ FitInv /\ Single
    OBVIOUS
  <2>1. PlaceInv
    BY DEF Init, PlaceInv, OnlyOwn, ShutFirst, Conn
  <2> QED
    BY <2>1 DEF Init, FitInv, RowsFit, MainJobFit, BindsFit, Single, OneRowPerId, Worker
<1>2. TypeInv /\ FitInv => Sound
  <2> SUFFICES ASSUME TypeInv, FitInv, NEW r \in device, Unbinds(r)
               PROVE  Settled(r.src)
    BY DEF Settled
  <2>1. queue # <<>> /\ Head(queue).pdu.kind = "disconnect" /\ queue \in Seq(Event)
    BY DEF OnDisconnect, Dequeue, TypeInv, TypeOK
  <2>2. Head(queue) \in Event /\ Head(queue) = queue[1] /\ 1 \in DOMAIN queue /\ 1 >= 1
    BY <2>1, HeadTailProperties, LenProperties, EmptySeq
  <2>3. Head(queue).pdu = Plain("disconnect")
    <3>1. Head(queue).pdu \in Pdu \cup {Plain("disconnect"), Plain("lost")}
      BY <2>2 DEF Event
    <3> QED
      BY <2>1, <3>1, PduType DEF Plain
  <2>4. Ends(1, r.fd)
    BY <2>2, <2>3 DEF Ends
  <2>5. Fit(1, r.src, r.fd)
    BY DEF FitInv, RowsFit
  <2> QED
    BY <2>4, <2>5 DEF Fit
<1>3. TypeInv /\ FitInv /\ [Next]_vars => [Sound]_vars
  BY <1>2
<1>4. TypeInv /\ OwnerInv /\ PlaceInv /\ [Next]_vars => PlaceInv'
  BY PlaceStep
<1> QED
  BY <1>1, <1>3, <1>4, FitStep, SingleStep, OwnerInit, OwnerStep, TypeInvariant,
     DialInvariant, PTL DEF Spec, UnbindsOnlyClosed

-----------------------------------------------------------------------------
(***************************************************************************)
(* Who takes the number out of m_nSocketFD.                                *)
(***************************************************************************)
Kept(l, n) == Keeps(l, n) \/ Unserved(l)

\* The steps that leave the field alone, and the socket it denotes.
LEMMA FieldCalm ==
    ASSUME LinkHeld, sockfd' = sockfd, Resetting' = Resetting,
           \A g : g \notin tainted' => g \notin tainted,
           sockfd # None /\ sockfd \notin tainted' =>
               IF Resetting THEN fd'[sockfd] \in {fd[sockfd], None} \cup Client
                            ELSE fd'[sockfd] = fd[sockfd],
           \A l \in Link : fd[sockfd] = l /\ sockfd \notin tainted' /\ Kept(l, sockfd)
                               => Kept(l, sockfd)'
    PROVE  LinkHeld'
<1> SUFFICES ASSUME sockfd # None, sockfd \notin tainted'
             PROVE  IF Resetting
                    THEN fd'[sockfd] \notin Link
                    ELSE \E l \in Link : fd'[sockfd] = l /\ Kept(l, sockfd)'
  BY DEF LinkHeld, Kept
<1>1. CASE Resetting
  <2>1. fd[sockfd] \notin Link
    BY <1>1 DEF LinkHeld
  <2>2. None \notin Link /\ Client \cap Link = {}
    BY DEF Conn
  <2> QED
    BY <1>1, <2>1, <2>2
<1>2. CASE ~Resetting
  <2>1. PICK l \in Link : fd[sockfd] = l /\ Kept(l, sockfd)
    BY <1>2 DEF LinkHeld, Kept
  <2>2. fd'[sockfd] = l /\ Kept(l, sockfd)'
    BY <1>2, <2>1
  <2> QED
    BY <1>2, <2>2
<1> QED
  BY <1>1, <1>2

LEMMA FieldHandler ==
    ASSUME TypeInv, DialInv, OwnerInv, LinkHeld, NEW t \in Conn, Handler(t)
    PROVE  LinkHeld'
<1> USE DEF TypeInv
<1>1. /\ \A l \in Link : l \in Conn
      /\ UNCHANGED <<dpc, dial>>
      /\ Resetting' = Resetting
  BY DialHandler DEF Conn, Resetting
<1>2. /\ tpc[t] # "failed"
      /\ \A u \in Conn : u # t => tpc'[u] = tpc[u] /\ tfd'[u] = tfd[u]
  BY DEF Handler, ReceiverStart, HandlerCall, HandlerReceive, HandlerInsert,
         HandlerEnd, HandlerPostDisconnect, HandlerReset, HandlerClose, TypeOK
<1>3. sockfd' = sockfd => \A l \in Link : l # t /\ Kept(l, sockfd) => Kept(l, sockfd)'
  BY <1>1, <1>2 DEF Kept, Keeps, Unserved
<1>4. CASE ReceiverStart(t)
  <2>1. /\ UNCHANGED <<fd, sockfd, tainted>>
        /\ tpc'[t] = "call" /\ tfd'[t] = sockfd
    BY <1>4 DEF ReceiverStart, env, link, TypeOK
  <2>2. t \in Link => Kept(t, sockfd)'
    BY <2>1 DEF Kept, Keeps
  <2> QED
    BY <1>1, <1>3, <2>1, <2>2, FieldCalm
<1>5. CASE \/ HandlerCall(t) \/ HandlerInsert(t) \/ HandlerEnd(t)
           \/ HandlerPostDisconnect(t)
  <2>1. /\ UNCHANGED <<fd, sockfd, tainted, tfd>>
        /\ tpc[t] # "start"
        /\ t \in Link => tpc'[t] \in {"call", "recv", "post", "reset"}
    BY <1>5 DEF HandlerCall, HandlerInsert, HandlerEnd, HandlerPostDisconnect,
                env, link, TypeOK
  <2>2. t \in Link /\ Kept(t, sockfd) => Kept(t, sockfd)'
    BY <1>1, <1>2, <2>1 DEF Kept, Keeps, Unserved
  <2> QED
    BY <1>1, <1>3, <2>1, <2>2, FieldCalm
<1>6. CASE HandlerReceive(t)
  <2>1. /\ UNCHANGED <<fd, sockfd, tainted, tfd>>
        /\ tpc[t] = "recv" /\ ton[t] \in Client
    BY <1>6 DEF HandlerReceive, env, link
  <2>2. CASE sockfd = None
    BY <2>1, <2>2 DEF LinkHeld
  \* A receiver that goes by the field reads from no client.
  <2>3. ASSUME sockfd # None, sockfd \notin tainted, t \in Link, Kept(t, sockfd)
        PROVE  Kept(t, sockfd)'
    <3>1. tfd[t] # sockfd
      BY <2>1, <2>3 DEF OwnerInv, OwnLink
    <3>2. \E d \in Dialer : dpc[d] = "connect" /\ dial[d] = t
      BY <1>2, <2>1, <2>3, <3>1 DEF Kept, Keeps, Unserved
    <3> QED
      BY <1>1, <3>2 DEF Kept, Keeps
  <2> QED
    BY <1>1, <1>3, <2>1, <2>2, <2>3, FieldCalm
<1>7. CASE HandlerReset(t)
  <2>1. /\ UNCHANGED <<fd, tainted, tfd>>
        /\ tpc[t] = "reset"
        /\ sockfd' = IF sockfd = tfd[t] THEN None ELSE sockfd
    BY <1>7 DEF HandlerReset, env
  <2>2. CASE sockfd = tfd[t]
    BY <2>1, <2>2 DEF LinkHeld
  <2>3. CASE sockfd # tfd[t]
    <3>1. t \in Link /\ Kept(t, sockfd) => Kept(t, sockfd)'
      BY <1>1, <1>2, <2>1, <2>3 DEF Kept, Keeps, Unserved
    <3> QED
      BY <1>1, <1>3, <2>1, <2>3, <3>1, FieldCalm
  <2> QED
    BY <2>2, <2>3
<1>8. CASE HandlerClose(t)
  <2>1. tpc[t] = "close" /\ sockfd' = sockfd
    BY <1>8 DEF HandlerClose, link
  <2>2. t \in Link /\ Kept(t, sockfd) => Kept(t, sockfd)'
    BY <1>1, <1>2, <2>1 DEF Kept, Keeps, Unserved
  <2>3. CASE tfd[t] = None
    <3>1. UNCHANGED <<fd, tainted>>
      BY <1>8, <2>3 DEF HandlerClose
    <3> QED
      BY <1>1, <1>3, <2>1, <2>2, <3>1, FieldCalm
  <2>4. CASE tfd[t] # None
    <3>1. tfd[t] \in FD /\ Close(tfd[t], t)
      BY <1>8, <2>4 DEF HandlerClose, TypeOK
    <3>2. /\ \A g : g \notin tainted' => g \notin tainted
          /\ \A g \in FD : fd'[g] \in {fd[g], None}
          /\ \A g \in FD : g # tfd[t] => fd'[g] = fd[g]
      BY <3>1 DEF Close, TypeOK
    <3>3. ASSUME sockfd # None, sockfd \notin tainted', ~Resetting
          PROVE  fd'[sockfd] = fd[sockfd]
      <4>1. sockfd # tfd[t]
        BY <2>1, <2>4, <3>1, <3>3 DEF Close, InUse, OwnerInv, CloseLast
      <4> QED
        BY <3>2, <3>3, <4>1 DEF TypeOK
    <3>4. sockfd # None => fd'[sockfd] \in {fd[sockfd], None}
      BY <3>2 DEF TypeOK
    <3> QED
      BY <1>1, <1>3, <2>1, <2>2, <3>2, <3>3, <3>4, FieldCalm
  <2> QED
    BY <2>3, <2>4
<1> QED
  BY <1>4, <1>5, <1>6, <1>7, <1>8 DEF Handler

LEMMA FieldDial ==
    ASSUME TypeInv, DialInv, LinkHeld, NEW d \in Dialer, Dial(d)
    PROVE  LinkHeld'
<1> USE DEF TypeInv
<1>1. /\ \A l \in Link : l \in Conn /\ l # None
      /\ \A e \in Dialer : e # d => dpc'[e] = dpc[e] /\ dial'[e] = dial[e]
  BY DEF Conn, Dial, DialCreate, DialNoSocket, DialConnected, DialRefused, DialReset,
         DialBind, TypeOK
<1>2. dpc[d] \in {"create", "connect"} => ~Resetting
  BY DEF DialInv, MainFirst, Resetting, Dialer
<1>3. ASSUME NEW l \in Link, NEW f \in FD, DialCreate(d, l, f) PROVE LinkHeld'
  <2>1. /\ sockfd' = f /\ fd'[f] = l /\ dpc'[d] = "connect" /\ dial'[d] = l
        /\ dpc[d] = "create"
    BY <1>3 DEF DialCreate, TypeOK
  <2>2. ~Resetting'
    BY <1>1, <1>2, <2>1 DEF Resetting
  <2>3. Keeps(l, sockfd)'
    BY <2>1 DEF Keeps
  <2> QED
    BY <2>1, <2>2, <2>3 DEF LinkHeld
<1>4. CASE DialNoSocket(d) \/ DialReset(d)
  <2>1. sockfd' = None
    BY <1>4 DEF DialNoSocket, DialReset
  <2> QED
    BY <2>1 DEF LinkHeld
<1>5. CASE DialRefused(d)
  <2> SUFFICES ASSUME sockfd' # None PROVE Resetting' /\ fd'[sockfd'] \notin Link
    BY DEF LinkHeld
  <2>1. /\ sockfd' = sockfd /\ sockfd \in FD
        /\ fd'[sockfd] = None /\ dpc'[d] = "reset"
    BY <1>5 DEF DialRefused, TypeOK
  <2> QED
    BY <1>1, <2>1 DEF Resetting
<1>6. CASE DialConnected(d)
  <2>1. /\ UNCHANGED <<fd, tfd, sockfd, tainted>>
        /\ \/ tpc' = [tpc EXCEPT ![dial[d]] = "start"]
           \/ tpc' = [tpc EXCEPT ![dial[d]] = "failed"]
        /\ dpc[d] = "connect" /\ dpc'[d] = "bind" /\ dial'[d] = None
    BY <1>6 DEF DialConnected, TypeOK
  <2>2. \A l \in Link : /\ l # dial[d] => tpc'[l] = tpc[l]
                        /\ l = dial[d] => tpc'[l] \in {"start", "failed"}
    BY <1>1, <2>1 DEF TypeOK
  \* The other dialer is not connecting.
  <2>3. \A e \in Dialer : dial'[e] = None
    BY <1>1, <2>1 DEF DialInv, MainFirst, DialHeld, Dialer
  <2>4. ASSUME NEW l \in Link, Kept(l, sockfd) PROVE Kept(l, sockfd)'
    <3>1. CASE l = dial[d]
      BY <1>1, <2>2, <2>3, <3>1 DEF Kept, Keeps, Unserved
    <3>2. CASE l # dial[d]
      <4>1. tpc'[l] = tpc[l] /\ tfd'[l] = tfd[l]
        BY <2>1, <2>2, <3>2
      <4>2. \A e \in Dialer : ~(dpc[e] = "connect" /\ dial[e] = l)
        BY <1>1, <2>1, <2>3, <3>2
      <4> QED
        BY <1>1, <2>1, <2>3, <2>4, <4>1, <4>2 DEF Kept, Keeps, Unserved
    <3> QED
      BY <3>1, <3>2
  <2>5. Resetting' = Resetting
    BY <1>1, <2>1 DEF Resetting
  <2> QED
    BY <2>1, <2>4, <2>5, FieldCalm
<1>7. CASE DialBind(d)
  <2>1. /\ UNCHANGED <<fd, tpc, tfd, sockfd, tainted, dial>>
        /\ dpc[d] = "bind" /\ dpc'[d] = "idle"
    BY <1>7 DEF DialBind, thr, TypeOK
  <2>2. \A l \in Link : Kept(l, sockfd) => Kept(l, sockfd)'
    BY <1>1, <2>1 DEF Kept, Keeps, Unserved
  <2>3. Resetting' = Resetting
    BY <1>1, <2>1 DEF Resetting
  <2> QED
    BY <2>1, <2>2, <2>3, FieldCalm
<1> QED
  BY <1>3, <1>4, <1>5, <1>6, <1>7 DEF Dial

LEMMA FieldStep == TypeInv /\ DialInv /\ OwnerInv /\ LinkHeld /\ [Next]_vars => LinkHeld'
<1> SUFFICES ASSUME TypeInv, DialInv, OwnerInv, LinkHeld, [Next]_vars PROVE LinkHeld'
  OBVIOUS
<1> USE DEF TypeInv
<1>1. \A l \in Link : l \in Conn /\ l \notin Client /\ l # None
  BY DEF Conn
<1>2. CASE /\ UNCHANGED <<fd, tpc, tfd, sockfd, tainted, dial>>
           /\ \A d \in Dialer : dpc'[d] # dpc[d] =>
                 dpc[d] \in {"idle", "check"} /\ dpc'[d] \in {"check", "create", "idle"}
  <2>1. \A l \in Link : Kept(l, sockfd) => Kept(l, sockfd)'
    BY <1>2 DEF Kept, Keeps, Unserved
  <2>2. Resetting' = Resetting
    BY <1>2 DEF Resetting
  <2> QED
    BY <1>2, <2>1, <2>2, FieldCalm
<1>3. ASSUME NEW c \in Client, NEW f \in FD, Accept(c, f) PROVE LinkHeld'
  <2>1. /\ UNCHANGED <<sockfd, tainted, dial, dpc>> /\ fd[f] = None
        /\ fd'[f] = c /\ \A g \in FD : g # f => fd'[g] = fd[g]
        /\ \A u \in Conn : u # c => tpc'[u] = tpc[u] /\ tfd'[u] = tfd[u]
    BY <1>3 DEF Accept, link, TypeOK
  <2>2. \A l \in Link : Kept(l, sockfd) => Kept(l, sockfd)'
    BY <1>1, <2>1 DEF Kept, Keeps, Unserved
  <2>3. sockfd # None /\ sockfd \notin tainted =>
            IF Resetting THEN fd'[sockfd] \in {fd[sockfd], None} \cup Client
                         ELSE fd'[sockfd] = fd[sockfd]
    BY <1>1, <2>1 DEF LinkHeld, TypeOK
  <2>4. Resetting' = Resetting
    BY <2>1 DEF Resetting
  <2> QED
    BY <2>1, <2>2, <2>3, <2>4, FieldCalm
<1>4. CASE (\E c \in Client : ClientStop(c)) \/ CenterDown \/ CenterUp
           \/ (\E l \in Link : CenterDrop(l)) \/ UNCHANGED vars
           \/ OnDisconnect \/ OnLost \/ OnPdu \/ MainInsert
  <2>1. UNCHANGED <<fd, tpc, tfd, sockfd, tainted, dial, dpc>>
    BY <1>4 DEF ClientStop, CenterDown, CenterUp, CenterDrop, vars,
                OnDisconnect, OnLost, OnPdu, MainInsert, env, thr, link
  <2> QED
    BY <1>2, <2>1
<1>5. CASE /\ Enquire /\ ~EnqClose /\ ~Dial(Enq)
           /\ ~\E f \in FD : EnqOverrun(f)
  <2>1. UNCHANGED <<fd, tpc, tfd, sockfd, tainted, dial>>
    BY <1>5 DEF Enquire, EnqWake, EnqDelete, EnqClear, EnqSelect, EnqPush, EnqLink,
                EnqRest, DialCheck, env, thr, link
  <2> QED
    BY <1>2, <1>5, <2>1, DialEnquire DEF Dialer
<1>6. CASE EnqClose \/ \E f \in FD : EnqOverrun(f)
  <2>1. PICK f \in FD : Close(f, None)
    BY <1>6 DEF EnqClose, EnqOverrun, Shape
  <2>2. UNCHANGED <<tpc, tfd, sockfd, dial, dpc>>
    BY <1>6 DEF EnqClose, EnqOverrun, thr, link
  <2>3. \A l \in Link : Kept(l, sockfd) => Kept(l, sockfd)'
    BY <2>2 DEF Kept, Keeps, Unserved
  <2>4. /\ \A g : g \notin tainted' => g \notin tainted
        /\ \A g \in FD : fd'[g] \in {fd[g], None}
        /\ \A g \in FD : g # f => fd'[g] = fd[g]
    BY <2>1 DEF Close, TypeOK
  <2>5. sockfd # None /\ sockfd \notin tainted' =>
            IF Resetting THEN fd'[sockfd] \in {fd[sockfd], None} \cup Client
                         ELSE fd'[sockfd] = fd[sockfd]
    <3>1. sockfd = f /\ ~Resetting => sockfd \in tainted'
      BY <1>1, <2>1 DEF Close, InUse
    <3> QED
      BY <2>4, <3>1 DEF TypeOK
  <2>6. Resetting' = Resetting
    BY <2>2 DEF Resetting
  <2> QED
    BY <2>2, <2>3, <2>4, <2>5, <2>6, FieldCalm
<1> QED
  BY <1>3, <1>4, <1>5, <1>6, FieldHandler, FieldDial
     DEF Next, MainLoop, Enquire, Dialer

\* The field never keeps a number that nobody is going to take out of it, so a
\* link that has ended does not cut the controller off for ever: a receiver or
\* the failed dial itself resets the field.  That fails only where a thread has
\* closed the number while another served it, or where the receiver was never
\* created, which DialConnected does not notice.
THEOREM LinkHeldHolds == Spec => []LinkHeld
<1>1. Init => LinkHeld
  BY DEF Init, LinkHeld
<1> QED
  BY <1>1, FieldStep, OwnerInit, OwnerStep, TypeInvariant, DialInvariant, PTL DEF Spec
=============================================================================
