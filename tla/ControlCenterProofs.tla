------------------------ MODULE ControlCenterProofs ------------------------
(***************************************************************************)
(* Theorems about ControlCenter, for every set of descriptors, connections *)
(* and ids and every bound: type correctness and, from one inductive       *)
(* invariant, that the descriptor numbers stored in the queue and in the   *)
(* table denote the connections they were made for, or closed ones; and,   *)
(* from one that counts, that the monitor drops only who owes an answer.   *)
(***************************************************************************)
EXTENDS ControlCenter, SequenceTheorems, FiniteSetTheorems,
        WellFoundedInduction, TLAPS

\* The assumptions that keep None and the message kinds apart.
USE NoneAssumption, BoundAssumption, SqlAssumption

-----------------------------------------------------------------------------
(***************************************************************************)
(* Sequences.                                                              *)
(***************************************************************************)

\* The least element of a nonempty set of naturals exists, so CHOOSE finds it.
LEMMA MinIsMember ==
    ASSUME NEW I, I \subseteq Nat, I # {}
    PROVE  Min(I) \in I
<1>1. PICK x \in I : \A y \in I : <<y, x>> \notin OpToRel(<, Nat)
  BY NatLessThanWellFounded, WFMin
<1>2. \A y \in I : ~ (y < x)
  BY <1>1, Zenon DEF OpToRel
<1>3. \A y \in I : x =< y
  BY <1>2
<1> QED
  BY <1>3 DEF Min

\* r is s without its element k: those behind it move up by one.
Without(r, s, k) ==
    /\ Len(r) = Len(s) - 1
    /\ \A j \in 1 .. Len(s) - 1 : r[j] = IF j < k THEN s[j] ELSE s[j + 1]

\* RemoveFirst, the vector after vEnquireLink.erase( it ), where there is
\* something to remove.
LEMMA RemoveFirstShape ==
    ASSUME NEW S, NEW s \in Seq(S), NEW e,
           \E i \in 1 .. Len(s) : s[i] = e,
           NEW r, r = RemoveFirst(s, e)
    PROVE  r \in Seq(S) /\ \E k \in 1 .. Len(s) : s[k] = e /\ Without(r, s, k)
<1> DEFINE k == SelectInSeq(s, LAMBDA v : v = e)
           I == {i \in 1 .. Len(s) : s[i] = e}
           front == SubSeq(s, 1, k - 1)
           back == SubSeq(s, k + 1, Len(s))
<1>1. RemoveFirst(s, e) = front \o back
  BY DEF RemoveFirst, RemoveAt
<1>2. Min(I) \in I
  <2>1. I \subseteq Nat /\ I # {}
    OBVIOUS
  <2> QED
    BY <2>1, MinIsMember
<1>3. k \in 1 .. Len(s) /\ s[k] = e
  BY <1>2 DEF SelectInSeq
<1> HIDE DEF k
<1>4. Len(s) \in Nat /\ \A i \in 1 .. Len(s) : s[i] \in S
  BY LenProperties, ElementOfSeq
<1>5. \A m, n \in Int : 1 <= m /\ n <= Len(s) =>
         /\ SubSeq(s, m, n) \in Seq(S)
         /\ Len(SubSeq(s, m, n)) = IF m <= n THEN n - m + 1 ELSE 0
         /\ \A i \in 1 .. n - m + 1 : SubSeq(s, m, n)[i] = s[m + i - 1]
  <2> SUFFICES ASSUME NEW m \in Int, NEW n \in Int, 1 <= m, n <= Len(s)
               PROVE  /\ SubSeq(s, m, n) \in Seq(S)
                      /\ Len(SubSeq(s, m, n)) = IF m <= n THEN n - m + 1 ELSE 0
                      /\ \A i \in 1 .. n - m + 1 : SubSeq(s, m, n)[i] = s[m + i - 1]
    OBVIOUS
  <2>1. \A i \in m .. n : s[i] \in S
    BY <1>4
  <2>2. SubSeq(s, m, n) \in Seq(S)
    BY <2>1, SubSeqProperties
  <2>3. Len(SubSeq(s, m, n)) = IF m <= n THEN n - m + 1 ELSE 0
    BY <2>1, SubSeqProperties
  <2>4. \A i \in 1 .. n - m + 1 : SubSeq(s, m, n)[i] = s[m + i - 1]
    BY <2>1, SubSeqProperties
  <2> QED
    BY <2>2, <2>3, <2>4
<1>6. /\ front \in Seq(S) /\ Len(front) = k - 1
      /\ \A i \in 1 .. k - 1 : front[i] = s[i]
  <2>1. /\ 1 \in Int /\ k - 1 \in Int /\ 1 <= 1 /\ k - 1 <= Len(s)
    BY <1>3, <1>4
  <2>2. /\ front \in Seq(S)
        /\ Len(front) = IF 1 <= k - 1 THEN (k - 1) - 1 + 1 ELSE 0
        /\ \A i \in 1 .. (k - 1) - 1 + 1 : front[i] = s[1 + i - 1]
    BY <1>5, <2>1, Zenon
  <2> HIDE DEF front
  <2>3. Len(front) = k - 1
    BY <1>3, <2>2
  <2>4. \A i \in 1 .. k - 1 : i \in 1 .. (k - 1) - 1 + 1 /\ 1 + i - 1 = i
    BY <1>3
  <2> QED
    BY <2>2, <2>3, <2>4
<1>7. /\ back \in Seq(S) /\ Len(back) = Len(s) - k
      /\ \A i \in 1 .. Len(s) - k : back[i] = s[i + k]
  <2>1. /\ k + 1 \in Int /\ Len(s) \in Int /\ 1 <= k + 1 /\ Len(s) <= Len(s)
    BY <1>3, <1>4
  <2>2. /\ back \in Seq(S)
        /\ Len(back) = IF k + 1 <= Len(s) THEN Len(s) - (k + 1) + 1 ELSE 0
        /\ \A i \in 1 .. Len(s) - (k + 1) + 1 : back[i] = s[(k + 1) + i - 1]
    BY <1>5, <2>1, Zenon
  <2> HIDE DEF back
  <2>3. Len(back) = Len(s) - k
    BY <1>3, <1>4, <2>2
  <2>4. \A i \in 1 .. Len(s) - k :
           i \in 1 .. Len(s) - (k + 1) + 1 /\ (k + 1) + i - 1 = i + k
    BY <1>3, <1>4
  <2> QED
    BY <2>2, <2>3, <2>4
<1> HIDE DEF front, back
<1>8. /\ front \o back \in Seq(S)
      /\ Len(front \o back) = Len(front) + Len(back)
      /\ \A j \in 1 .. Len(front) + Len(back) : (front \o back)[j] =
             IF j <= Len(front) THEN front[j] ELSE back[j - Len(front)]
  <2>1. front \in Seq(S) /\ back \in Seq(S)
    BY <1>6, <1>7
  <2> QED
    BY ONLY <2>1, ConcatProperties, Zenon
<1>9. Len(front \o back) = Len(s) - 1
  BY <1>3, <1>4, <1>6, <1>7, <1>8
<1>10. ASSUME NEW j \in 1 .. Len(s) - 1
      PROVE  (front \o back)[j] = IF j < k THEN s[j] ELSE s[j + 1]
  <2>1. (front \o back)[j] = IF j <= k - 1 THEN front[j] ELSE back[j - (k - 1)]
    <3>1. j \in 1 .. Len(front) + Len(back)
      BY <1>3, <1>4, <1>6, <1>7
    <3> QED
      BY <1>6, <1>8, <3>1
  <2>2. CASE j < k
    <3>1. j <= k - 1 /\ j \in 1 .. k - 1
      BY <1>3, <2>2
    <3> QED
      BY <1>6, <2>1, <2>2, <3>1
  <2>3. CASE ~ (j < k)
    <3>1. j - (k - 1) \in 1 .. Len(s) - k /\ (j - (k - 1)) + k = j + 1 /\ ~ (j <= k - 1)
      BY <1>3, <1>4, <2>3
    <3> QED
      BY <1>7, <2>1, <2>3, <3>1
  <2> QED
    BY <2>2, <2>3
<1>11. Without(front \o back, s, k)
  BY <1>10, <1>9 DEF Without
<1> QED
  BY <1>1, <1>3, <1>8, <1>11

\* So it leaves a sequence over the same set.
LEMMA RemoveFirstType ==
    ASSUME NEW S, NEW s \in Seq(S), NEW e
    PROVE  RemoveFirst(s, e) \in Seq(S)
<1>1. CASE ~ \E i \in 1 .. Len(s) : s[i] = e
  BY <1>1 DEF RemoveFirst
<1>2. CASE \E i \in 1 .. Len(s) : s[i] = e
  BY <1>2, RemoveFirstShape
<1> QED
  BY <1>1, <1>2

-----------------------------------------------------------------------------
(***************************************************************************)
(* Type correctness.                                                       *)
(***************************************************************************)

\* A message made by a handler is a message: what the queue is a sequence of.
LEMMA EventType ==
    /\ \A i \in Id : Bind(i) \in Pdu
    /\ Answer \in Pdu
    /\ \A f \in FD, p \in Pdu \cup {Disconnect}, c \in Conn :
         [fd |-> f, pdu |-> p, src |-> c] \in Event
  BY DEF Pdu, Event

\* A running thread has a number, and one blocked in recv() has a connection:
\* without it a handler could post a message about nothing, and TypeOK alone
\* is not inductive.
ThreadShape ==
    \A t \in Conn :
        /\ Live(t) => tfd[t] \in FD
        /\ tpc[t] = "recv" => ton[t] \in Conn

TypeInv == TypeOK /\ ThreadShape

\* close() by any thread keeps the types of what it touches.
LEMMA CloseType ==
    ASSUME TypeOK, NEW f \in FD, Close(f)
    PROVE  /\ fd' \in [FD -> Conn \cup {None}]
           /\ peer' \in [Conn -> {"unborn", "open", "bound", "shut"}]
           /\ owed' \in [Conn -> Nat]
           /\ wire' \in [Conn -> Seq(Pdu)]
           /\ fresh' \in SUBSET Conn
<1>1. CASE fd[f] # None /\ \A t \in Conn : ton[t] # fd[f]
  <2>1. fd[f] \in Conn
    BY <1>1 DEF TypeOK
  <2>2. <<>> \in Seq(Pdu)
    BY EmptySeq
  <2>3. wire' = [wire EXCEPT ![fd[f]] = <<>>]
    BY <1>1 DEF Close
  <2>4. wire' \in [Conn -> Seq(Pdu)]
    BY <2>1, <2>2, <2>3 DEF TypeOK
  <2>5. /\ peer' = [peer EXCEPT ![fd[f]] = "shut"]
        /\ owed' = [owed EXCEPT ![fd[f]] = 0]
    BY <1>1 DEF Close
  <2>6. fd' = [fd EXCEPT ![f] = None] /\ fresh' = fresh \ {fd[f]}
    BY DEF Close
  <2>7. /\ peer' \in [Conn -> {"unborn", "open", "bound", "shut"}]
        /\ owed' \in [Conn -> Nat]
    BY <2>1, <2>5 DEF TypeOK
  <2>8. fd' \in [FD -> Conn \cup {None}] /\ fresh' \in SUBSET Conn
    BY <2>6 DEF TypeOK
  <2> QED
    BY <2>4, <2>7, <2>8
<1>2. CASE ~ (fd[f] # None /\ \A t \in Conn : ton[t] # fd[f])
  BY <1>2 DEF TypeOK, Close
<1> QED
  BY <1>1, <1>2

\* A DELETE keeps the types of the table and of its history.
LEMMA DeleteType ==
    ASSUME TypeOK, NEW gone, DeleteRows(gone)
    PROVE  /\ table' \in [Id -> FD \cup {None}]
           /\ older' \in SUBSET (Id \X Id)
           /\ binder' \in [Id -> Conn \cup {None}]
  BY DEF TypeOK, DeleteRows

\* Every step of the center and of its environment keeps the types.
LEMMA TypeStep == TypeInv /\ [Next]_vars => TypeOK'
<1> SUFFICES ASSUME TypeInv, [Next]_vars
             PROVE  TypeOK'
  OBVIOUS
<1>1. TypeOK /\ ThreadShape
  BY DEF TypeInv
<1> USE <1>1
<1> USE DEF env, thr, main, enq, hist
<1>2. ASSUME NEW c \in Conn, NEW i \in Id, PeerBind(c, i)
      PROVE  TypeOK'
  BY <1>2, EventType DEF TypeOK, PeerBind, Transmit
<1>3. ASSUME NEW c \in Conn, PeerAnswer(c)
      PROVE  TypeOK'
  BY <1>3, EventType DEF TypeOK, PeerAnswer, Transmit
<1>4. ASSUME NEW c \in Conn, PeerStop(c)
      PROVE  TypeOK'
  BY <1>4 DEF TypeOK, PeerStop
<1>5. ASSUME NEW c \in Conn, NEW f \in FD, Accept(c, f)
      PROVE  TypeOK'
  BY <1>5 DEF TypeOK, Accept
<1>6. ASSUME NEW t \in Conn, HandlerCall(t)
      PROVE  TypeOK'
  <2>1. tfd[t] \in FD
    BY <1>6 DEF HandlerCall, ThreadShape, Live
  <2> QED
    BY <1>6, <2>1 DEF TypeOK, HandlerCall
<1>7. ASSUME NEW t \in Conn, HandlerReceive(t)
      PROVE  TypeOK'
  <2>1. tfd[t] \in FD /\ ton[t] \in Conn
    BY <1>7 DEF HandlerReceive, ThreadShape, Live
  <2>2. Head(wire[ton[t]]) \in Pdu /\ Tail(wire[ton[t]]) \in Seq(Pdu)
    BY <1>7, <2>1, HeadTailProperties DEF TypeOK, HandlerReceive
  <2>3. queue' \in Seq(Event)
    <3>1. [fd |-> tfd[t], pdu |-> Head(wire[ton[t]]), src |-> ton[t]] \in Event
      BY <2>1, <2>2, EventType
    <3> QED
      BY <1>7, <3>1, AppendProperties DEF TypeOK, HandlerReceive, Post
  <2> QED
    BY <1>7, <2>1, <2>2, <2>3 DEF TypeOK, HandlerReceive
<1>8. ASSUME NEW t \in Conn, HandlerEnd(t)
      PROVE  TypeOK'
  BY <1>8 DEF TypeOK, HandlerEnd
<1>9. ASSUME NEW t \in Conn, HandlerPostDisconnect(t)
      PROVE  TypeOK'
  <2>1. tfd[t] \in FD
    BY <1>9 DEF HandlerPostDisconnect, ThreadShape, Live
  <2>2. queue' \in Seq(Event)
    BY <1>9, <2>1, EventType, AppendProperties
       DEF TypeOK, HandlerPostDisconnect, Post
  <2> QED
    BY <1>9, <2>2 DEF TypeOK, HandlerPostDisconnect
<1>10. ASSUME NEW t \in Conn, HandlerClose(t)
      PROVE  TypeOK'
  <2>1. tfd[t] \in FD
    BY <1>10 DEF HandlerClose, ThreadShape, Live
  <2> QED
    BY <1>10, <2>1, CloseType DEF TypeOK, HandlerClose
<1>11. CASE OnDisconnect
  BY <1>11, HeadTailProperties DEF TypeOK, OnDisconnect, Dequeue
<1>12. CASE AckPacket
  <2>1. vEnquire' \in Seq(FD)
    BY <1>12, RemoveFirstType DEF TypeOK, AckPacket
  <2>2. queue' \in Seq(Event)
    BY <1>12, HeadTailProperties DEF TypeOK, AckPacket, Dequeue
  <2> QED
    BY <1>12, <2>1, <2>2 DEF TypeOK, AckPacket, Dequeue
<1>13. CASE BindDelete
  <2>1. Head(queue) \in Event /\ queue' \in Seq(Event)
    BY <1>13, HeadTailProperties DEF TypeOK, BindDelete, Dequeue
  <2>2. Head(queue).pdu.id \in Id
    <3>1. Head(queue).pdu \in Pdu \cup {Disconnect}
      BY <2>1 DEF Event
    <3>2. Head(queue).pdu.kind = "bind"
      BY <1>13 DEF BindDelete, Dequeue
    <3>3. PICK i \in Id : Head(queue).pdu = Bind(i)
      BY <3>1, <3>2 DEF Pdu, Answer, Disconnect
    <3> QED
      BY <3>3 DEF Bind
  <2>3. job' \in Job \cup {None}
    BY <1>13, <2>1, <2>2 DEF BindDelete, Dequeue, Job, Event
  <2>4. /\ table' \in [Id -> FD \cup {None}]
        /\ older' \in SUBSET (Id \X Id)
        /\ binder' \in [Id -> Conn \cup {None}]
    BY <1>13, DeleteType DEF TypeOK, BindDelete, NoSql
  <2> QED
    BY <1>13, <2>1, <2>3, <2>4 DEF TypeOK, BindDelete
<1>14. CASE BindInsert
  <2>1. job.id \in Id /\ job.fd \in FD /\ job.src \in Conn
    BY <1>14 DEF TypeOK, BindInsert, Job
  <2>2. CASE InsertRow(job.id, job.fd, job.src)
    BY <1>14, <2>1, <2>2 DEF TypeOK, BindInsert, InsertRow, Rows
  <2>3. CASE NoSql
    BY <1>14, <2>3 DEF TypeOK, BindInsert, NoSql
  <2> QED
    BY <1>14, <2>2, <2>3 DEF BindInsert
<1>15. CASE EnqWake
  BY <1>15 DEF TypeOK, EnqWake
<1>16. CASE EnqDelete
  BY <1>16, DeleteType DEF TypeOK, EnqDelete, NoSql
<1>17. CASE EnqClose
  <2>1. vEnquire[eidx] \in FD
    BY <1>17, ElementOfSeq DEF TypeOK, EnqClose
  <2>2. Close(vEnquire[eidx]) /\ tainted' \in SUBSET FD
    BY <1>17, <2>1 DEF TypeOK, EnqClose, Taint
  <2> QED
    BY <1>17, <2>1, <2>2, CloseType DEF TypeOK, EnqClose
<1>18. CASE EnqClear
  BY <1>18, EmptySeq DEF TypeOK, EnqClear
<1>19. CASE EnqSelect
  <2>1. Cardinality(Rows) \in Nat
    BY FiniteAssumption, FS_Subset, FS_CardinalityType DEF Rows
  <2>2. PICK s \in [1 .. Cardinality(Rows) -> Rows],
             n \in 0 .. Cardinality(Rows) :
             elist' = [k \in 1 .. n |-> table[s[k]]]
    BY <1>19, <2>1 DEF EnqSelect
  <2>3. \A i \in Rows : table[i] \in FD
    BY DEF TypeOK, Rows
  <2>4. elist' \in Seq(FD)
    BY <2>1, <2>2, <2>3, IsASeq
  <2> QED
    BY <1>19, <2>4 DEF TypeOK, EnqSelect
<1>20. CASE EnqPush
  BY <1>20, HeadTailProperties, AppendProperties DEF TypeOK, EnqPush
<1>21. CASE EnqSend
  <2>1. elist' \in Seq(FD)
    BY <1>21, HeadTailProperties DEF TypeOK, EnqSend
  <2>2. owed' \in [Conn -> Nat]
    <3>1. Head(elist) \in FD
      BY <1>21, HeadTailProperties DEF TypeOK, EnqSend
    <3> QED
      BY <1>21, <3>1 DEF TypeOK, EnqSend
  <2> QED
    BY <1>21, <2>1, <2>2 DEF TypeOK, EnqSend
<1>22. CASE EnqRest
  BY <1>22 DEF TypeOK, EnqRest
<1>23. ASSUME NEW f \in FD, EnqOverrun(f)
       PROVE  TypeOK'
  BY <1>23, CloseType, DeleteType DEF TypeOK, EnqOverrun, Taint
<1>24. CASE Restart
  <2>1. /\ table' \in [Id -> FD \cup {None}]
        /\ older' \in SUBSET (Id \X Id)
        /\ binder' \in [Id -> Conn \cup {None}]
    BY <1>24, DeleteType DEF TypeOK, Restart, NoSql
  <2> QED
    BY <1>24, <2>1, EmptySeq DEF TypeOK, Restart
<1>25. CASE UNCHANGED vars
  BY <1>25 DEF TypeOK, vars
<1> QED
  BY <1>2, <1>3, <1>4, <1>5, <1>6, <1>7, <1>8, <1>9, <1>10, <1>11, <1>12,
     <1>13, <1>14, <1>15, <1>16, <1>17, <1>18, <1>19, <1>20, <1>21, <1>22,
     <1>23, <1>24, <1>25 DEF Next, Handler, MainLoop, Enquire

\* Only accept, the handlers and a restart touch what ThreadShape reads.
LEMMA ThreadStep == TypeInv /\ [Next]_vars => ThreadShape'
<1> SUFFICES ASSUME TypeInv, [Next]_vars
             PROVE  ThreadShape'
  OBVIOUS
<1>1. TypeOK /\ ThreadShape
  BY DEF TypeInv
<1> USE <1>1
<1> USE DEF ThreadShape, Live
<1>2. ASSUME NEW c \in Conn, NEW f \in FD, Accept(c, f)
      PROVE  ThreadShape'
  BY <1>2 DEF TypeOK, Accept
<1>3. ASSUME NEW t \in Conn, HandlerCall(t)
      PROVE  ThreadShape'
  BY <1>3 DEF TypeOK, HandlerCall
<1>4. ASSUME NEW t \in Conn, Handler(t), ~ HandlerCall(t)
      PROVE  ThreadShape'
  BY <1>4 DEF TypeOK, Handler, HandlerReceive, HandlerEnd,
              HandlerPostDisconnect, HandlerClose
<1>5. CASE Restart
  BY <1>5 DEF TypeOK, Restart
<1>6. CASE UNCHANGED thr
  BY <1>6 DEF thr
<1> QED
  <2>1. [Next]_vars => \/ \E c \in Conn, f \in FD : Accept(c, f)
                       \/ \E t \in Conn : Handler(t)
                       \/ Restart
                       \/ UNCHANGED thr
    BY DEF Next, vars, PeerBind, PeerAnswer, PeerStop, MainLoop, OnDisconnect,
           AckPacket, BindDelete, BindInsert, Enquire, EnqWake, EnqDelete,
           EnqClose, EnqClear, EnqSelect, EnqPush, EnqSend, EnqRest, EnqOverrun
  <2> QED
    BY <1>2, <1>3, <1>4, <1>5, <1>6, <2>1

\* Whatever the interleaving, the center's state keeps its types.
THEOREM TypeCorrect == Spec => []TypeOK
<1>1. Init => TypeInv
  BY EmptySeq DEF Init, TypeInv, TypeOK, ThreadShape, Live
<1>2. TypeInv /\ [Next]_vars => TypeInv'
  BY TypeStep, ThreadStep DEF TypeInv
<1>3. TypeInv => TypeOK
  BY DEF TypeInv
<1> QED
  BY <1>1, <1>2, <1>3, PTL DEF Spec

-----------------------------------------------------------------------------
(***************************************************************************)
(* Descriptor numbers and connections.  A number is kept as nId in the     *)
(* queue, as socket_fd in the table and as nClientFD in a thread; the      *)
(* connection it stands for is kept nowhere, so the invariant relates each *)
(* copy to the number its connection was accepted under.                   *)
(***************************************************************************)

\* A number denotes a connection accepted under it.
NumberOwner ==
    \A f \in FD : fd[f] # None => tfd[fd[f]] = f

\* A thread receives only from connections accepted under its number.
RecvOwner ==
    \A t \in Conn : ton[t] # None => tpc[t] = "recv" /\ tfd[ton[t]] = tfd[t]

\* A connection not accepted yet has no thread and no number.
UnbornIdle ==
    \A c \in Conn : peer[c] = "unborn" => tpc[c] = "none" /\ tfd[c] = None

\* The bind in progress carries the number of the connection it came from.
JobOrigin ==
    job # None => job.fd = tfd[job.src]

\* So does every row.
RowOrigin ==
    \A i \in Rows : binder[i] \in Conn /\ tfd[binder[i]] = table[i]

Origins ==
    /\ NumberOwner
    /\ RecvOwner
    /\ UnbornIdle
    /\ EventOrigin
    /\ JobOrigin
    /\ RowOrigin
    /\ OneHandlerPerDescriptor

OriginInv == TypeInv /\ Origins

\* Appending a message under the number of its connection keeps EventOrigin.
LEMMA PostOrigin ==
    ASSUME TypeOK, EventOrigin, NEW f \in FD, NEW pdu, NEW c \in Conn,
           f = tfd[c], Post(f, pdu, c), UNCHANGED tfd
    PROVE  EventOrigin'
<1> DEFINE e == [fd |-> f, pdu |-> pdu, src |-> c]
<1>1. /\ Len(queue') = Len(queue) + 1
      /\ \A k \in 1 .. Len(queue) : queue'[k] = queue[k]
      /\ queue'[Len(queue) + 1] = e
  BY AppendProperties DEF TypeOK, Post
<1>2. e.fd = tfd[e.src]
  OBVIOUS
<1>3. Len(queue) \in Nat /\ DOMAIN queue = 1 .. Len(queue)
      /\ DOMAIN queue' = 1 .. Len(queue')
  BY LenProperties, AppendProperties DEF TypeOK, Post
<1> HIDE DEF e
<1> QED
  BY <1>1, <1>2, <1>3 DEF EventOrigin

\* Taking the head off the queue keeps EventOrigin.
LEMMA DequeueOrigin ==
    ASSUME TypeOK, EventOrigin, NEW kind, Dequeue(kind), UNCHANGED tfd
    PROVE  EventOrigin' /\ Head(queue).fd = tfd[Head(queue).src]
<1>1. /\ Len(queue) \in Nat \ {0} /\ DOMAIN queue = 1 .. Len(queue)
      /\ Head(queue) = queue[1]
  BY LenProperties, EmptySeq DEF TypeOK, Dequeue
<1>2. /\ DOMAIN queue' = 1 .. Len(queue) - 1
      /\ \A k \in 1 .. Len(queue) - 1 : queue'[k] = queue[k + 1]
  BY HeadTailProperties, LenProperties DEF TypeOK, Dequeue
<1>3. \A k \in 1 .. Len(queue) - 1 : k + 1 \in 1 .. Len(queue)
  BY <1>1
<1> QED
  BY <1>1, <1>2, <1>3 DEF EventOrigin

\* A DELETE removes rows and leaves the others as they were.
LEMMA DeleteOrigin ==
    ASSUME TypeOK, RowOrigin, NEW gone, DeleteRows(gone), UNCHANGED tfd
    PROVE  RowOrigin'
  BY DEF TypeOK, RowOrigin, DeleteRows, Rows

\* close() of any number, with the history of who closed it.
LEMMA CloseOrigin ==
    ASSUME OriginInv, NEW f \in FD, Close(f), Taint(f), UNCHANGED thr
    PROVE  NumberOwner' /\ RecvOwner' /\ UnbornIdle' /\ OneHandlerPerDescriptor'
<1>1. /\ \A g \in FD : fd'[g] = IF g = f THEN None ELSE fd[g]
      /\ \A c \in Conn : peer'[c] = "unborn" => peer[c] = "unborn"
  BY DEF Close, OriginInv, TypeInv, TypeOK
<1> QED
  BY <1>1 DEF OriginInv, Origins, TypeInv, TypeOK, ThreadShape, NumberOwner,
     RecvOwner, UnbornIdle, OneHandlerPerDescriptor, Taint, Live, thr

\* Every step keeps the relation between numbers and connections.
LEMMA OriginStep == OriginInv /\ [Next]_vars => Origins'
<1> SUFFICES ASSUME OriginInv, [Next]_vars
             PROVE  Origins'
  OBVIOUS
<1>1. TypeOK /\ ThreadShape /\ Origins
  BY DEF OriginInv, TypeInv
<1> USE <1>1
<1> USE DEF env, thr, main, enq, hist
<1>2. ASSUME NEW c \in Conn, NEW f \in FD, Accept(c, f)
      PROVE  Origins'
  <2>1. /\ tfd[c] = None /\ tpc[c] = "none" /\ ton[c] = None
        /\ tfd' = [tfd EXCEPT ![c] = f] /\ fd' = [fd EXCEPT ![f] = c]
        /\ tpc' = [tpc EXCEPT ![c] = "call"]
        /\ peer' = [peer EXCEPT ![c] = "open"]
        /\ UNCHANGED <<ton, queue, job, table, binder, tainted>>
    BY <1>2 DEF Accept, Origins, UnbornIdle, RecvOwner
  <2>2. NumberOwner' /\ UnbornIdle'
    BY <2>1 DEF Origins, TypeOK, NumberOwner, UnbornIdle
  <2>3. RecvOwner'
    BY <2>1 DEF Origins, TypeOK, RecvOwner, ThreadShape, Live
  <2>4. EventOrigin'
    <3> SUFFICES ASSUME NEW k \in DOMAIN queue
                 PROVE  queue[k].fd = tfd'[queue[k].src]
      BY <2>1 DEF EventOrigin
    <3>1. queue[k] \in Event
      BY ElementOfSeq DEF TypeOK
    <3>2. queue[k].fd \in FD /\ queue[k].src \in Conn
      BY <3>1 DEF Event
    <3>3. queue[k].fd = tfd[queue[k].src]
      BY DEF Origins, EventOrigin
    <3> QED
      BY <2>1, <3>2, <3>3 DEF TypeOK
  <2>5. JobOrigin' /\ RowOrigin'
    BY <2>1 DEF Origins, TypeOK, JobOrigin, RowOrigin, Job, Rows
  <2>6. OneHandlerPerDescriptor'
    BY <1>2, <2>1 DEF Accept, Origins, TypeOK, OneHandlerPerDescriptor, Live
  <2> QED
    BY <2>2, <2>3, <2>4, <2>5, <2>6 DEF Origins
<1>3. ASSUME NEW t \in Conn, HandlerCall(t)
      PROVE  Origins'
  <2>1. tfd[t] \in FD
    BY <1>3 DEF HandlerCall, ThreadShape, Live
  <2>2. RecvOwner'
    BY <1>3, <2>1 DEF HandlerCall, Origins, TypeOK, RecvOwner, NumberOwner
  <2>3. UnbornIdle' /\ OneHandlerPerDescriptor'
    BY <1>3 DEF HandlerCall, Origins, TypeOK, UnbornIdle,
                OneHandlerPerDescriptor, Live
  <2> QED
    BY <1>3, <2>2, <2>3 DEF HandlerCall, Origins, NumberOwner, EventOrigin,
                            JobOrigin, RowOrigin, Rows
<1>4. ASSUME NEW t \in Conn, HandlerReceive(t)
      PROVE  Origins'
  <2>1. tfd[t] \in FD /\ ton[t] \in Conn /\ tfd[ton[t]] = tfd[t]
    BY <1>4 DEF HandlerReceive, ThreadShape, Live, Origins, RecvOwner
  <2>2. EventOrigin'
    BY <1>4, <2>1, PostOrigin DEF HandlerReceive, Origins
  <2>3. RecvOwner' /\ UnbornIdle' /\ OneHandlerPerDescriptor'
    BY <1>4 DEF HandlerReceive, Origins, TypeOK, RecvOwner, UnbornIdle,
                OneHandlerPerDescriptor, Live
  <2> QED
    BY <1>4, <2>2, <2>3 DEF HandlerReceive, Origins, NumberOwner, JobOrigin,
                            RowOrigin, Rows
<1>5. ASSUME NEW t \in Conn, HandlerEnd(t)
      PROVE  Origins'
  <2>1. RecvOwner' /\ UnbornIdle' /\ OneHandlerPerDescriptor'
    BY <1>5 DEF HandlerEnd, Origins, TypeOK, RecvOwner, UnbornIdle,
                OneHandlerPerDescriptor, Live
  <2> QED
    BY <1>5, <2>1 DEF HandlerEnd, Origins, NumberOwner, EventOrigin, JobOrigin,
                      RowOrigin, Rows
<1>6. ASSUME NEW t \in Conn, HandlerPostDisconnect(t)
      PROVE  Origins'
  <2>1. tfd[t] \in FD
    BY <1>6 DEF HandlerPostDisconnect, ThreadShape, Live
  <2>2. EventOrigin'
    BY <1>6, <2>1, PostOrigin DEF HandlerPostDisconnect, Origins
  <2>3. RecvOwner' /\ UnbornIdle' /\ OneHandlerPerDescriptor'
    BY <1>6 DEF HandlerPostDisconnect, Origins, TypeOK, RecvOwner, UnbornIdle,
                OneHandlerPerDescriptor, Live
  <2> QED
    BY <1>6, <2>2, <2>3 DEF HandlerPostDisconnect, Origins, NumberOwner,
                            JobOrigin, RowOrigin, Rows
<1>7. ASSUME NEW t \in Conn, HandlerClose(t)
      PROVE  Origins'
  <2>1. tfd[t] \in FD /\ tpc[t] = "close"
    BY <1>7 DEF HandlerClose, ThreadShape, Live
  <2>2. /\ \A g \in FD : fd'[g] = IF g = tfd[t] THEN None ELSE fd[g]
        /\ \A c \in Conn : peer'[c] = "unborn" => peer[c] = "unborn"
    BY <1>7, <2>1 DEF HandlerClose, Close, TypeOK
  <2>3. NumberOwner' /\ RecvOwner' /\ UnbornIdle'
    BY <1>7, <2>1, <2>2 DEF HandlerClose, Origins, TypeOK, NumberOwner,
                            RecvOwner, UnbornIdle
  <2>4. OneHandlerPerDescriptor'
    BY <1>7, <2>1, <2>2 DEF HandlerClose, Origins, TypeOK, ThreadShape,
                            OneHandlerPerDescriptor, Live
  <2> QED
    BY <1>7, <2>3, <2>4 DEF HandlerClose, Origins, EventOrigin, JobOrigin,
                            RowOrigin, Rows
<1>8. CASE OnDisconnect
  <2>1. EventOrigin'
    BY <1>8, DequeueOrigin DEF OnDisconnect, Origins
  <2> QED
    BY <1>8, <2>1 DEF OnDisconnect, Origins, NumberOwner, RecvOwner, UnbornIdle,
                      JobOrigin, RowOrigin, OneHandlerPerDescriptor, Live, Rows
<1>9. CASE AckPacket
  <2>1. EventOrigin'
    BY <1>9, DequeueOrigin DEF AckPacket, Origins
  <2> QED
    BY <1>9, <2>1 DEF AckPacket, Origins, NumberOwner, RecvOwner, UnbornIdle,
                      JobOrigin, RowOrigin, OneHandlerPerDescriptor, Live, Rows
<1>10. CASE BindDelete
  <2>1. EventOrigin' /\ Head(queue).fd = tfd[Head(queue).src]
    BY <1>10, DequeueOrigin DEF BindDelete, Origins
  <2>2. JobOrigin'
    BY <1>10, <2>1 DEF BindDelete, JobOrigin
  <2>3. RowOrigin'
    BY <1>10, DeleteOrigin DEF BindDelete, Origins, NoSql, RowOrigin, Rows
  <2> QED
    BY <1>10, <2>1, <2>2, <2>3 DEF BindDelete, Origins, NumberOwner, RecvOwner,
                     UnbornIdle, OneHandlerPerDescriptor, Live
<1>11. CASE BindInsert
  <2>1. RowOrigin'
    BY <1>11 DEF BindInsert, InsertRow, NoSql, Origins, TypeOK, RowOrigin, Rows,
                 JobOrigin, Job
  <2> QED
    BY <1>11, <2>1 DEF BindInsert, Origins, NumberOwner, RecvOwner, UnbornIdle,
                   EventOrigin, JobOrigin, OneHandlerPerDescriptor, Live
<1>12. CASE EnqDelete
  <2>1. RowOrigin'
    BY <1>12, DeleteOrigin DEF EnqDelete, NoSql, Origins, RowOrigin, Rows
  <2> QED
    BY <1>12, <2>1 DEF EnqDelete, Origins, NumberOwner, RecvOwner, UnbornIdle,
                   EventOrigin, JobOrigin, OneHandlerPerDescriptor, Live
<1>13. CASE EnqClose
  <2>1. vEnquire[eidx] \in FD
    BY <1>13, ElementOfSeq DEF TypeOK, EnqClose
  <2>2. NumberOwner' /\ RecvOwner' /\ UnbornIdle' /\ OneHandlerPerDescriptor'
    BY <1>13, <2>1, CloseOrigin DEF EnqClose
  <2> QED
    BY <1>13, <2>2 DEF EnqClose, Origins, EventOrigin, JobOrigin, RowOrigin, Rows
<1>14. ASSUME NEW f \in FD, EnqOverrun(f)
       PROVE  Origins'
  <2>1. NumberOwner' /\ RecvOwner' /\ UnbornIdle' /\ OneHandlerPerDescriptor'
    BY <1>14, CloseOrigin DEF EnqOverrun
  <2>2. RowOrigin'
    BY <1>14, DeleteOrigin DEF EnqOverrun, Origins
  <2> QED
    BY <1>14, <2>1, <2>2 DEF EnqOverrun, Origins, EventOrigin, JobOrigin
<1>15. CASE Restart
  <2>1. NumberOwner' /\ RecvOwner' /\ UnbornIdle' /\ OneHandlerPerDescriptor'
    BY <1>15 DEF Restart, Origins, TypeOK, NumberOwner, RecvOwner, UnbornIdle,
                 OneHandlerPerDescriptor, Live
  <2>2. EventOrigin' /\ JobOrigin'
    BY <1>15 DEF Restart, EventOrigin, JobOrigin
  <2>3. RowOrigin'
    BY <1>15, DeleteOrigin DEF Restart, NoSql, Origins, RowOrigin, Rows
  <2> QED
    BY <2>1, <2>2, <2>3 DEF Origins
<1>16. ASSUME UNCHANGED <<fd, tpc, tfd, ton, queue, job, table, binder, tainted>>,
              \A c \in Conn : peer'[c] = "unborn" => peer[c] = "unborn"
       PROVE  Origins'
  BY <1>16 DEF Origins, NumberOwner, RecvOwner, UnbornIdle, EventOrigin,
               JobOrigin, RowOrigin, Rows, OneHandlerPerDescriptor, Live
<1>17. ASSUME NEW c \in Conn,
              PeerStop(c) \/ PeerAnswer(c) \/ \E i \in Id : PeerBind(c, i)
       PROVE  Origins'
  BY <1>16, <1>17 DEF TypeOK, PeerStop, PeerAnswer, PeerBind, Talking
<1>18. CASE EnqWake \/ EnqClear \/ EnqSelect \/ EnqPush \/ EnqSend \/ EnqRest
  BY <1>16, <1>18 DEF EnqWake, EnqClear, EnqSelect, EnqPush, EnqSend, EnqRest
<1>19. CASE UNCHANGED vars
  BY <1>16, <1>19 DEF vars
<1> QED
  BY <1>2, <1>3, <1>4, <1>5, <1>6, <1>7, <1>8, <1>9, <1>10, <1>11, <1>12,
     <1>13, <1>14, <1>15, <1>17, <1>18, <1>19
     DEF Next, Handler, MainLoop, Enquire

LEMMA OriginInductive == Spec => []OriginInv
<1>1. Init => OriginInv
  BY EmptySeq DEF Init, OriginInv, TypeInv, TypeOK, ThreadShape, Live, Origins,
     NumberOwner, RecvOwner, UnbornIdle, EventOrigin, JobOrigin, RowOrigin, Rows,
     OneHandlerPerDescriptor
<1>2. OriginInv /\ [Next]_vars => OriginInv'
  BY TypeStep, ThreadStep, OriginStep DEF OriginInv, TypeInv
<1> QED
  BY <1>1, <1>2, PTL DEF Spec

\* However threads interleave and whoever closes what, every queued message
\* carries the number its connection was accepted under.
THEOREM EventOriginHolds == Spec => []EventOrigin
<1>1. OriginInv => EventOrigin
  BY DEF OriginInv, Origins
<1> QED
  BY <1>1, OriginInductive, PTL

\* The number in a row denotes the connection that bound the id, or one
\* accepted after that connection was closed.
THEOREM RouteToBinderHolds == Spec => []RouteToBinder
<1>1. OriginInv => RouteToBinder
  <2> SUFFICES ASSUME OriginInv, NEW i \in Rows, NEW f \in FD, fd[f] = binder[i]
               PROVE  fd[table[i]] = binder[i]
    BY DEF RouteToBinder
  <2>1. binder[i] \in Conn /\ tfd[binder[i]] = table[i]
    BY DEF OriginInv, Origins, RowOrigin
  <2>2. fd[f] # None
    BY <2>1, NoneAssumption
  <2>3. tfd[fd[f]] = f
    BY <2>2 DEF OriginInv, Origins, NumberOwner
  <2> QED
    BY <2>1, <2>3
<1> QED
  BY <1>1, OriginInductive, PTL

\* A number no other thread has closed has one handler, serving its connection.
THEOREM OneHandlerHolds == Spec => []OneHandlerPerDescriptor
<1>1. OriginInv => OneHandlerPerDescriptor
  BY DEF OriginInv, Origins
<1> QED
  BY <1>1, OriginInductive, PTL

-----------------------------------------------------------------------------
(***************************************************************************)
(* Counting the elements of a sequence.                                    *)
(***************************************************************************)
Places(s, S) == {k \in DOMAIN s : s[k] \in S}

Count(s, S) == Cardinality(Places(s, S))

LEMMA CountType ==
    ASSUME NEW T, NEW s \in Seq(T), NEW S
    PROVE  /\ IsFiniteSet(Places(s, S)) /\ Count(s, S) \in Nat
           /\ Count(s, S) > 0 <=> \E k \in DOMAIN s : s[k] \in S
<1>1. DOMAIN s = 1 .. Len(s) /\ Len(s) \in Int
  BY LenProperties
<1>2. IsFiniteSet(DOMAIN s)
  BY <1>1, FS_Interval
<1>3. IsFiniteSet(Places(s, S))
  <2>1. Places(s, S) \in SUBSET (DOMAIN s)
    BY DEF Places
  <2> QED
    BY <1>2, <2>1, FS_Subset
<1>4. Count(s, S) \in Nat /\ (Count(s, S) = 0 <=> Places(s, S) = {})
  BY <1>3, FS_CardinalityType, FS_EmptySet DEF Count
<1>5. Places(s, S) # {} <=> \E k \in DOMAIN s : s[k] \in S
  BY DEF Places
<1>6. Count(s, S) > 0 <=> Count(s, S) # 0
  BY <1>4
<1> QED
  BY <1>3, <1>4, <1>5, <1>6

LEMMA CountEmpty == \A S : Count(<<>>, S) = 0
<1>1. \A S : Places(<<>>, S) = {}
  BY DEF Places
<1> QED
  BY <1>1, FS_EmptySet DEF Count

LEMMA CountAppend ==
    ASSUME NEW T, NEW s \in Seq(T), NEW e \in T, NEW S
    PROVE  Count(Append(s, e), S) = Count(s, S) + (IF e \in S THEN 1 ELSE 0)
<1> DEFINE r == Append(s, e)
           n == Len(s) + 1
<1>1. /\ Len(s) \in Nat /\ DOMAIN s = 1 .. Len(s)
      /\ r \in Seq(T) /\ Len(r) = n
      /\ \A k \in 1 .. Len(s) : r[k] = s[k]
      /\ r[n] = e
  BY AppendProperties, LenProperties
<1>2. DOMAIN r = (DOMAIN s) \cup {n} /\ n \notin DOMAIN s
  <2>1. DOMAIN r = 1 .. n
    BY <1>1, LenProperties
  <2> QED
    BY <1>1, <2>1
<1>3. IsFiniteSet(Places(s, S)) /\ Count(s, S) \in Nat
  BY CountType
<1> HIDE DEF r, n
<1>4. CASE e \in S
  <2>1. Places(r, S) = Places(s, S) \cup {n} /\ n \notin Places(s, S)
    BY <1>1, <1>2, <1>4 DEF Places
  <2> QED
    BY <1>3, <1>4, <2>1, FS_AddElement DEF Count, r
<1>5. CASE e \notin S
  <2>1. Places(r, S) = Places(s, S)
    BY <1>1, <1>2, <1>5 DEF Places
  <2> QED
    BY <1>3, <1>5, <2>1 DEF Count, r
<1> QED
  BY <1>4, <1>5

\* One element leaves, wherever it was; those behind it move up.
LEMMA CountDrop ==
    ASSUME NEW T, NEW s \in Seq(T), NEW r \in Seq(T), NEW S, NEW i \in 1 .. Len(s),
           Without(r, s, i)
    PROVE  Count(r, S) = Count(s, S) - (IF s[i] \in S THEN 1 ELSE 0)
<1> DEFINE old == Places(s, S)
           new == Places(r, S)
           was == [j \in new |-> IF j < i THEN j ELSE j + 1]
<1>1. /\ Len(s) \in Nat /\ DOMAIN s = 1 .. Len(s) /\ DOMAIN r = 1 .. Len(s) - 1
  BY LenProperties DEF Without
<1>2. /\ \A k \in old : k \in 1 .. Len(s) /\ s[k] \in S
      /\ \A k \in 1 .. Len(s) : s[k] \in S => k \in old
      /\ \A j \in new : j \in 1 .. Len(s) - 1 /\ r[j] \in S
      /\ \A j \in 1 .. Len(s) - 1 : r[j] \in S => j \in new
  BY <1>1 DEF Places
<1>3. IsFiniteSet(old) /\ IsFiniteSet(new) /\ Count(s, S) \in Nat
  BY CountType
<1> HIDE DEF old, new
<1>4. was \in [new -> old \ {i}]
  <2>1. ASSUME NEW j \in new
        PROVE  (IF j < i THEN j ELSE j + 1) \in old \ {i}
    <3>1. CASE j < i
      BY <1>1, <1>2, <3>1 DEF Without
    <3>2. CASE ~ (j < i)
      <4>1. j + 1 \in 1 .. Len(s) /\ j + 1 # i
        BY <1>1, <1>2, <3>2
      <4> QED
        BY <1>2, <3>2, <4>1 DEF Without
    <3> QED
      BY <3>1, <3>2
  <2> QED
    BY <2>1
<1>5. \A j, k \in new : was[j] = was[k] => j = k
  <2>1. \A j \in new : j \in Int
    BY <1>2
  <2> QED
    BY <2>1
<1>6. ASSUME NEW k \in old \ {i}
      PROVE  \E j \in new : was[j] = k
  <2>1. CASE k < i
    <3>1. k \in 1 .. Len(s) - 1
      BY <1>1, <1>2, <2>1
    <3> QED
      BY <1>2, <2>1, <3>1 DEF Without
  <2>2. CASE ~ (k < i)
    <3>1. /\ k - 1 \in 1 .. Len(s) - 1 /\ ~ (k - 1 < i) /\ (k - 1) + 1 = k
      BY <1>1, <1>2, <1>6, <2>2
    <3>2. k - 1 \in new
      BY <1>2, <3>1 DEF Without
    <3> QED
      BY <3>1, <3>2
  <2> QED
    BY <2>1, <2>2
<1>7. ExistsBijection(new, old \ {i})
  <2>1. was \in Bijection(new, old \ {i})
    BY <1>4, <1>5, <1>6 DEF Bijection, Injection, Surjection, IsInjective
  <2> QED
    BY <2>1 DEF ExistsBijection
<1>8. Cardinality(new) = Cardinality(old \ {i})
  BY <1>3, <1>7, FS_Bijection
<1>9. Cardinality(old \ {i}) = IF i \in old THEN Cardinality(old) - 1 ELSE Cardinality(old)
  BY <1>3, FS_RemoveElement
<1>10. i \in old <=> s[i] \in S
  BY <1>2
<1>11. Count(s, S) = Cardinality(old) /\ Count(r, S) = Cardinality(new)
  BY DEF Count, old, new
<1> QED
  BY <1>3, <1>8, <1>9, <1>10, <1>11

LEMMA CountTail ==
    ASSUME NEW T, NEW s \in Seq(T), s # <<>>, NEW S
    PROVE  Count(Tail(s), S) = Count(s, S) - (IF Head(s) \in S THEN 1 ELSE 0)
<1>1. /\ Len(s) \in Nat \ {0} /\ Head(s) = s[1]
      /\ Tail(s) \in Seq(T) /\ Len(Tail(s)) = Len(s) - 1
      /\ \A j \in 1 .. Len(s) - 1 : Tail(s)[j] = s[j + 1]
  BY HeadTailProperties, LenProperties, EmptySeq
<1>2. 1 \in 1 .. Len(s)
  BY <1>1
<1>3. \A j \in 1 .. Len(s) - 1 : Tail(s)[j] = IF j < 1 THEN s[j] ELSE s[j + 1]
  BY <1>1
<1> DEFINE r == Tail(s)
<1> HIDE DEF r
<1>4. Count(r, S) = Count(s, S) - (IF s[1] \in S THEN 1 ELSE 0)
  <2>1. r \in Seq(T) /\ Without(r, s, 1)
    BY <1>1, <1>3 DEF r, Without
  <2> QED
    BY <1>2, <2>1, CountDrop
<1> QED
  BY <1>1, <1>4 DEF r

\* erase( it ) takes one entry with the number, if there is one.
LEMMA CountRemoveFirst ==
    ASSUME NEW T, NEW s \in Seq(T), NEW e, NEW f
    PROVE  Count(RemoveFirst(s, e), {f}) =
              IF f = e /\ Count(s, {f}) > 0 THEN Count(s, {f}) - 1 ELSE Count(s, {f})
<1>1. DOMAIN s = 1 .. Len(s)
  BY LenProperties
<1>2. Count(s, {f}) \in Nat /\ (Count(s, {f}) > 0 <=> \E k \in DOMAIN s : s[k] = f)
  BY CountType
<1>3. CASE ~ \E k \in 1 .. Len(s) : s[k] = e
  BY <1>1, <1>2, <1>3 DEF RemoveFirst
<1>4. CASE \E k \in 1 .. Len(s) : s[k] = e
  <2> DEFINE r == RemoveFirst(s, e)
  <2>1. r = RemoveFirst(s, e)
    OBVIOUS
  <2> HIDE DEF r
  <2>2. r \in Seq(T) /\ \E k \in 1 .. Len(s) : s[k] = e /\ Without(r, s, k)
    BY <1>4, <2>1, RemoveFirstShape
  <2>3. PICK k \in 1 .. Len(s) : s[k] = e /\ Without(r, s, k)
    BY <2>2
  <2>4. \A S : Count(r, S) = Count(s, S) - (IF s[k] \in S THEN 1 ELSE 0)
    BY <2>2, <2>3, CountDrop
  <2>5. Count(r, {f}) = Count(s, {f}) - (IF s[k] = f THEN 1 ELSE 0)
    <3>1. \A S : S = {f} => Count(r, S) = Count(s, S) - (IF s[k] = f THEN 1 ELSE 0)
      BY <2>4
    <3> QED
      BY <3>1
  <2>6. CASE f = e
    BY <1>1, <1>2, <2>1, <2>3, <2>5, <2>6
  <2>7. CASE f # e
    BY <1>2, <2>1, <2>3, <2>5, <2>7
  <2> QED
    BY <2>6, <2>7
<1> QED
  BY <1>3, <1>4

-----------------------------------------------------------------------------
(***************************************************************************)
(* The enquire-link monitor.  A number is in the vector once for every     *)
(* request sent under it that nothing has answered yet: the entry is there *)
(* before the request is (Pending), and the answer is on its way, through  *)
(* the far end, the wire and the queue, until the main thread erases the   *)
(* entry.  So a number whose connection was there when the round began     *)
(* has no more entries than that connection owes answers.                  *)
(***************************************************************************)
Answers(c) == {e \in Event : e.src = c /\ e.pdu = Answer}

Entries(f) == Count(vEnquire, {f})

Due(c) == owed[c] + Count(wire[c], {Answer}) + Count(queue, Answers(c))

Pending(f) == IF epc = "send" /\ elist # <<>> /\ Head(elist) = f THEN 1 ELSE 0

Watched(f) == fd[f] # None /\ fd[f] \notin fresh /\ peer[fd[f]] # "shut"

\* A round starts with an empty vector.
RoundInv == epc = "select" => vEnquire = <<>>

DueInv == \A f \in FD : Watched(f) => Entries(f) <= Due(fd[f]) + Pending(f)

MonitorInv == OriginInv /\ RoundInv /\ DueInv

DueTyped ==
    /\ \A f \in FD : Entries(f) \in Nat /\ Pending(f) \in {0, 1}
    /\ \A c \in Conn : /\ owed[c] \in Nat /\ Count(wire[c], {Answer}) \in Nat
                       /\ Count(queue, Answers(c)) \in Nat /\ Due(c) \in Nat

LEMMA DueType == TypeOK => DueTyped
<1> SUFFICES ASSUME TypeOK PROVE DueTyped
  OBVIOUS
<1>1. ASSUME NEW f \in FD PROVE Entries(f) \in Nat /\ Pending(f) \in {0, 1}
  BY CountType DEF TypeOK, Entries, Pending
<1>2. ASSUME NEW c \in Conn
      PROVE  /\ owed[c] \in Nat /\ Count(wire[c], {Answer}) \in Nat
             /\ Count(queue, Answers(c)) \in Nat
  <2>1. owed[c] \in Nat /\ wire[c] \in Seq(Pdu) /\ queue \in Seq(Event)
    BY DEF TypeOK
  <2> QED
    BY <2>1, CountType
<1> QED
  BY <1>1, <1>2 DEF Due, DueTyped

LEMMA DueTypeNext == TypeOK' => DueTyped'
BY DueType, PTL

\* Nothing of Due(c) changes.
LEMMA DueFrame ==
    ASSUME NEW c \in Conn, owed'[c] = owed[c], wire'[c] = wire[c], queue' = queue
    PROVE  Due(c)' = Due(c)
BY DEF Due

\* Bind requests and disconnects are no answers.
LEMMA PduFacts ==
    /\ \A i \in Id : Bind(i) # Answer
    /\ Disconnect # Answer
    /\ Answer.kind = "answer"
BY DEF Bind, Answer, Disconnect

\* The far end answers: one less to send, one more on the wire.
LEMMA TransmitDue ==
    ASSUME TypeOK, NEW d \in Conn, NEW p \in Pdu, Transmit(d, p), queue' = queue,
           owed' = [owed EXCEPT ![d] = IF p = Answer THEN @ - 1 ELSE @],
           NEW c \in Conn
    PROVE  Due(c)' = Due(c)
<1>1. wire \in [Conn -> Seq(Pdu)] /\ wire' = [wire EXCEPT ![d] = Append(@, p)]
      /\ owed \in [Conn -> Nat]
  BY DEF Transmit, TypeOK
<1>2. CASE c # d
  BY <1>1, <1>2, DueFrame
<1>3. CASE c = d
  <2>1. Count(wire'[c], {Answer}) =
           Count(wire[c], {Answer}) + (IF p \in {Answer} THEN 1 ELSE 0)
    BY <1>1, <1>3, CountAppend
  <2>2. owed'[c] = IF p = Answer THEN owed[c] - 1 ELSE owed[c]
    BY <1>1, <1>3
  <2>3. /\ owed[c] \in Nat /\ Count(wire[c], {Answer}) \in Nat
        /\ Count(queue, Answers(c)) \in Nat
    BY DueType DEF DueTyped
  <2>4. Due(c)' = owed'[c] + Count(wire'[c], {Answer}) + Count(queue, Answers(c))
    BY DEF Due, Answers
  <2>5. owed'[c] + Count(wire'[c], {Answer}) = owed[c] + Count(wire[c], {Answer})
    BY <2>1, <2>2, <2>3
  <2> QED
    BY <2>4, <2>5 DEF Due
<1> QED
  BY <1>2, <1>3

\* A handler moves what it receives from the wire to the queue.
LEMMA ReceiveDue ==
    ASSUME TypeInv, NEW t \in Conn, HandlerReceive(t), NEW c \in Conn
    PROVE  Due(c)' = Due(c)
<1> DEFINE d == ton[t]
           m == Head(wire[d])
           e == [fd |-> tfd[t], pdu |-> m, src |-> d]
<1>1. /\ d \in Conn /\ tfd[t] \in FD
      /\ wire \in [Conn -> Seq(Pdu)] /\ queue \in Seq(Event) /\ wire[d] # <<>>
      /\ wire' = [wire EXCEPT ![d] = Tail(@)] /\ queue' = Append(queue, e)
      /\ owed' = owed
  BY DEF HandlerReceive, Post, TypeInv, ThreadShape, TypeOK, Live
<1>2. m \in Pdu /\ e \in Event
  <2>1. m \in Pdu
    BY <1>1, HeadTailProperties
  <2> QED
    BY <1>1, <2>1, EventType
<1>3. e \in Answers(c) <=> c = d /\ m = Answer
  BY <1>2 DEF Answers
<1> HIDE DEF e
<1>4. Count(queue', Answers(c)) =
         Count(queue, Answers(c)) + (IF e \in Answers(c) THEN 1 ELSE 0)
  BY <1>1, <1>2, CountAppend
<1>5. Count(wire'[c], {Answer}) =
         Count(wire[c], {Answer}) - (IF c = d /\ m = Answer THEN 1 ELSE 0)
  <2>1. CASE c = d
    <3>1. wire'[c] = Tail(wire[c]) /\ wire[c] \in Seq(Pdu) /\ wire[c] # <<>>
      BY <1>1, <2>1
    <3>2. Count(wire'[c], {Answer}) =
             Count(wire[c], {Answer}) - (IF m \in {Answer} THEN 1 ELSE 0)
      BY <2>1, <3>1, CountTail
    <3> QED
      BY <2>1, <3>2
  <2>2. CASE c # d
    <3>1. wire'[c] = wire[c]
      BY <1>1, <2>2
    <3>2. Count(wire[c], {Answer}) \in Nat
      BY DueType DEF TypeInv, DueTyped
    <3> QED
      BY <2>2, <3>1, <3>2
  <2> QED
    BY <2>1, <2>2
<1> HIDE DEF d, m
<1>6. /\ owed[c] \in Nat /\ Count(wire[c], {Answer}) \in Nat
      /\ Count(queue, Answers(c)) \in Nat
  BY DueType DEF TypeInv, DueTyped
<1>7. Due(c)' = owed'[c] + Count(wire'[c], {Answer}) + Count(queue', Answers(c))
  BY DEF Due, Answers
<1>8. Count(wire'[c], {Answer}) + Count(queue', Answers(c))
         = Count(wire[c], {Answer}) + Count(queue, Answers(c))
  BY <1>3, <1>4, <1>5, <1>6
<1>9. owed'[c] = owed[c] /\ Count(wire'[c], {Answer}) \in Int
      /\ Count(queue', Answers(c)) \in Int
  BY <1>1, <1>4, <1>5, <1>6
<1> QED
  BY <1>6, <1>7, <1>8, <1>9 DEF Due

\* The main thread takes a message: Due(c) falls by one if it is an answer of c.
LEMMA DequeueDue ==
    ASSUME TypeOK, NEW kind, Dequeue(kind), owed' = owed, wire' = wire, NEW c \in Conn
    PROVE  Due(c)' = Due(c) - (IF Head(queue) \in Answers(c) THEN 1 ELSE 0)
<1>1. queue \in Seq(Event) /\ queue # <<>> /\ queue' = Tail(queue)
  BY DEF Dequeue, TypeOK
<1>2. Count(queue', Answers(c)) =
         Count(queue, Answers(c)) - (IF Head(queue) \in Answers(c) THEN 1 ELSE 0)
  BY <1>1, CountTail
<1>3. /\ owed[c] \in Nat /\ Count(wire[c], {Answer}) \in Nat
      /\ Count(queue, Answers(c)) \in Nat
  BY DueType DEF DueTyped
<1>4. Due(c)' = owed[c] + Count(wire[c], {Answer}) + Count(queue', Answers(c))
  BY DEF Due, Answers
<1> QED
  BY <1>2, <1>3, <1>4 DEF Due

\* close() under another number.
LEMMA CloseDue ==
    ASSUME OriginInv, NEW g \in FD, Close(g), queue' = queue,
           NEW f \in FD, NEW c \in Conn, fd'[f] = c, c \notin fresh', peer'[c] # "shut"
    PROVE  /\ fd[f] = c /\ c \notin fresh /\ peer[c] # "shut"
           /\ Due(c)' = Due(c)
<1>1. TypeOK /\ NumberOwner
  BY DEF OriginInv, TypeInv, Origins
<1>2. fd[f] = c /\ f # g
  BY <1>1, NoneAssumption DEF Close, TypeOK
<1>3. c # fd[g]
  BY <1>1, <1>2, NoneAssumption DEF NumberOwner
<1>4. /\ c \notin fresh
      /\ peer'[c] = peer[c] /\ owed'[c] = owed[c] /\ wire'[c] = wire[c]
  BY <1>1, <1>3 DEF Close, TypeOK
<1> QED
  BY <1>2, <1>4, DueFrame

\* A connection the monitor watches owes what the vector says, after every step.
LEMMA DueStep ==
    ASSUME MonitorInv, [Next]_vars, NEW f \in FD, NEW c \in Conn,
           fd'[f] = c, c \notin fresh', peer'[c] # "shut"
    PROVE  Entries(f)' <= Due(c)' + Pending(f)'
<1> DEFINE Goal == Entries(f)' <= Due(c)' + Pending(f)'
<1>1. OriginInv /\ TypeInv /\ TypeOK /\ ThreadShape /\ NumberOwner /\ UnbornIdle /\ TypeOK'
  BY TypeStep DEF MonitorInv, OriginInv, Origins, TypeInv
<1>2. /\ Entries(f) \in Nat /\ Pending(f) \in {0, 1} /\ Due(c) \in Nat
      /\ Entries(f)' \in Nat /\ Pending(f)' \in {0, 1} /\ Due(c)' \in Nat
  BY <1>1, DueType, DueTypeNext DEF DueTyped
<1>3. ASSUME fd[f] = c, c \notin fresh, peer[c] # "shut"
      PROVE  Entries(f) <= Due(c) + Pending(f)
  BY <1>3, NoneAssumption DEF MonitorInv, DueInv, Watched
<1>4. ASSUME fd[f] = c, c \notin fresh, peer[c] # "shut",
             vEnquire' = vEnquire, Due(c)' = Due(c),
             (epc # "send" /\ epc' # "send") \/ UNCHANGED <<epc, elist>>
      PROVE  Goal
  <2>1. Entries(f)' = Entries(f) /\ Pending(f)' = Pending(f)
    BY <1>4 DEF Entries, Pending
  <2> QED
    BY <1>3, <1>4, <2>1
<1>5. ASSUME UNCHANGED <<fd, fresh, peer, owed, wire, queue, vEnquire>>,
             (epc # "send" /\ epc' # "send") \/ UNCHANGED <<epc, elist>>
      PROVE  Goal
  BY <1>4, <1>5, DueFrame
<1> HIDE DEF Goal
<1> USE DEF env, thr, main, enq, hist
<1>6. CASE \/ UNCHANGED vars \/ BindInsert
           \/ EnqWake \/ EnqDelete \/ EnqRest
           \/ \E t \in Conn : HandlerCall(t) \/ HandlerEnd(t)
  <2>1. UNCHANGED <<fd, fresh, peer, owed, wire, queue, vEnquire>>
    BY <1>6 DEF vars, BindInsert, EnqWake, EnqDelete, EnqRest, HandlerCall, HandlerEnd
  <2>2. (epc # "send" /\ epc' # "send") \/ UNCHANGED <<epc, elist>>
    BY <1>6 DEF vars, BindInsert, EnqWake, EnqDelete, EnqRest, HandlerCall, HandlerEnd
  <2> QED
    BY <1>5, <2>1, <2>2 DEF Goal
<1>7. ASSUME NEW d \in Conn, PeerAnswer(d) \/ \E i \in Id : PeerBind(d, i)
      PROVE  Goal
  <2>1. /\ fd[f] = c /\ c \notin fresh /\ peer[c] # "shut"
        /\ UNCHANGED <<queue, vEnquire, epc, elist>>
    BY <1>1, <1>7 DEF PeerAnswer, PeerBind, TypeOK
  <2>2. Due(c)' = Due(c)
    <3>1. CASE PeerAnswer(d)
      BY <1>1, <2>1, <3>1, EventType, TransmitDue DEF PeerAnswer
    <3>2. ASSUME NEW i \in Id, PeerBind(d, i) PROVE Due(c)' = Due(c)
      <4>1. owed' = [owed EXCEPT ![d] = IF Bind(i) = Answer THEN @ - 1 ELSE @]
        BY <1>1, <3>2, PduFacts DEF PeerBind, TypeOK
      <4> QED
        BY <1>1, <2>1, <3>2, <4>1, EventType, TransmitDue DEF PeerBind
    <3> QED
      BY <1>7, <3>1, <3>2
  <2> QED
    BY <1>4, <2>1, <2>2
<1>8. ASSUME NEW d \in Conn, PeerStop(d)
      PROVE  Goal
  <2>1. c # d
    BY <1>1, <1>8 DEF PeerStop, TypeOK
  <2>2. /\ fd[f] = c /\ c \notin fresh /\ peer[c] # "shut"
        /\ owed'[c] = owed[c] /\ wire'[c] = wire[c]
        /\ UNCHANGED <<queue, vEnquire, epc, elist>>
    BY <1>1, <1>8, <2>1 DEF PeerStop, TypeOK
  <2> QED
    BY <1>4, <2>2, DueFrame
<1>9. ASSUME NEW d \in Conn, NEW g \in FD, Accept(d, g)
      PROVE  Goal
  <2>1. c # d
    BY <1>9 DEF Accept
  <2>2. /\ fd[f] = c /\ c \notin fresh /\ peer[c] # "shut"
        /\ UNCHANGED <<owed, wire, queue, vEnquire, epc, elist>>
    BY <1>1, <1>9, <2>1 DEF Accept, TypeOK
  <2> QED
    BY <1>4, <2>2, DueFrame
<1>10. ASSUME NEW t \in Conn, HandlerReceive(t)
       PROVE  Goal
  BY <1>1, <1>4, <1>10, ReceiveDue DEF HandlerReceive
<1>11. ASSUME NEW t \in Conn, HandlerPostDisconnect(t)
       PROVE  Goal
  <2> DEFINE e == [fd |-> tfd[t], pdu |-> Disconnect, src |-> t]
  <2>1. tfd[t] \in FD
    BY <1>1, <1>11 DEF HandlerPostDisconnect, ThreadShape, Live
  <2>2. e \in Event /\ e \notin Answers(c) /\ queue \in Seq(Event)
        /\ queue' = Append(queue, e)
    BY <1>1, <1>11, <2>1, EventType, PduFacts
       DEF Answers, HandlerPostDisconnect, Post, TypeOK
  <2> HIDE DEF e
  <2>3. Count(queue', Answers(c)) = Count(queue, Answers(c))
    <3>1. Count(queue', Answers(c)) =
             Count(queue, Answers(c)) + (IF e \in Answers(c) THEN 1 ELSE 0)
      BY <2>2, CountAppend
    <3>2. Count(queue, Answers(c)) \in Nat
      BY <1>1, DueType DEF DueTyped
    <3> QED
      BY <2>2, <3>1, <3>2
  <2>4. Due(c)' = Due(c)
    BY <1>11, <2>3 DEF HandlerPostDisconnect, Due, Answers
  <2> QED
    BY <1>4, <1>11, <2>4 DEF HandlerPostDisconnect
<1>12. CASE OnDisconnect \/ BindDelete
  <2>1. PICK kind \in {"disconnect", "bind"} : Dequeue(kind)
    BY <1>12 DEF OnDisconnect, BindDelete
  <2>2. Head(queue) \notin Answers(c)
    BY <2>1, PduFacts DEF Dequeue, Answers
  <2>3. Due(c)' = Due(c)
    BY <1>1, <1>2, <1>12, <2>1, <2>2, DequeueDue DEF OnDisconnect, BindDelete
  <2>4. /\ fd[f] = c /\ c \notin fresh /\ peer[c] # "shut"
        /\ UNCHANGED <<vEnquire, epc, elist>>
    BY <1>12 DEF OnDisconnect, BindDelete
  <2> QED
    BY <1>4, <2>3, <2>4 DEF Goal
<1>13. CASE AckPacket
  <2> DEFINE e == Head(queue)
  <2>1. /\ Dequeue("answer") /\ vEnquire' = RemoveFirst(vEnquire, e.fd)
        /\ UNCHANGED <<fd, tfd, peer, owed, wire, fresh, epc, elist>>
    BY <1>13 DEF AckPacket
  <2>2. Due(c)' = Due(c) - (IF e \in Answers(c) THEN 1 ELSE 0)
    BY <1>1, <2>1, DequeueDue
  <2>3. Entries(f)' = IF f = e.fd /\ Entries(f) > 0 THEN Entries(f) - 1 ELSE Entries(f)
    <3>1. vEnquire \in Seq(FD)
      BY <1>1 DEF TypeOK
    <3> QED
      BY <2>1, <3>1, CountRemoveFirst DEF Entries
  <2>4. fd[f] = c /\ c \notin fresh /\ peer[c] # "shut" /\ Pending(f)' = Pending(f)
    BY <2>1 DEF Pending
  <2>5. Entries(f) <= Due(c) + Pending(f)
    BY <1>3, <2>4
  <2>6. e \in Answers(c) => f = e.fd
    <3>1. e.fd = tfd[e.src]
      BY <1>1, <2>1, DequeueOrigin DEF OriginInv, Origins
    <3>2. tfd[c] = f
      BY <1>1, <2>4, NoneAssumption DEF NumberOwner
    <3> QED
      BY <3>1, <3>2 DEF Answers
  <2> HIDE DEF e
  <2>7. CASE e \in Answers(c)
    BY <1>2, <2>2, <2>3, <2>4, <2>5, <2>6, <2>7 DEF Goal
  <2>8. CASE e \notin Answers(c)
    BY <1>2, <2>2, <2>3, <2>4, <2>5, <2>8 DEF Goal
  <2> QED
    BY <2>7, <2>8
<1>14. ASSUME NEW g \in FD, Close(g), UNCHANGED <<queue, vEnquire, elist>>,
              (epc # "send" /\ epc' # "send") \/ UNCHANGED epc
       PROVE  Goal
  <2>1. /\ fd[f] = c /\ c \notin fresh /\ peer[c] # "shut"
        /\ Due(c)' = Due(c)
    BY <1>1, <1>14, CloseDue
  <2> QED
    BY <1>4, <1>14, <2>1
<1>15. ASSUME NEW t \in Conn, HandlerClose(t)
       PROVE  Goal
  <2>1. tfd[t] \in FD
    BY <1>1, <1>15 DEF HandlerClose, ThreadShape, Live
  <2> QED
    BY <1>14, <1>15, <2>1 DEF HandlerClose
<1>16. CASE EnqClose
  <2>1. vEnquire[eidx] \in FD
    BY <1>1, <1>16, ElementOfSeq DEF TypeOK, EnqClose
  <2>2. /\ Close(vEnquire[eidx]) /\ UNCHANGED <<queue, vEnquire, elist>>
        /\ epc # "send" /\ epc' # "send"
    BY <1>16 DEF EnqClose
  <2> QED
    BY <1>14, <2>1, <2>2 DEF Goal
<1>17. ASSUME NEW g \in FD, EnqOverrun(g)
       PROVE  Goal
  BY <1>14, <1>17 DEF EnqOverrun
<1>18. CASE EnqClear \/ EnqSelect
  <2>1. vEnquire' = <<>>
    BY <1>18 DEF EnqClear, EnqSelect, MonitorInv, RoundInv
  <2>2. Entries(f)' = 0
    BY <2>1, CountEmpty DEF Entries
  <2> QED
    BY <1>2, <2>2 DEF Goal
<1>19. CASE EnqPush
  <2> DEFINE h == Head(elist)
  <2>1. /\ epc = "push" /\ epc' = "send" /\ elist # <<>> /\ elist' = elist
        /\ vEnquire' = Append(vEnquire, h)
        /\ UNCHANGED <<fd, peer, owed, wire, queue, fresh>>
    BY <1>19 DEF EnqPush
  <2>2. h \in FD /\ vEnquire \in Seq(FD)
    BY <1>1, <2>1, HeadTailProperties DEF TypeOK
  <2>3. Entries(f)' = Entries(f) + (IF h \in {f} THEN 1 ELSE 0)
    BY <2>1, <2>2, CountAppend DEF Entries
  <2>4. Pending(f) = 0 /\ Pending(f)' = IF h = f THEN 1 ELSE 0
    BY <2>1 DEF Pending
  <2>5. Due(c)' = Due(c) /\ Entries(f) <= Due(c) + Pending(f)
    BY <1>3, <2>1, DueFrame
  <2> HIDE DEF h
  <2> QED
    BY <1>2, <2>3, <2>4, <2>5 DEF Goal
<1>20. CASE EnqSend
  <2> DEFINE h == Head(elist)
  <2>1. /\ epc = "send" /\ epc' = "push" /\ elist # <<>>
        /\ owed' = IF fd[h] = None THEN owed
                   ELSE [owed EXCEPT ![fd[h]] = IF Talking(fd[h]) THEN @ + 1 ELSE @]
        /\ UNCHANGED <<fd, peer, wire, queue, fresh, vEnquire>>
    BY <1>20 DEF EnqSend
  <2>2. Entries(f)' = Entries(f) /\ Pending(f)' = 0
        /\ Pending(f) = IF h = f THEN 1 ELSE 0
    BY <2>1 DEF Entries, Pending
  <2>3. Entries(f) <= Due(c) + Pending(f)
    BY <1>3, <2>1
  <2>4. Talking(c)
    <3>1. tfd[c] = f /\ peer[c] # "unborn"
      BY <1>1, <2>1, NoneAssumption DEF NumberOwner, UnbornIdle
    <3>2. peer[c] \in {"unborn", "open", "bound", "shut"} /\ peer[c] # "shut"
      BY <1>1, <2>1 DEF TypeOK
    <3> QED
      BY <3>1, <3>2 DEF Talking
  <2>5. /\ owed[c] \in Nat /\ owed'[c] \in {owed[c], owed[c] + 1}
        /\ h = f => owed'[c] = owed[c] + 1
    <3>1. owed[c] \in Nat
      BY <1>1 DEF TypeOK
    <3>2. CASE fd[h] = c
      <4>1. owed' = [owed EXCEPT ![c] = @ + 1]
        BY <2>1, <2>4, <3>2, NoneAssumption
      <4> QED
        BY <1>1, <3>1, <4>1 DEF TypeOK
    <3>3. CASE fd[h] # c
      <4>1. owed'[c] = owed[c]
        BY <1>1, <2>1, <3>3 DEF TypeOK
      <4> QED
        BY <2>1, <3>1, <3>3, <4>1
    <3> QED
      BY <3>2, <3>3
  <2>6. Due(c)' - Due(c) = owed'[c] - owed[c]
    <3>1. /\ Count(wire[c], {Answer}) \in Nat /\ Count(queue, Answers(c)) \in Nat
      BY <1>1, DueType DEF DueTyped
    <3>2. Due(c)' = owed'[c] + Count(wire[c], {Answer}) + Count(queue, Answers(c))
      BY <2>1 DEF Due, Answers
    <3>3. owed'[c] \in Nat
      BY <2>5
    <3> QED
      BY <2>5, <3>1, <3>2, <3>3 DEF Due
  <2> HIDE DEF h
  <2> QED
    BY <1>2, <2>2, <2>3, <2>5, <2>6 DEF Goal
<1>21. CASE Restart
  BY <1>21, NoneAssumption DEF Restart
<1> QED
  BY <1>6, <1>7, <1>8, <1>9, <1>10, <1>11, <1>12, <1>13, <1>15, <1>16, <1>17,
     <1>18, <1>19, <1>20, <1>21 DEF Next, Handler, MainLoop, Enquire, Goal

LEMMA RoundStep == MonitorInv /\ [Next]_vars => RoundInv'
<1> SUFFICES ASSUME MonitorInv, [Next]_vars, epc' = "select"
             PROVE  vEnquire' = <<>>
  BY DEF RoundInv
<1> USE DEF env, thr, main, enq, hist
<1>1. CASE EnqWake \/ EnqClear
  BY <1>1 DEF EnqWake, EnqClear
<1>2. CASE AckPacket
  <2>1. epc = "select" /\ vEnquire = <<>> /\ \E x : vEnquire' = RemoveFirst(vEnquire, x)
    BY <1>2 DEF AckPacket, MonitorInv, RoundInv
  <2>2. \A x : RemoveFirst(<<>>, x) = <<>>
    <3>1. Len(<<>>) = 0
      BY EmptySeq
    <3> QED
      BY <3>1 DEF RemoveFirst
  <2> QED
    BY <2>1, <2>2
<1>3. CASE UNCHANGED <<epc, vEnquire>>
  BY <1>3 DEF MonitorInv, RoundInv
<1> QED
  <2>1. [Next]_vars => EnqWake \/ EnqClear \/ AckPacket \/ UNCHANGED <<epc, vEnquire>>
                       \/ epc' # "select"
    BY DEF Next, vars, PeerBind, PeerAnswer, PeerStop, Accept, Handler, HandlerCall,
           HandlerReceive, HandlerEnd, HandlerPostDisconnect, HandlerClose,
           MainLoop, OnDisconnect, BindDelete, BindInsert, Enquire, EnqDelete,
           EnqClose, EnqSelect, EnqPush, EnqSend, EnqRest, EnqOverrun, Restart
  <2> QED
    BY <1>1, <1>2, <1>3, <2>1

LEMMA MonitorInductive == Spec => []MonitorInv
<1>1. Init /\ OriginInv => MonitorInv
  BY DEF Init, MonitorInv, RoundInv, DueInv, Watched
<1>2. MonitorInv /\ [Next]_vars /\ OriginInv' => MonitorInv'
  <2> SUFFICES ASSUME MonitorInv, [Next]_vars, OriginInv'
               PROVE  DueInv'
    BY RoundStep DEF MonitorInv
  <2>1. ASSUME NEW f \in FD, Watched(f)'
        PROVE  (Entries(f) <= Due(fd[f]) + Pending(f))'
    <3>1. PICK c \in Conn : fd'[f] = c
      BY <2>1 DEF OriginInv, TypeInv, TypeOK, Watched
    <3>2. Entries(f)' <= Due(c)' + Pending(f)'
      BY <2>1, <3>1, DueStep DEF Watched
    <3>3. Due(c)' = Due(fd[f])'
      BY <3>1 DEF Due, Answers
    <3> QED
      BY <3>2, <3>3
  <2> QED
    BY <2>1 DEF DueInv
<1> QED
  BY <1>1, <1>2, OriginInductive, PTL DEF Spec

\* Nothing but an answer that is taken while the drop loop runs puts its
\* iterator beyond the end.
LEMMA OverrunByAck ==
  ASSUME TypeOK, [Next]_vars, ~Overrun, Overrun'
  PROVE  AckPacket
<1> USE DEF env, thr, main, enq, hist
<1>1. /\ eidx \in Nat \ {0} /\ vEnquire \in Seq(FD) /\ Len(vEnquire) \in Nat
      /\ vEnquire # <<>> => Len(vEnquire) # 0
  <2>1. eidx \in Nat \ {0} /\ vEnquire \in Seq(FD)
    BY DEF TypeOK
  <2> QED
    BY <2>1, LenProperties, EmptySeq
<1>2. ~ EnqWake
  BY <1>1 DEF EnqWake, Overrun
<1>3. ~ EnqDelete /\ ~ EnqClose
  BY <1>1 DEF EnqDelete, EnqClose, Overrun
<1>4. ~ UNCHANGED <<vEnquire, epc, eidx>>
  BY DEF Overrun
<1>5. epc' \in {"drop", "close"}
  BY DEF Overrun
<1> QED
  BY <1>2, <1>3, <1>4, <1>5
     DEF Next, vars, PeerBind, PeerAnswer, PeerStop, Accept, Handler, HandlerCall,
         HandlerReceive, HandlerEnd, HandlerPostDisconnect, HandlerClose, MainLoop,
         OnDisconnect, BindDelete, BindInsert, Enquire, EnqClear, EnqSelect,
         EnqPush, EnqSend, EnqRest, EnqOverrun, Restart

\* Whatever the peers, the main thread and the handlers do meanwhile: of the
\* connections that were open when the round began, the drop loop closes only
\* those that still owe an answer, or have stopped, unless an answer taken while
\* it ran has put it past the end of the vector.
THEOREM DropOnlyOwingHolds == Spec => DropOnlyOwing
<1> DEFINE Drop == \A f \in FD :
             DropCloses(f) /\ fd[f] # None /\ fd[f] \notin fresh
               => Owing(fd[f]) \/ peer[fd[f]] = "shut" \/ Overrun
           Beyond == Overrun' /\ ~Overrun => AckPacket
<1>1. MonitorInv => Drop
  <2> SUFFICES ASSUME MonitorInv, NEW f \in FD, EnqClose, f = vEnquire[eidx],
                      fd[f] # None, fd[f] \notin fresh, peer[fd[f]] # "shut"
               PROVE  Owing(fd[f])
    BY DEF DropCloses, EnqOverrun
  <2>1. TypeOK
    BY DEF MonitorInv, OriginInv, TypeInv
  <2>2. PICK c \in Conn : fd[f] = c
    BY <2>1 DEF TypeOK
  <2>3. DueTyped
    BY <2>1, DueType
  <2>4. Entries(f) > 0
    <3>1. vEnquire \in Seq(FD) /\ eidx \in Nat \ {0} /\ eidx <= Len(vEnquire)
      BY <2>1 DEF TypeOK, EnqClose
    <3>2. eidx \in DOMAIN vEnquire
      BY <3>1, LenProperties
    <3> QED
      BY <3>1, <3>2, CountType DEF Entries
  <2>5. Entries(f) <= Due(c) + 0
    BY <2>2 DEF MonitorInv, DueInv, Watched, Pending, EnqClose
  <2>6. /\ owed[c] \in Nat /\ Count(wire[c], {Answer}) \in Nat
        /\ Count(queue, Answers(c)) \in Nat /\ Entries(f) \in Nat
    BY <2>3 DEF DueTyped
  <2>7. owed[c] > 0 \/ Count(wire[c], {Answer}) > 0 \/ Count(queue, Answers(c)) > 0
    BY <2>4, <2>5, <2>6 DEF Due
  <2>8. /\ Count(wire[c], {Answer}) > 0 => \E k \in DOMAIN wire[c] : wire[c][k] = Answer
        /\ Count(queue, Answers(c)) > 0 =>
              \E k \in DOMAIN queue : queue[k].src = c /\ queue[k].pdu = Answer
    <3>1. wire[c] \in Seq(Pdu) /\ queue \in Seq(Event)
      BY <2>1 DEF TypeOK
    <3>2. Count(wire[c], {Answer}) > 0 => \E k \in DOMAIN wire[c] : wire[c][k] \in {Answer}
      BY <3>1, CountType
    <3>3. Count(queue, Answers(c)) > 0 => \E k \in DOMAIN queue : queue[k] \in Answers(c)
      BY <3>1, CountType
    <3> QED
      BY <3>2, <3>3 DEF Answers
  <2> QED
    BY <2>2, <2>7, <2>8 DEF Owing
<1>2. MonitorInv /\ [Next]_vars => [Drop /\ Beyond]_vars
  BY <1>1, OverrunByAck DEF MonitorInv, OriginInv, TypeInv
<1> QED
  BY <1>2, MonitorInductive, PTL DEF DropOnlyOwing, Spec
=============================================================================
