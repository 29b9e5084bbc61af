---------------------------- MODULE RequestsProofs ----------------------------
(***************************************************************************)
(* Theorems about Requests, for any clients and controllers, any capacity  *)
(* of the queue and of the connections, and any number of requests.        *)
(***************************************************************************)
EXTENDS Requests, SequenceTheorems, TLAPS

USE NoneAssumption, PeerAssumption, OpsAssumption, BoundAssumption

-----------------------------------------------------------------------------
(***************************************************************************)
(* Sequences.                                                              *)
(***************************************************************************)
LEMMA AppendFacts ==
    ASSUME NEW S, NEW s \in Seq(S), NEW e \in S
    PROVE  /\ Append(s, e) \in Seq(S)
           /\ Len(s) \in Nat /\ DOMAIN s = 1 .. Len(s)
           /\ Len(Append(s, e)) = Len(s) + 1
           /\ DOMAIN Append(s, e) = 1 .. Len(s) + 1
           /\ \A i \in 1 .. Len(s) : Append(s, e)[i] = s[i]
           /\ Append(s, e)[Len(s) + 1] = e
<1>1. /\ Append(s, e) \in Seq(S)
      /\ Len(Append(s, e)) = Len(s) + 1
      /\ \A i \in 1 .. Len(s) : Append(s, e)[i] = s[i]
      /\ Append(s, e)[Len(s) + 1] = e
  BY AppendProperties
<1> QED
  BY <1>1, LenProperties

LEMMA TailFacts ==
    ASSUME NEW S, NEW s \in Seq(S), s # <<>>
    PROVE  /\ Head(s) \in S /\ Head(s) = s[1]
           /\ Tail(s) \in Seq(S)
           /\ Len(s) \in Nat \ {0} /\ DOMAIN s = 1 .. Len(s)
           /\ Len(Tail(s)) = Len(s) - 1
           /\ DOMAIN Tail(s) = 1 .. Len(s) - 1
           /\ \A i \in 1 .. Len(s) - 1 : Tail(s)[i] = s[i + 1]
<1>1. /\ Head(s) \in S /\ Tail(s) \in Seq(S)
      /\ Len(Tail(s)) = Len(s) - 1
      /\ \A i \in 1 .. Len(Tail(s)) : Tail(s)[i] = s[i + 1]
  BY HeadTailProperties
<1>2. Len(s) \in Nat \ {0} /\ DOMAIN s = 1 .. Len(s)
  BY EmptySeq, LenProperties
<1>3. DOMAIN Tail(s) = 1 .. Len(s) - 1
  BY <1>1, LenProperties
<1>4. Head(s) = s[1]
  OBVIOUS
<1> QED
  BY <1>1, <1>2, <1>3, <1>4

-----------------------------------------------------------------------------
(***************************************************************************)
(* Types.  What a client sends are requests, what a controller sends are   *)
(* results and enquiries, and its handler keeps the enquiries to itself:   *)
(* so the main thread only ever works on requests, and a command is for a  *)
(* controller.  That a client reads no more than it asked for, which       *)
(* TypeOK says too, takes OneResponseEach.                                 *)
(***************************************************************************)
Asks == {m \in Request : m.op = "other" <=> m.to = None}

Sends(p) == IF p \in Client THEN Asks ELSE {Result, Enquire}

Mail == {m \in Message : m.packet \in Sends(m.from) \ {Enquire}}

Shape ==
    /\ \A p \in Peer : toCenter[p] \in Seq(Sends(p)) /\ hold[p] \in Sends(p) \cup {None}
    /\ \A c \in Client : toPeer[c] \in Seq(Response)
    /\ queue \in Seq(Mail)
    /\ job # None => /\ job.packet \in Asks
                     /\ job.todo = "forward" => job.packet.op = "set"
                     /\ job.todo = "try" => job.packet.op = "state"

Typed == TypeOK /\ Shape

Inv == Typed /\ OneResponseEach

\* The kinds of packets are told apart.
LEMMA PacketFacts ==
    /\ Asks \subseteq Packet /\ Response \subseteq Packet
    /\ {Result, Enquire, Command, Alive} \subseteq Packet
    /\ \A m \in Asks : m # None /\ m # Result /\ m # Enquire /\ m.n \in Nat
                       /\ (m.op # "other" => m.to \in Controller)
                       /\ m.op \in {"set", "state", "other"}
    /\ Result # None /\ Enquire # None /\ Result # Enquire
<1>1. Asks \subseteq Packet /\ Response \subseteq Packet
      /\ {Result, Enquire, Command, Alive} \subseteq Packet
  BY DEF Asks, Packet
<1>2. \A n \in Number : n \in Nat
  BY DEF Number
<1>3. ASSUME NEW m \in Asks
      PROVE  /\ m # Result /\ m # Enquire /\ m.n \in Nat
             /\ (m.op # "other" => m.to \in Controller)
             /\ m.op \in {"set", "state", "other"}
  <2>1. /\ m \in Request /\ (m.op = "other" <=> m.to = None)
    BY DEF Asks
  <2>2. /\ m.op \in {"set", "state", "other"} /\ m.to \in Controller \cup {None}
        /\ m.n \in Number
    BY <2>1 DEF Request
  <2> QED
    BY <1>2, <2>1, <2>2 DEF Result, Enquire
<1>4. Result # Enquire
  BY DEF Result, Enquire
<1>5. \A m \in Packet : m # None
  OBVIOUS
<1> QED
  BY <1>1, <1>3, <1>4, <1>5

LEMMA PeerFacts ==
    /\ Peer = Client \cup Controller
    /\ \A c \in Client : c \in Peer /\ c \notin Controller
    /\ \A k \in Controller : k \in Peer /\ k \notin Client
BY DEF Peer

LEMMA SendsFacts ==
    ASSUME NEW p \in Peer
    PROVE  /\ Sends(p) \subseteq Packet /\ None \notin Sends(p)
           /\ p \in Client => Sends(p) = Asks
           /\ p \notin Client => Sends(p) = {Result, Enquire}
<1>1. CASE p \in Client
  BY <1>1, PacketFacts DEF Sends
<1>2. CASE p \notin Client
  BY <1>2, PacketFacts DEF Sends
<1> QED
  BY <1>1, <1>2

LEMMA MailFacts ==
    /\ Mail \subseteq Message
    /\ \A m \in Mail :
         /\ m.from \in Peer
         /\ m.from \in Client => m.packet \in Asks
         /\ m.from \notin Client => m.packet = Result
    /\ \A p \in Peer : \A a \in Sends(p) \ {Enquire} : [from |-> p, packet |-> a] \in Mail
<1>1. \A m \in Mail : /\ m \in Message /\ m.from \in Peer
                      /\ m.packet \in Sends(m.from) \ {Enquire}
  BY DEF Mail, Message
<1>2. ASSUME NEW p \in Peer, NEW a \in Sends(p) \ {Enquire}
      PROVE  [from |-> p, packet |-> a] \in Mail
  <2>1. a \in Packet
    BY SendsFacts
  <2>2. [from |-> p, packet |-> a] \in Message
    BY <2>1 DEF Message
  <2> QED
    BY <2>2 DEF Mail
<1> QED
  BY <1>1, <1>2, SendsFacts

-----------------------------------------------------------------------------
(***************************************************************************)
(* The order of a client's requests.                                       *)
(***************************************************************************)
\* What OneResponseEach says of one client.
Ordered(c) ==
    /\ \A i \in DOMAIN toPeer[c] : toPeer[c][i].n = got[c] + i
    /\ Handling(c) => job.packet.n = Taken(c)
    /\ Taken(c) <= Posted(c)
    /\ Queues(c, Taken(c) + 1, Posted(c))
    /\ hold[c] # None => hold[c].n = Received(c)
    /\ \A i \in DOMAIN toCenter[c] : toCenter[c][i].n = Received(c) + i

LEMMA CountType ==
    ASSUME TypeOK, NEW c \in Client
    PROVE  /\ got[c] \in Nat /\ asked[c] \in Nat
           /\ Len(toPeer[c]) \in Nat /\ Len(toCenter[c]) \in Nat
           /\ Replied(c) \in Nat /\ Taken(c) \in Nat
           /\ Received(c) \in Int /\ Posted(c) \in Int
<1>1. toPeer[c] \in Seq(Packet) /\ toCenter[c] \in Seq(Packet)
  BY PeerFacts DEF TypeOK
<1>2. Len(toPeer[c]) \in Nat /\ Len(toCenter[c]) \in Nat
  BY <1>1, LenProperties
<1>3. got[c] \in Nat /\ asked[c] \in Nat
  BY DEF TypeOK
<1>4. /\ Replied(c) \in Nat /\ Received(c) \in Int
  BY <1>2, <1>3 DEF Replied, Received
<1>5. Taken(c) \in {Replied(c), Replied(c) + 1}
  <2>1. CASE Handling(c)
    BY <2>1 DEF Taken
  <2>2. CASE ~Handling(c)
    BY <1>4, <2>2 DEF Taken
  <2> QED
    BY <2>1, <2>2
<1>6. Posted(c) \in {Received(c), Received(c) - 1}
  <2>1. CASE hold[c] # None
    BY <2>1 DEF Posted
  <2>2. CASE hold[c] = None
    BY <1>4, <2>2 DEF Posted
  <2> QED
    BY <2>1, <2>2
<1> QED
  BY <1>2, <1>3, <1>4, <1>5, <1>6

LEMMA CountBounds ==
    ASSUME TypeOK, NEW c \in Client
    PROVE  /\ Taken(c) = Replied(c) \/ (Handling(c) /\ Taken(c) = Replied(c) + 1)
           /\ Posted(c) = Received(c) \/ (hold[c] # None /\ Posted(c) = Received(c) - 1)
           /\ Handling(c) => Taken(c) = Replied(c) + 1
           /\ hold[c] # None => Posted(c) = Received(c) - 1
           /\ Taken(c) >= Replied(c) /\ Posted(c) <= Received(c)
<1>1. Replied(c) \in Nat /\ Received(c) \in Int
  BY CountType
<1>2. CASE Handling(c) /\ hold[c] # None
  BY <1>1, <1>2 DEF Taken, Posted
<1>3. CASE Handling(c) /\ hold[c] = None
  BY <1>1, <1>3 DEF Taken, Posted
<1>4. CASE ~Handling(c) /\ hold[c] # None
  BY <1>1, <1>4 DEF Taken, Posted
<1>5. CASE ~Handling(c) /\ hold[c] = None
  BY <1>1, <1>5 DEF Taken, Posted
<1> QED
  BY <1>2, <1>3, <1>4, <1>5

\* A step that touches nothing of c.
LEMMA OrderFrame ==
    ASSUME NEW c \in Client, Ordered(c),
           toPeer'[c] = toPeer[c], toCenter'[c] = toCenter[c],
           got'[c] = got[c], asked'[c] = asked[c], hold'[c] = hold[c],
           Handling(c)' <=> Handling(c),
           Handling(c) => job'.packet = job.packet,
           \A lo, hi : Queues(c, lo, hi) => Queues(c, lo, hi)'
    PROVE  Ordered(c)'
<1>1. /\ Taken(c)' = Taken(c) /\ Posted(c)' = Posted(c) /\ Received(c)' = Received(c)
      /\ Handling(c)' <=> Handling(c)
  BY DEF Taken, Posted, Received, Replied
<1>2. Queues(c, Taken(c) + 1, Posted(c))'
  <2> DEFINE lo == Taken(c) + 1
             hi == Posted(c)
  <2>1. \A l, h : l = lo /\ h = hi => Queues(c, l, h)'
    BY DEF Ordered
  <2>2. lo' = lo /\ hi' = hi
    BY <1>1
  <2> HIDE DEF lo, hi
  <2>3. Queues(c, lo, hi)' 
    BY <2>1, <2>2 DEF Queues
  <2> QED
    BY <2>3 DEF lo, hi
<1>3. Handling(c)' => job'.packet.n = Taken(c)'
  BY <1>1 DEF Ordered
<1> QED
  BY <1>1, <1>2, <1>3 DEF Ordered

\* Nor does one that leaves the queue alone disturb what it holds.
LEMMA QueueFrame ==
    ASSUME NEW c \in Client, queue' = queue
    PROVE  \A lo, hi : Queues(c, lo, hi) => Queues(c, lo, hi)'
BY DEF Queues

\* A message of another peer joins the queue.
LEMMA QueueOther ==
    ASSUME NEW c \in Client, queue \in Seq(Mail), NEW m \in Mail, m.from # c,
           queue' = Append(queue, m)
    PROVE  \A lo, hi : Queues(c, lo, hi) => Queues(c, lo, hi)'
<1>1. /\ Len(queue) \in Nat /\ DOMAIN queue = 1 .. Len(queue)
      /\ DOMAIN queue' = 1 .. Len(queue) + 1
      /\ \A i \in 1 .. Len(queue) : queue'[i] = queue[i]
      /\ queue'[Len(queue) + 1] = m
  BY AppendFacts
<1> DEFINE of == {i \in DOMAIN queue : queue[i].from = c}
<1>2. {i \in DOMAIN queue' : queue'[i].from = c} = of
  BY <1>1
<1>3. \A i \in of : queue'[i] = queue[i]
  BY <1>1
<1> QED
  BY <1>2, <1>3 DEF Queues

\* The next message of c joins it.
LEMMA QueueOwn ==
    ASSUME NEW c \in Client, queue \in Seq(Mail), NEW m \in Mail, m.from = c,
           queue' = Append(queue, m), NEW lo \in Int, NEW hi \in Int,
           lo <= hi + 1, m.packet.n = hi + 1, Queues(c, lo, hi)
    PROVE  Queues(c, lo, hi + 1)'
<1>1. /\ Len(queue) \in Nat /\ DOMAIN queue = 1 .. Len(queue)
      /\ DOMAIN queue' = 1 .. Len(queue) + 1
      /\ \A i \in 1 .. Len(queue) : queue'[i] = queue[i]
      /\ queue'[Len(queue) + 1] = m
  BY AppendFacts
<1> DEFINE of == {i \in DOMAIN queue : queue[i].from = c}
           last == Len(queue) + 1
<1>2. {i \in DOMAIN queue' : queue'[i].from = c} = of \cup {last}
  BY <1>1
<1>3. /\ \A i \in of : queue'[i] = queue[i] /\ i \in Nat /\ i < last
      /\ queue'[last].packet.n = hi + 1 /\ last \in Nat
  BY <1>1
<1>4. /\ \A i \in of : queue[i].packet.n \in lo .. hi
      /\ \A n \in lo .. hi : \E i \in of : queue[i].packet.n = n
      /\ \A i, j \in of : i < j => queue[i].packet.n < queue[j].packet.n
  BY DEF Queues
<1> HIDE DEF of, last
<1> DEFINE new == of \cup {last}
<1>5. \A i \in new : queue'[i].packet.n \in lo .. hi + 1
  <2>1. \A n \in lo .. hi : n \in lo .. hi + 1
    OBVIOUS
  <2>2. hi + 1 \in lo .. hi + 1
    OBVIOUS
  <2>3. \A i \in of : queue'[i].packet.n \in lo .. hi + 1
    BY <1>3, <1>4, <2>1
  <2>4. queue'[last].packet.n \in lo .. hi + 1
    BY <1>3, <2>2
  <2> QED
    BY <2>3, <2>4
<1>6. \A n \in lo .. hi + 1 : \E i \in new : queue'[i].packet.n = n
  <2> SUFFICES ASSUME NEW n \in lo .. hi + 1
               PROVE  \E i \in new : queue'[i].packet.n = n
    OBVIOUS
  <2>1. CASE n = hi + 1
    BY <1>3, <2>1
  <2>2. CASE n \in lo .. hi
    BY <1>3, <1>4, <2>2
  <2>3. n = hi + 1 \/ n \in lo .. hi
    OBVIOUS
  <2> QED
    BY <2>1, <2>2, <2>3
<1>7. ASSUME NEW i \in new, NEW j \in new, i < j
      PROVE  queue'[i].packet.n < queue'[j].packet.n
  <2>1. i \in of
    BY <1>3, <1>7
  <2>2. CASE j \in of
    BY <1>3, <1>4, <1>7, <2>1, <2>2
  <2>3. CASE j = last
    <3>1. queue'[i].packet.n \in lo .. hi
      BY <1>3, <1>4, <2>1
    <3>2. \A x \in lo .. hi : x < hi + 1
      OBVIOUS
    <3>3. queue'[i].packet.n < hi + 1
      BY <3>1, <3>2
    <3> QED
      BY <1>3, <2>3, <3>3
  <2> QED
    BY <2>2, <2>3
<1> QED
  BY <1>2, <1>5, <1>6, <1>7 DEF Queues, of, last

\* The head leaves the queue: a message of another peer, or the first of c.
LEMMA QueueTail ==
    ASSUME NEW c \in Client, queue \in Seq(Mail), queue # <<>>, queue' = Tail(queue)
    PROVE  /\ Head(queue).from # c =>
                  \A lo, hi : Queues(c, lo, hi) => Queues(c, lo, hi)'
           /\ Head(queue).from = c =>
                  \A lo, hi \in Int : Queues(c, lo, hi) =>
                      /\ lo <= hi /\ Head(queue).packet.n = lo
                      /\ Queues(c, lo + 1, hi)'
<1>1. /\ Head(queue) = queue[1]
      /\ Len(queue) \in Nat \ {0} /\ DOMAIN queue = 1 .. Len(queue)
      /\ DOMAIN queue' = 1 .. Len(queue) - 1
      /\ \A i \in 1 .. Len(queue) - 1 : queue'[i] = queue[i + 1]
  BY TailFacts
<1> DEFINE of == {i \in DOMAIN queue : queue[i].from = c}
           new == {i \in DOMAIN queue' : queue'[i].from = c}
<1>2. \A i \in new : i \in Nat /\ i + 1 \in of /\ queue'[i] = queue[i + 1]
  BY <1>1
<1>3. \A i \in of : /\ i \in Nat /\ i >= 1
                    /\ i # 1 => i - 1 \in new /\ queue'[i - 1] = queue[i]
  BY <1>1
<1>4. 1 \in of <=> Head(queue).from = c
  BY <1>1
<1>5. ASSUME NEW lo, NEW hi, Queues(c, lo, hi)
      PROVE  /\ \A i \in of : queue[i].packet.n \in lo .. hi
             /\ \A n \in lo .. hi : \E i \in of : queue[i].packet.n = n
             /\ \A i, j \in of : i < j => queue[i].packet.n < queue[j].packet.n
  BY <1>5 DEF Queues
<1>6. ASSUME NEW lo, NEW hi,
             \A i \in new : queue'[i].packet.n \in lo .. hi,
             \A n \in lo .. hi : \E i \in new : queue'[i].packet.n = n,
             \A i, j \in new : i < j => queue'[i].packet.n < queue'[j].packet.n
      PROVE  Queues(c, lo, hi)'
  BY <1>6 DEF Queues
<1> HIDE DEF of, new
<1>7. ASSUME Head(queue).from # c, NEW lo, NEW hi, Queues(c, lo, hi)
      PROVE  Queues(c, lo, hi)'
  <2>1. ASSUME NEW i \in new PROVE queue'[i].packet.n \in lo .. hi
    <3>1. i + 1 \in of /\ queue'[i] = queue[i + 1]
      BY <1>2
    <3> QED
      BY <1>5, <1>7, <3>1
  <2>2. ASSUME NEW n \in lo .. hi
        PROVE  \E i \in new : queue'[i].packet.n = n
    <3>1. PICK i \in of : queue[i].packet.n = n
      BY <1>5, <1>7
    <3>2. i # 1
      BY <1>7, <1>4
    <3> QED
      BY <1>3, <3>1, <3>2
  <2>3. ASSUME NEW i \in new, NEW j \in new, i < j
        PROVE  queue'[i].packet.n < queue'[j].packet.n
    <3>1. /\ i + 1 \in of /\ queue'[i] = queue[i + 1]
          /\ j + 1 \in of /\ queue'[j] = queue[j + 1]
      BY <1>2
    <3>2. i + 1 < j + 1
      BY <1>2, <2>3
    <3> QED
      BY <1>5, <1>7, <3>1, <3>2
  <2> QED
    BY <1>6, <2>1, <2>2, <2>3
<1>8. ASSUME Head(queue).from = c, NEW lo \in Int, NEW hi \in Int, Queues(c, lo, hi)
      PROVE  /\ lo <= hi /\ Head(queue).packet.n = lo
             /\ Queues(c, lo + 1, hi)'
  <2>1. 1 \in of /\ queue[1].packet.n \in lo .. hi
    BY <1>4, <1>5, <1>8
  <2>2. PICK i \in of : queue[i].packet.n = lo
    BY <1>5, <1>8, <2>1
  <2>3. i = 1
    <3>1. ASSUME i # 1 PROVE FALSE
      <4>1. 1 < i
        BY <1>3, <3>1
      <4>2. queue[1].packet.n < queue[i].packet.n
        BY <1>5, <1>8, <2>1, <4>1
      <4> QED
        BY <2>1, <2>2, <4>2
    <3> QED
      BY <3>1
  <2>4. lo <= hi /\ queue[1].packet.n = lo
    BY <2>1, <2>2, <2>3
  <2>5. ASSUME NEW j \in new
        PROVE  queue'[j].packet.n \in lo + 1 .. hi
    <3>1. j \in Nat /\ j + 1 \in of /\ queue'[j] = queue[j + 1]
      BY <1>2
    <3>2. j # 0
      BY <1>1 DEF new
    <3>3. queue[j + 1].packet.n \in lo .. hi
      BY <1>5, <1>8, <3>1
    <3>4. 1 < j + 1
      BY <3>1, <3>2
    <3>5. queue[1].packet.n < queue[j + 1].packet.n
      BY <1>5, <1>8, <2>1, <3>1, <3>4
    <3>6. \A x \in lo .. hi : lo < x => x \in lo + 1 .. hi
      OBVIOUS
    <3> QED
      BY <2>4, <3>1, <3>5, <3>3, <3>6
  <2>6. ASSUME NEW n \in lo + 1 .. hi
        PROVE  \E j \in new : queue'[j].packet.n = n
    <3>1. n \in lo .. hi /\ n # lo
      OBVIOUS
    <3>2. PICK j \in of : queue[j].packet.n = n
      BY <1>5, <1>8, <3>1
    <3>3. j # 1
      BY <2>4, <3>1, <3>2
    <3> QED
      BY <1>3, <3>2, <3>3
  <2>7. ASSUME NEW j \in new, NEW k \in new, j < k
        PROVE  queue'[j].packet.n < queue'[k].packet.n
    <3>1. /\ j + 1 \in of /\ queue'[j] = queue[j + 1]
          /\ k + 1 \in of /\ queue'[k] = queue[k + 1]
      BY <1>2
    <3>2. j + 1 < k + 1
      BY <1>2, <2>7
    <3> QED
      BY <1>5, <1>8, <3>1, <3>2
  <2>8. Queues(c, lo + 1, hi)'
    BY <1>6, <2>5, <2>6, <2>7
  <2> QED
    BY <1>1, <2>4, <2>8
<1> QED
  BY <1>7, <1>8

-----------------------------------------------------------------------------
(***************************************************************************)
(* Every step keeps the types.                                             *)
(***************************************************************************)
\* A connection takes one more packet, gives one, or breaks.
LEMMA WireAppend ==
    ASSUME NEW W \in [Peer -> Seq(Packet)], \A q \in Peer : Len(W[q]) <= MaxSocket,
           NEW p \in Peer, ~Full(W[p]), NEW m \in Packet,
           NEW V, V = [W EXCEPT ![p] = Append(@, m)]
    PROVE  V \in [Peer -> Seq(Packet)] /\ \A q \in Peer : Len(V[q]) <= MaxSocket
<1>1. /\ Append(W[p], m) \in Seq(Packet)
      /\ Len(W[p]) \in Nat /\ Len(Append(W[p], m)) = Len(W[p]) + 1
  BY AppendFacts
<1>2. Len(W[p]) # MaxSocket
  BY DEF Full
<1>3. Len(Append(W[p], m)) <= MaxSocket
  BY <1>1, <1>2
<1> QED
  BY <1>1, <1>3

LEMMA WireTail ==
    ASSUME NEW W \in [Peer -> Seq(Packet)], \A q \in Peer : Len(W[q]) <= MaxSocket,
           NEW p \in Peer, W[p] # <<>>, NEW V, V = [W EXCEPT ![p] = Tail(@)]
    PROVE  V \in [Peer -> Seq(Packet)] /\ \A q \in Peer : Len(V[q]) <= MaxSocket
<1>1. /\ Tail(W[p]) \in Seq(Packet)
      /\ Len(W[p]) \in Nat \ {0} /\ Len(Tail(W[p])) = Len(W[p]) - 1
  BY TailFacts
<1>2. Len(Tail(W[p])) <= MaxSocket
  BY <1>1
<1> QED
  BY <1>1, <1>2

LEMMA WireClear ==
    ASSUME NEW W \in [Peer -> Seq(Packet)], \A q \in Peer : Len(W[q]) <= MaxSocket,
           NEW p \in Peer, NEW V, V = [W EXCEPT ![p] = <<>>]
    PROVE  V \in [Peer -> Seq(Packet)] /\ \A q \in Peer : Len(V[q]) <= MaxSocket
<1>1. <<>> \in Seq(Packet) /\ Len(<<>>) <= MaxSocket
  BY EmptySeq
<1> QED
  BY <1>1

\* send() of a response to a client, or of anything to a controller.
LEMMA SendType ==
    ASSUME Typed, NEW p \in Peer, NEW m \in Packet, Send(p, m),
           p \in Client => m \in Response
    PROVE  /\ toPeer' \in [Peer -> Seq(Packet)]
           /\ \A q \in Peer : Len(toPeer'[q]) <= MaxSocket
           /\ \A c \in Client : toPeer'[c] \in Seq(Response)
<1>1. /\ toPeer \in [Peer -> Seq(Packet)]
      /\ \A q \in Peer : Len(toPeer[q]) <= MaxSocket
      /\ \A c \in Client : toPeer[c] \in Seq(Response)
  BY DEF Typed, TypeOK, Shape
<1>2. toPeer' = [toPeer EXCEPT ![p] = Append(@, m)] /\ ~Full(toPeer[p])
  BY DEF Send
<1>3. ASSUME NEW c \in Client
      PROVE  toPeer'[c] \in Seq(Response)
  <2>1. CASE c = p
    <3>1. Append(toPeer[p], m) \in Seq(Response)
      BY <1>1, <2>1, AppendFacts
    <3> QED
      BY <1>1, <1>2, <2>1, <3>1
  <2>2. CASE c # p
    BY <1>1, <1>2, <2>2, PeerFacts
  <2> QED
    BY <2>1, <2>2
<1> QED
  BY <1>1, <1>2, <1>3, WireAppend

\* send() of a request, a result or an enquiry to the center.
LEMMA AskType ==
    ASSUME Typed, NEW p \in Peer, NEW m \in Sends(p), ~Full(toCenter[p]),
           toCenter' = [toCenter EXCEPT ![p] = Append(@, m)]
    PROVE  /\ toCenter' \in [Peer -> Seq(Packet)]
           /\ \A q \in Peer : Len(toCenter'[q]) <= MaxSocket
           /\ \A q \in Peer : toCenter'[q] \in Seq(Sends(q))
<1>1. /\ toCenter \in [Peer -> Seq(Packet)]
      /\ \A q \in Peer : Len(toCenter[q]) <= MaxSocket
      /\ \A q \in Peer : toCenter[q] \in Seq(Sends(q))
  BY DEF Typed, TypeOK, Shape
<1>2. m \in Packet
  BY SendsFacts
<1>3. Append(toCenter[p], m) \in Seq(Sends(p))
  BY <1>1, AppendFacts
<1>4. \A q \in Peer : toCenter'[q] \in Seq(Sends(q))
  BY <1>1, <1>3
<1> QED
  BY <1>1, <1>2, <1>4, WireAppend

\* The peers.
LEMMA PeerType ==
    ASSUME Inv,
           \/ \E c \in Client : Ask(c) \/ Read(c)
           \/ \E k \in Controller : Link(k) \/ LinkEnquire(k) \/ Vanish(k) \/ Sweep(k)
    PROVE  Typed'
<1> USE DEF Inv, Typed
<1>1. ASSUME NEW c \in Client, Ask(c) PROVE Typed'
  <2>1. c \in Peer
    BY PeerFacts
  <2>2. PICK m \in Request :
            /\ m.n = asked[c] + 1 /\ (m.op = "other" <=> m.to = None)
            /\ toCenter' = [toCenter EXCEPT ![c] = Append(@, m)]
    BY <1>1 DEF Ask
  <2>3. m \in Sends(c)
    BY <2>1, <2>2, SendsFacts DEF Asks
  <2>4. /\ toCenter' \in [Peer -> Seq(Packet)]
        /\ \A q \in Peer : Len(toCenter'[q]) <= MaxSocket
        /\ \A q \in Peer : toCenter'[q] \in Seq(Sends(q))
    BY <1>1, <2>1, <2>2, <2>3, AskType DEF Ask
  <2>5. /\ asked' \in [Client -> Nat]
        /\ \A d \in Client : got[d] <= asked'[d] /\ asked'[d] <= MaxRequest[d]
    BY <1>1 DEF Ask, TypeOK
  <2> QED
    BY <1>1, <2>4, <2>5 DEF Ask, TypeOK, Shape, ctrl
<1>2. ASSUME NEW c \in Client, Read(c) PROVE Typed'
  <2>1. c \in Peer /\ toPeer[c] \in Seq(Response) /\ toPeer[c] # <<>>
        /\ toPeer' = [toPeer EXCEPT ![c] = Tail(@)]
    BY <1>2, PeerFacts DEF Read, Shape
  <2>2. /\ toPeer' \in [Peer -> Seq(Packet)]
        /\ \A q \in Peer : Len(toPeer'[q]) <= MaxSocket
    BY <2>1, WireTail DEF TypeOK
  <2>3. \A d \in Client : toPeer'[d] \in Seq(Response)
    <3>1. Tail(toPeer[c]) \in Seq(Response)
      BY <2>1, TailFacts
    <3> QED
      BY <2>1, <3>1, PeerFacts DEF Shape, TypeOK
  <2>4. got[c] + 1 <= asked[c]
    <3>1. Len(toPeer[c]) \in Nat \ {0}
      BY <2>1, TailFacts
    <3>2. Taken(c) <= Posted(c)
      BY DEF OneResponseEach
    <3>3. /\ Replied(c) >= got[c] + 1 /\ Received(c) <= asked[c]
      <4>1. got[c] \in Nat /\ asked[c] \in Nat /\ Len(toCenter[c]) \in Nat
        BY CountType
      <4> QED
        BY <3>1, <4>1 DEF Replied, Received
    <3>4. Taken(c) >= Replied(c) /\ Posted(c) <= Received(c)
      BY CountBounds
    <3> QED
      BY <3>2, <3>3, <3>4, CountType
  <2>5. /\ got' \in [Client -> Nat]
        /\ \A d \in Client : got'[d] <= asked[d]
    BY <1>2, <2>4 DEF Read, TypeOK
  <2> QED
    BY <1>2, <2>2, <2>3, <2>5 DEF Read, TypeOK, Shape, ctrl
<1>3. ASSUME NEW k \in Controller, LinkReceive(k) PROVE Typed'
  <2>1. /\ toPeer' \in [Peer -> Seq(Packet)]
        /\ \A q \in Peer : Len(toPeer'[q]) <= MaxSocket
    BY <1>3, PeerFacts, WireTail DEF LinkReceive, TypeOK
  <2>2. \A d \in Client : toPeer'[d] = toPeer[d]
    BY <1>3, PeerFacts DEF LinkReceive, TypeOK
  <2>3. result' \in [Controller -> BOOLEAN]
    BY <1>3 DEF LinkReceive, TypeOK
  <2> QED
    BY <1>3, <2>1, <2>2, <2>3 DEF LinkReceive, TypeOK, Shape, client
<1>4. ASSUME NEW k \in Controller, LinkRespond(k) \/ LinkEnquire(k) PROVE Typed'
  <2>1. k \in Peer /\ Sends(k) = {Result, Enquire}
    BY PeerFacts, SendsFacts
  <2>2. /\ toCenter' \in [Peer -> Seq(Packet)]
        /\ \A q \in Peer : Len(toCenter'[q]) <= MaxSocket
        /\ \A q \in Peer : toCenter'[q] \in Seq(Sends(q))
    BY <1>4, <2>1, AskType DEF LinkRespond, LinkEnquire
  <2>3. result' \in [Controller -> BOOLEAN] /\ enquired' \in [Controller -> 0 .. MaxEnquire]
    <3>1. CASE LinkRespond(k)
      BY <3>1 DEF LinkRespond, TypeOK
    <3>2. CASE LinkEnquire(k)
      <4>1. enquired[k] + 1 \in 0 .. MaxEnquire
        BY <3>2 DEF LinkEnquire, TypeOK
      <4> QED
        BY <3>2, <4>1 DEF LinkEnquire, TypeOK
    <3> QED
      BY <1>4, <3>1, <3>2
  <2> QED
    BY <1>4, <2>2, <2>3 DEF LinkRespond, LinkEnquire, TypeOK, Shape, client
<1>5. ASSUME NEW k \in Controller, Vanish(k) PROVE Typed'
  <2>1. /\ toCenter' \in [Peer -> Seq(Packet)]
        /\ \A q \in Peer : Len(toCenter'[q]) <= MaxSocket
        /\ toPeer' \in [Peer -> Seq(Packet)]
        /\ \A q \in Peer : Len(toPeer'[q]) <= MaxSocket
    BY <1>5, PeerFacts, WireClear DEF Vanish, TypeOK
  <2>2. \A q \in Peer : <<>> \in Seq(Sends(q))
    BY EmptySeq
  <2>3. \A q \in Peer : toCenter'[q] \in Seq(Sends(q))
    BY <1>5, <2>2 DEF Vanish, TypeOK, Shape
  <2>4. \A d \in Client : toPeer'[d] = toPeer[d]
    BY <1>5, PeerFacts DEF Vanish, TypeOK
  <2> QED
    BY <1>5, <2>1, <2>3, <2>4 DEF Vanish, TypeOK, Shape, client
<1>6. ASSUME NEW k \in Controller, Sweep(k) PROVE Typed'
  BY <1>6 DEF Sweep, TypeOK, Shape, client, wire
<1> QED
  BY <1>1, <1>2, <1>3, <1>4, <1>5, <1>6 DEF Link

\* The handler threads.
LEMMA HandlerType ==
    ASSUME Inv,
           \/ \E p \in Peer : Handler(p)
           \/ \E k \in Controller : HandlerAnswer(k)
    PROVE  Typed'
<1> USE DEF Inv, Typed
<1>1. ASSUME NEW p \in Peer, HandlerReceive(p) PROVE Typed'
  <2>1. /\ toCenter[p] \in Seq(Sends(p)) /\ toCenter[p] # <<>>
        /\ toCenter' = [toCenter EXCEPT ![p] = Tail(@)]
        /\ hold' = [hold EXCEPT ![p] = Head(toCenter[p])]
    BY <1>1 DEF HandlerReceive, Shape
  <2>2. Head(toCenter[p]) \in Sends(p) /\ Tail(toCenter[p]) \in Seq(Sends(p))
    BY <2>1, TailFacts
  <2>3. /\ toCenter' \in [Peer -> Seq(Packet)]
        /\ \A q \in Peer : Len(toCenter'[q]) <= MaxSocket
    BY <2>1, WireTail DEF TypeOK
  <2>4. /\ \A q \in Peer : toCenter'[q] \in Seq(Sends(q))
        /\ \A q \in Peer : hold'[q] \in Sends(q) \cup {None}
    BY <2>1, <2>2 DEF TypeOK, Shape
  <2>5. hold' \in [Peer -> Packet \cup {None}]
    BY <2>1, <2>2, SendsFacts DEF TypeOK
  <2> QED
    BY <1>1, <2>3, <2>4, <2>5 DEF HandlerReceive, TypeOK, Shape, client, ctrl
<1>2. ASSUME NEW p \in Peer, HandlerPost(p) PROVE Typed'
  <2>1. hold[p] \in Sends(p) \ {Enquire}
    BY <1>2 DEF HandlerPost, Shape
  <2>2. [from |-> p, packet |-> hold[p]] \in Mail
    BY <2>1, MailFacts
  <2>3. queue \in Seq(Message) /\ queue \in Seq(Mail) /\ Mail \subseteq Message
    BY MailFacts DEF TypeOK, Shape
  <2>4. /\ queue' \in Seq(Mail) /\ queue' \in Seq(Message)
        /\ Len(queue) \in Nat /\ Len(queue') = Len(queue) + 1
    BY <1>2, <2>2, <2>3, AppendFacts DEF HandlerPost
  <2>5. Len(queue') <= MaxQueue
    BY <1>2, <2>4 DEF HandlerPost
  <2> QED
    BY <1>2, <2>4, <2>5 DEF HandlerPost, TypeOK, Shape, wire, client, ctrl
<1>3. ASSUME NEW k \in Controller, HandlerAnswer(k) PROVE Typed'
  <2>1. k \in Peer /\ k \notin Client
    BY PeerFacts
  <2>2. Alive \in Packet
    BY PacketFacts
  <2>3. /\ toPeer' \in [Peer -> Seq(Packet)]
        /\ \A q \in Peer : Len(toPeer'[q]) <= MaxSocket
        /\ \A c \in Client : toPeer'[c] \in Seq(Response)
    <3>1. CASE up[k]
      BY <1>3, <2>1, <2>2, <3>1, SendType DEF HandlerAnswer
    <3>2. CASE ~up[k]
      BY <1>3, <3>2 DEF HandlerAnswer, TypeOK, Shape
    <3> QED
      BY <3>1, <3>2
  <2> QED
    BY <1>3, <2>1, <2>3 DEF HandlerAnswer, TypeOK, Shape, client, ctrl
<1> QED
  BY <1>1, <1>2, <1>3 DEF Handler

\* The main thread.
LEMMA MainType ==
    ASSUME Inv, Main
    PROVE  Typed'
<1> USE DEF Inv, Typed
<1>1. CASE Dequeue
  <2>1. queue # <<>> /\ queue' = Tail(queue) /\ queue \in Seq(Mail)
    BY <1>1 DEF Dequeue, Shape
  <2>2. /\ Head(queue) \in Mail
        /\ queue' \in Seq(Mail) /\ queue' \in Seq(Message)
        /\ Len(queue) \in Nat \ {0} /\ Len(queue') = Len(queue) - 1
    BY <2>1, TailFacts DEF TypeOK
  <2>3. Len(queue') <= MaxQueue
    BY <2>2 DEF TypeOK
  <2>4. job' # None => /\ job' \in Job /\ job'.packet \in Asks
                       /\ job'.todo # "forward"
                       /\ job'.todo = "try" => job'.packet.op = "state"
    <3> DEFINE m == Head(queue)
               todo == IF m.packet.op = "state" THEN "try" ELSE "reply"
    <3>1. CASE m.packet = Result
      BY <1>1, <3>1 DEF Dequeue
    <3>2. CASE m.packet # Result
      <4>1. m.from \in Client /\ m.packet \in Asks
        BY <2>2, <3>2, MailFacts
      <4>2. m.packet \in Request
        BY <4>1 DEF Asks
      <4>3. job' = [from |-> m.from, packet |-> m.packet, todo |-> todo]
        BY <1>1, <3>2 DEF Dequeue
      <4>4. todo \in {"reply", "try"} /\ (todo = "try" => m.packet.op = "state")
        OBVIOUS
      <4> HIDE DEF m, todo
      <4> QED
        BY <4>1, <4>2, <4>3, <4>4 DEF Job
    <3> QED
      BY <3>1, <3>2
  <2> QED
    BY <1>1, <2>2, <2>3, <2>4 DEF Dequeue, TypeOK, Shape, wire, client, ctrl
<1>2. ASSUME job # None
      PROVE  /\ job \in Job /\ job.from \in Client /\ job.packet \in Asks
             /\ job.packet \in Request /\ job.todo \in {"reply", "forward", "try"}
             /\ job.packet.n \in Number
             /\ job.todo \in {"forward", "try"} =>
                    job.packet.to \in Controller
  <2>1. job \in Job /\ job.packet \in Asks
    BY <1>2 DEF TypeOK, Shape
  <2>2. /\ job.from \in Client /\ job.packet \in Request
        /\ job.todo \in {"reply", "forward", "try"}
    BY <2>1 DEF Job
  <2>3. job.packet.n \in Number
    BY <2>2 DEF Request
  <2>4. job.todo \in {"forward", "try"} => job.packet.op # "other"
    BY <1>2 DEF Shape
  <2> QED
    BY <2>1, <2>2, <2>3, <2>4, PacketFacts
<1>3. ASSUME job # None, NEW todo \in {"reply", "forward", "try", "idle"}, Then(todo),
             todo = "forward" => job.packet.op = "set", todo # "try"
      PROVE  /\ job' \in Job \cup {None}
             /\ job' # None => /\ job'.packet \in Asks
                               /\ job'.todo = "forward" => job'.packet.op = "set"
                               /\ job'.todo = "try" => job'.packet.op = "state"
  <2>1. CASE todo = "idle"
    BY <1>3, <2>1 DEF Then
  <2>2. CASE todo # "idle"
    <3>1. job' = [job EXCEPT !.todo = todo] /\ job \in Job
      BY <1>2, <1>3, <2>2 DEF Then
    <3>2. job' \in Job /\ job'.packet = job.packet /\ job'.todo = todo
      BY <1>3, <2>2, <3>1 DEF Job
    <3> QED
      BY <1>2, <1>3, <3>2
  <2> QED
    BY <2>1, <2>2
<1>4. ASSUME job # None, NEW m, m = [op |-> "response", to |-> None, n |-> job.packet.n]
      PROVE  m \in Response
  BY <1>2, <1>4 DEF Response
<1>5. ASSUME NEW k \in Controller, Send(k, Command)
      PROVE  /\ toPeer' \in [Peer -> Seq(Packet)]
             /\ \A q \in Peer : Len(toPeer'[q]) <= MaxSocket
             /\ \A c \in Client : toPeer'[c] \in Seq(Response)
  BY <1>5, PeerFacts, PacketFacts, SendType
<1>6. CASE Reply
  <2> DEFINE m == [op |-> "response", to |-> None, n |-> job.packet.n]
             todo == IF job.packet.op = "set" THEN "forward" ELSE "idle"
  <2>1. job # None /\ Send(job.from, m) /\ Then(todo)
    BY <1>6 DEF Reply
  <2>2. m \in Response
    BY <1>4, <2>1
  <2>3. todo \in {"forward", "idle"} /\ (todo = "forward" => job.packet.op = "set")
    OBVIOUS
  <2> HIDE DEF m, todo
  <2>4. job.from \in Peer
    BY <1>2, <2>1, PeerFacts
  <2>5. m \in Packet
    BY <2>2, PacketFacts
  <2>6. /\ toPeer' \in [Peer -> Seq(Packet)]
        /\ \A q \in Peer : Len(toPeer'[q]) <= MaxSocket
        /\ \A c \in Client : toPeer'[c] \in Seq(Response)
    BY <2>1, <2>2, <2>4, <2>5, SendType
  <2>7. todo \in {"reply", "forward", "try", "idle"} /\ todo # "try"
    BY <2>3
  <2>8. /\ job' \in Job \cup {None}
        /\ job' # None => /\ job'.packet \in Asks
                          /\ job'.todo = "forward" => job'.packet.op = "set"
                          /\ job'.todo = "try" => job'.packet.op = "state"
    BY <1>3, <2>1, <2>3, <2>7
  <2> QED
    BY <1>6, <2>6, <2>8 DEF Reply, TypeOK, Shape, client, ctrl
<1>7. CASE Forward \/ ForwardFails
  <2>1. /\ job # None /\ job.packet.to \in Controller /\ Then("idle")
    BY <1>2, <1>7 DEF Forward, ForwardFails
  <2>2. job' = None
    BY <2>1 DEF Then
  <2>3. /\ toPeer' \in [Peer -> Seq(Packet)]
        /\ \A q \in Peer : Len(toPeer'[q]) <= MaxSocket
        /\ \A c \in Client : toPeer'[c] \in Seq(Response)
    <3>1. CASE Forward
      BY <1>5, <2>1, <3>1 DEF Forward
    <3>2. CASE ForwardFails
      BY <3>2 DEF ForwardFails, TypeOK, Shape, wire
    <3> QED
      BY <1>7, <3>1, <3>2
  <2> QED
    BY <1>7, <2>2, <2>3 DEF Forward, ForwardFails, TypeOK, Shape, wire, client, ctrl
<1>8. CASE Try
  <2>1. /\ job # None /\ job.packet.to \in Controller /\ Then("reply")
    BY <1>2, <1>8 DEF Try
  <2>2. /\ job' \in Job \cup {None}
        /\ job' # None => /\ job'.packet \in Asks
                          /\ job'.todo = "forward" => job'.packet.op = "set"
                          /\ job'.todo = "try" => job'.packet.op = "state"
    BY <1>3, <2>1
  <2>3. /\ toPeer' \in [Peer -> Seq(Packet)]
        /\ \A q \in Peer : Len(toPeer'[q]) <= MaxSocket
        /\ \A c \in Client : toPeer'[c] \in Seq(Response)
    <3>1. CASE Unreachable(job.packet.to)
      BY <1>8, <3>1 DEF Try, TypeOK, Shape
    <3>2. CASE ~Unreachable(job.packet.to)
      BY <1>5, <1>8, <2>1, <3>2 DEF Try
    <3> QED
      BY <3>1, <3>2
  <2> QED
    BY <1>8, <2>2, <2>3 DEF Try, TypeOK, Shape, client, ctrl
<1> QED
  BY <1>1, <1>6, <1>7, <1>8 DEF Main

LEMMA TypeStep == Inv /\ [Next]_vars => Typed'
<1> SUFFICES ASSUME Inv, [Next]_vars PROVE Typed'
  OBVIOUS
<1>1. CASE UNCHANGED vars
  BY <1>1 DEF Inv, Typed, TypeOK, Shape, vars, wire, client, ctrl
<1>2. CASE Next
  BY <1>2, PeerType, HandlerType, MainType DEF Next
<1> QED
  BY <1>1, <1>2

-----------------------------------------------------------------------------
(***************************************************************************)
(* Every step keeps the order of a client's requests.                      *)
(***************************************************************************)
LEMMA OneOrdered == OneResponseEach <=> \A c \in Client : Ordered(c)
BY DEF OneResponseEach, Ordered

\* The packets of a client, as Shape and Ordered say.
LEMMA ClientFacts ==
    ASSUME Inv, NEW c \in Client
    PROVE  /\ TypeOK /\ Shape /\ Ordered(c)
           /\ c \in Peer /\ Sends(c) = Asks
           /\ toCenter[c] \in Seq(Asks) /\ toPeer[c] \in Seq(Response)
           /\ hold[c] \in Asks \cup {None}
           /\ queue \in Seq(Mail)
<1>1. c \in Peer /\ Sends(c) = Asks
  BY PeerFacts, SendsFacts
<1> QED
  BY <1>1, OneOrdered DEF Inv, Typed, Shape

\* A step that changes neither queue nor job, and nothing of c.
LEMMA ClientFrame ==
    ASSUME Inv, NEW c \in Client, queue' = queue, job' = job,
           toPeer'[c] = toPeer[c], toCenter'[c] = toCenter[c],
           got'[c] = got[c], asked'[c] = asked[c], hold'[c] = hold[c]
    PROVE  Ordered(c)'
<1>1. Handling(c)' <=> Handling(c)
  BY DEF Handling
<1> QED
  BY <1>1, ClientFacts, OrderFrame, QueueFrame

\* The same facts about c, with its four counts after the step given.
LEMMA OrderBy ==
    ASSUME NEW c \in Client, NEW t \in Nat, NEW p \in Int, NEW r \in Int,
           Taken(c)' = t, Posted(c)' = p, Received(c)' = r,
           \A i \in DOMAIN toPeer'[c] : toPeer'[c][i].n = got'[c] + i,
           Handling(c)' => job'.packet.n = t,
           t <= p,
           Queues(c, t + 1, p)',
           hold'[c] # None => hold'[c].n = r,
           \A i \in DOMAIN toCenter'[c] : toCenter'[c][i].n = r + i
    PROVE  Ordered(c)'
<1>1. Queues(c, Taken(c) + 1, Posted(c))'
  <2> DEFINE lo == Taken(c) + 1
             hi == Posted(c)
  <2>1. lo' = t + 1 /\ hi' = p
    OBVIOUS
  <2> HIDE DEF lo, hi
  <2>2. Queues(c, lo, hi)'
    BY <2>1 DEF Queues
  <2> QED
    BY <2>2 DEF lo, hi
<1> QED
  BY <1>1 DEF Ordered

LEMMA Shifts ==
    \A a, b \in Int : (a + 1) + (b - 1) = a + b /\ a + (b + 1) = (a + b) + 1
OBVIOUS

LEMMA AskOrder ==
    ASSUME Inv, NEW c \in Client, Ask(c)
    PROVE  Ordered(c)'
<1>1. /\ toCenter[c] \in Seq(Asks) /\ Ordered(c) /\ TypeOK /\ c \in Peer
  BY ClientFacts
<1>2. PICK m \in Asks : /\ m.n = asked[c] + 1
                        /\ toCenter' = [toCenter EXCEPT ![c] = Append(@, m)]
  BY DEF Ask, Asks
<1>3. /\ toCenter'[c] = Append(toCenter[c], m) /\ asked'[c] = asked[c] + 1
      /\ UNCHANGED <<toPeer, hold, queue, job, got>>
  BY <1>1, <1>2 DEF Ask, TypeOK
<1> DEFINE l == Len(toCenter[c])
<1>4. /\ l \in Nat /\ DOMAIN toCenter[c] = 1 .. l
      /\ Len(toCenter'[c]) = l + 1
      /\ DOMAIN toCenter'[c] = 1 .. l + 1
      /\ \A i \in 1 .. l : toCenter'[c][i] = toCenter[c][i]
      /\ toCenter'[c][l + 1] = m
  BY <1>1, <1>3, AppendFacts
<1>5. /\ asked[c] \in Nat /\ Received(c) \in Int /\ Taken(c) \in Nat /\ Posted(c) \in Int
      /\ Received(c) = asked[c] - l
  BY <1>1, CountType DEF Received
<1> HIDE DEF l
<1>6. Received(c)' = Received(c)
  <2>1. Received(c)' = (asked[c] + 1) - (l + 1)
    BY <1>3, <1>4 DEF Received
  <2> QED
    BY <1>4, <1>5, <2>1
<1>7. /\ Handling(c)' <=> Handling(c)
      /\ Taken(c)' = Taken(c)
      /\ Posted(c)' = Posted(c)
  BY <1>3, <1>6 DEF Handling, Taken, Replied, Posted
<1>8. ASSUME NEW i \in DOMAIN toCenter'[c]
      PROVE  toCenter'[c][i].n = Received(c) + i
  <2>1. CASE i \in 1 .. l
    BY <1>1, <1>4, <2>1 DEF Ordered
  <2>2. CASE i = l + 1
    <3>1. toCenter'[c][i].n = asked[c] + 1
      BY <1>2, <1>4, <2>2
    <3> QED
      BY <1>4, <1>5, <2>2, <3>1
  <2>3. i \in 1 .. l \/ i = l + 1
    BY <1>4
  <2> QED
    BY <2>1, <2>2, <2>3
<1>9. Queues(c, Taken(c) + 1, Posted(c)) /\ \A lo, hi : Queues(c, lo, hi) => Queues(c, lo, hi)'
  BY <1>1, <1>3, QueueFrame DEF Ordered
<1>10. /\ \A i \in DOMAIN toPeer'[c] : toPeer'[c][i].n = got'[c] + i
       /\ Handling(c)' => job'.packet.n = Taken(c)
       /\ Taken(c) <= Posted(c)
       /\ hold'[c] # None => hold'[c].n = Received(c)
  BY <1>1, <1>3, <1>7 DEF Ordered
<1> QED
  BY <1>5, <1>6, <1>7, <1>8, <1>9, <1>10, OrderBy

LEMMA ReadOrder ==
    ASSUME Inv, NEW c \in Client, Read(c)
    PROVE  Ordered(c)'
<1>1. /\ toPeer[c] \in Seq(Response) /\ Ordered(c) /\ TypeOK /\ c \in Peer
  BY ClientFacts
<1>2. /\ toPeer[c] # <<>> /\ toPeer'[c] = Tail(toPeer[c]) /\ got'[c] = got[c] + 1
      /\ UNCHANGED <<toCenter, hold, queue, job, asked>>
  BY <1>1 DEF Read, TypeOK
<1> DEFINE l == Len(toPeer[c])
<1>3. /\ l \in Nat /\ DOMAIN toPeer[c] = 1 .. l
      /\ Len(toPeer'[c]) = l - 1
      /\ DOMAIN toPeer'[c] = 1 .. l - 1
      /\ \A i \in 1 .. l - 1 : toPeer'[c][i] = toPeer[c][i + 1]
  BY <1>1, <1>2, TailFacts
<1>4. /\ got[c] \in Nat /\ Received(c) \in Int /\ Taken(c) \in Nat /\ Posted(c) \in Int
      /\ Replied(c) = got[c] + l
  BY <1>1, CountType DEF Replied
<1> HIDE DEF l
<1>5. Replied(c)' = Replied(c)
  <2>1. Replied(c)' = got'[c] + Len(toPeer'[c])
    BY DEF Replied
  <2>2. Replied(c)' = (got[c] + 1) + (l - 1)
    BY <1>2, <1>3, <2>1
  <2>3. (got[c] + 1) + (l - 1) = got[c] + l
    <3>1. got[c] \in Int /\ l \in Int
      BY <1>3, <1>4
    <3> QED
      BY <3>1, Shifts
  <2> QED
    BY <1>4, <2>2, <2>3
<1>6. /\ Handling(c)' <=> Handling(c)
      /\ Taken(c)' = Taken(c)
      /\ Received(c)' = Received(c)
      /\ Posted(c)' = Posted(c)
  BY <1>2, <1>5 DEF Handling, Taken, Received, Posted
<1>7. ASSUME NEW i \in DOMAIN toPeer'[c]
      PROVE  toPeer'[c][i].n = got'[c] + i
  <2>1. i \in Nat /\ i + 1 \in DOMAIN toPeer[c] /\ toPeer'[c][i] = toPeer[c][i + 1]
    BY <1>3
  <2>2. toPeer[c][i + 1].n = got[c] + (i + 1)
    BY <1>1, <2>1 DEF Ordered
  <2>3. got'[c] + i = got[c] + (i + 1)
    BY <1>2, <1>4, <2>1
  <2> QED
    BY <2>1, <2>2, <2>3
<1>8. Queues(c, Taken(c) + 1, Posted(c)) /\ \A lo, hi : Queues(c, lo, hi) => Queues(c, lo, hi)'
  BY <1>1, <1>2, QueueFrame DEF Ordered
<1>9. /\ Handling(c)' => job'.packet.n = Taken(c)
      /\ Taken(c) <= Posted(c)
      /\ hold'[c] # None => hold'[c].n = Received(c)
      /\ \A i \in DOMAIN toCenter'[c] : toCenter'[c][i].n = Received(c) + i
  BY <1>1, <1>2, <1>6 DEF Ordered
<1> QED
  BY <1>4, <1>6, <1>7, <1>8, <1>9, OrderBy

LEMMA ReceiveOrder ==
    ASSUME Inv, NEW c \in Client, HandlerReceive(c)
    PROVE  Ordered(c)'
<1>1. /\ toCenter[c] \in Seq(Asks) /\ Ordered(c) /\ TypeOK /\ c \in Peer
  BY ClientFacts
<1>2. /\ toCenter[c] # <<>> /\ toCenter'[c] = Tail(toCenter[c])
      /\ hold[c] = None /\ hold'[c] = Head(toCenter[c])
      /\ UNCHANGED <<toPeer, queue, job, got, asked>>
  BY <1>1 DEF HandlerReceive, TypeOK, client
<1> DEFINE l == Len(toCenter[c])
<1>3. /\ l \in Nat \ {0} /\ DOMAIN toCenter[c] = 1 .. l
      /\ Len(toCenter'[c]) = l - 1
      /\ DOMAIN toCenter'[c] = 1 .. l - 1
      /\ \A i \in 1 .. l - 1 : toCenter'[c][i] = toCenter[c][i + 1]
      /\ hold'[c] = toCenter[c][1] /\ hold'[c] \in Asks
  BY <1>1, <1>2, TailFacts
<1>4. hold'[c] # None
  BY <1>3, PacketFacts
<1>5. /\ asked[c] \in Nat /\ Received(c) \in Int /\ Taken(c) \in Nat /\ Posted(c) \in Int
      /\ Received(c) = asked[c] - l
  BY <1>1, CountType DEF Received
<1> HIDE DEF l
<1>6. Received(c)' = Received(c) + 1
  <2>1. Received(c)' = asked[c] - (l - 1)
    BY <1>2, <1>3 DEF Received
  <2> QED
    BY <1>3, <1>5, <2>1
<1>7. Posted(c)' = Posted(c)
  <2>1. Posted(c) = Received(c)
    BY <1>2, <1>5 DEF Posted
  <2>2. Posted(c)' = Received(c)' - 1
    BY <1>4 DEF Posted
  <2> QED
    BY <1>5, <1>6, <2>1, <2>2
<1>8. /\ Handling(c)' <=> Handling(c)
      /\ Taken(c)' = Taken(c)
  BY <1>2 DEF Handling, Taken, Replied
<1>9. hold'[c].n = Received(c) + 1
  BY <1>1, <1>3 DEF Ordered
<1>10. ASSUME NEW i \in DOMAIN toCenter'[c]
       PROVE  toCenter'[c][i].n = (Received(c) + 1) + i
  <2>1. i \in Nat /\ i + 1 \in DOMAIN toCenter[c] /\ toCenter'[c][i] = toCenter[c][i + 1]
    BY <1>3
  <2>2. toCenter[c][i + 1].n = Received(c) + (i + 1)
    BY <1>1, <2>1 DEF Ordered
  <2>3. Received(c) + (i + 1) = (Received(c) + 1) + i
    BY <1>5, <2>1
  <2> QED
    BY <2>1, <2>2, <2>3
<1>11. Queues(c, Taken(c) + 1, Posted(c)) /\ \A lo, hi : Queues(c, lo, hi) => Queues(c, lo, hi)'
  BY <1>1, <1>2, QueueFrame DEF Ordered
<1>12. /\ \A i \in DOMAIN toPeer'[c] : toPeer'[c][i].n = got'[c] + i
       /\ Handling(c)' => job'.packet.n = Taken(c)
       /\ Taken(c) <= Posted(c)
  BY <1>1, <1>2, <1>8 DEF Ordered
<1>13. Received(c) + 1 \in Int
  BY <1>5
<1> QED
  BY <1>5, <1>6, <1>7, <1>8, <1>9, <1>10, <1>11, <1>12, <1>13, OrderBy

LEMMA PostOrder ==
    ASSUME Inv, NEW p \in Peer, HandlerPost(p), NEW c \in Client
    PROVE  Ordered(c)'
<1> DEFINE m == [from |-> p, packet |-> hold[p]]
<1>1. /\ Ordered(c) /\ TypeOK /\ Shape /\ c \in Peer /\ queue \in Seq(Mail)
  BY ClientFacts
<1>2. /\ hold[p] \notin {None, Enquire} /\ queue' = Append(queue, m)
      /\ hold' = [hold EXCEPT ![p] = None]
      /\ UNCHANGED <<toCenter, toPeer, job, got, asked>>
  BY DEF HandlerPost, wire, client
<1>3. m \in Mail /\ m.from = p /\ m.packet = hold[p]
  BY <1>1, <1>2, MailFacts DEF Shape
<1> HIDE DEF m
<1>4. /\ Handling(c)' <=> Handling(c)
      /\ Taken(c)' = Taken(c)
      /\ Received(c)' = Received(c)
  BY <1>2 DEF Handling, Taken, Replied, Received
<1>5. CASE c # p
  <2>1. hold'[c] = hold[c]
    BY <1>1, <1>2, <1>5 DEF TypeOK
  <2>2. \A lo, hi : Queues(c, lo, hi) => Queues(c, lo, hi)'
    BY <1>1, <1>2, <1>3, <1>5, QueueOther
  <2> QED
    BY <1>1, <1>2, <1>4, <2>1, <2>2, OrderFrame
<1>6. CASE c = p
  <2>1. hold[c] # None /\ hold'[c] = None
    BY <1>1, <1>2, <1>6 DEF TypeOK
  <2>2. /\ Taken(c) \in Nat /\ Posted(c) \in Int /\ Received(c) \in Int
        /\ Posted(c) = Received(c) - 1
    BY <1>1, <2>1, CountType, CountBounds
  <2>3. Posted(c)' = Posted(c) + 1
    <3>1. Posted(c)' = Received(c)' - 0
      BY <2>1 DEF Posted
    <3> QED
      BY <1>4, <2>2, <3>1
  <2>4. Received(c) = Posted(c) + 1
    BY <2>2
  <2>5. /\ m.packet.n = Posted(c) + 1
        /\ Taken(c) <= Posted(c)
        /\ Queues(c, Taken(c) + 1, Posted(c))
    BY <1>1, <1>3, <1>6, <2>1, <2>4 DEF Ordered
  <2>6. /\ Taken(c) + 1 \in Int /\ Posted(c) + 1 \in Int
        /\ Taken(c) + 1 <= Posted(c) + 1 /\ Taken(c) <= Posted(c) + 1
    BY <2>2, <2>5
  <2>7. ASSUME NEW lo \in Int, NEW hi \in Int, lo = Taken(c) + 1, hi = Posted(c)
        PROVE  Queues(c, lo, hi + 1)'
    BY <1>1, <1>2, <1>3, <1>6, <2>5, <2>6, <2>7, QueueOwn
  <2>8. /\ \A i \in DOMAIN toPeer'[c] : toPeer'[c][i].n = got'[c] + i
        /\ Handling(c)' => job'.packet.n = Taken(c)
        /\ \A i \in DOMAIN toCenter'[c] : toCenter'[c][i].n = Received(c) + i
    BY <1>1, <1>2, <1>4 DEF Ordered
  <2>9. ASSUME NEW t \in Nat, NEW h \in Int, t = Taken(c), h = Posted(c) + 1
        PROVE  Queues(c, t + 1, h)'
    BY <2>2, <2>6, <2>7, <2>9
  <2> QED
    BY <1>4, <2>1, <2>2, <2>3, <2>6, <2>8, <2>9, OrderBy
<1> QED
  BY <1>5, <1>6
\* The main thread takes a request of c, or something else.
LEMMA DequeueOrder ==
    ASSUME Inv, Dequeue, NEW c \in Client
    PROVE  Ordered(c)'
<1> DEFINE m == Head(queue)
<1>1. /\ Ordered(c) /\ TypeOK /\ c \in Peer /\ queue \in Seq(Mail)
  BY ClientFacts
<1>2. /\ job = None /\ queue # <<>> /\ queue' = Tail(queue)
      /\ UNCHANGED <<toCenter, toPeer, hold, got, asked>>
  BY DEF Dequeue, wire, client
<1>3. /\ m \in Mail
      /\ m.packet = Result => job' = None
      /\ m.packet # Result => /\ job' # None /\ job'.from = m.from
                              /\ job'.packet = m.packet /\ job'.todo # "forward"
  <2>1. m \in Mail
    BY <1>1, <1>2, TailFacts
  <2>2. ASSUME m.packet # Result
        PROVE  /\ job' # None /\ job'.from = m.from
               /\ job'.packet = m.packet /\ job'.todo # "forward"
    <3> DEFINE todo == IF m.packet.op = "state" THEN "try" ELSE "reply"
    <3>1. job' = [from |-> m.from, packet |-> m.packet, todo |-> todo]
      BY <2>2 DEF Dequeue
    <3>2. m.from \in Client /\ m.packet \in Request
      BY <2>1, <2>2, MailFacts DEF Asks
    <3>3. todo \in {"reply", "try"}
      OBVIOUS
    <3> HIDE DEF m, todo
    <3>4. [from |-> m.from, packet |-> m.packet, todo |-> todo] \in Job
      BY <3>2, <3>3 DEF Job
    <3> QED
      BY <3>1, <3>3, <3>4
  <2> QED
    BY <2>1, <2>2 DEF Dequeue
<1>4. /\ m.from # c => \A lo, hi : Queues(c, lo, hi) => Queues(c, lo, hi)'
      /\ m.from = c => \A lo, hi \in Int : Queues(c, lo, hi) =>
                           /\ lo <= hi /\ m.packet.n = lo
                           /\ Queues(c, lo + 1, hi)'
  BY <1>1, <1>2, QueueTail
<1> HIDE DEF m
<1>5. ~Handling(c)
  BY <1>2 DEF Handling
<1>6. CASE m.from # c
  <2>1. ~Handling(c)'
    BY <1>3, <1>6 DEF Handling
  <2> QED
    BY <1>1, <1>2, <1>4, <1>5, <1>6, <2>1, OrderFrame
<1>7. CASE m.from = c
  <2>1. m.packet # Result
    <3>1. m.packet \in Asks
      BY <1>3, <1>7, MailFacts
    <3> QED
      BY <3>1, PacketFacts
  <2>2. Handling(c)'
    BY <1>3, <1>7, <2>1 DEF Handling
  <2>3. /\ Taken(c) = Replied(c) /\ Taken(c) \in Nat
        /\ Posted(c) \in Int /\ Received(c) \in Int
    BY <1>1, <1>5, CountBounds, CountType
  <2>4. /\ Replied(c)' = Replied(c)
        /\ Received(c)' = Received(c)
        /\ Posted(c)' = Posted(c)
    BY <1>2 DEF Replied, Received, Posted
  <2>5. Taken(c)' = Taken(c) + 1
    BY <2>2, <2>3, <2>4 DEF Taken
  <2>6. /\ Taken(c) + 1 \in Nat /\ Taken(c) + 1 \in Int
    BY <2>3
  <2>7. Queues(c, Taken(c) + 1, Posted(c))
    BY <1>1 DEF Ordered
  <2>8. /\ Taken(c) + 1 <= Posted(c) /\ m.packet.n = Taken(c) + 1
        /\ \A lo, hi : lo = Taken(c) + 1 /\ hi = Posted(c) => Queues(c, lo + 1, hi)'
    BY <1>4, <1>7, <2>3, <2>6, <2>7
  <2>9. Handling(c)' => job'.packet.n = Taken(c) + 1
    BY <1>3, <2>1, <2>8
  <2>10. /\ \A i \in DOMAIN toPeer'[c] : toPeer'[c][i].n = got'[c] + i
         /\ hold'[c] # None => hold'[c].n = Received(c)
         /\ \A i \in DOMAIN toCenter'[c] : toCenter'[c][i].n = Received(c) + i
    BY <1>1, <1>2 DEF Ordered
  <2> QED
    BY <2>3, <2>4, <2>5, <2>6, <2>8, <2>9, <2>10, OrderBy
<1> QED
  BY <1>6, <1>7

\* It answers one, of c or of another client.
LEMMA ReplyOrder ==
    ASSUME Inv, Reply, NEW c \in Client
    PROVE  Ordered(c)'
<1> DEFINE m == [op |-> "response", to |-> None, n |-> job.packet.n]
<1>1. /\ Ordered(c) /\ TypeOK /\ c \in Peer
      /\ toPeer[c] \in Seq(Response)
  BY ClientFacts
<1>2. /\ job # None /\ job.todo = "reply" /\ job.from \in Client
      /\ job.packet \in Request
      /\ job' # None => job'.from = job.from /\ job'.todo = "forward"
      /\ UNCHANGED <<toCenter, hold, queue, got, asked>>
  <2>1. job \in Job
    BY <1>1 DEF Reply, TypeOK
  <2>2. job.from \in Client /\ job.packet \in Request
    BY <2>1 DEF Job
  <2>3. job' # None => job' = [job EXCEPT !.todo = "forward"]
    BY DEF Reply, Then
  <2>4. job' # None => job'.from = job.from /\ job'.todo = "forward"
    BY <2>1, <2>3 DEF Job
  <2> QED
    BY <2>2, <2>4 DEF Reply, client
<1>3. /\ m \in Response /\ m.n = job.packet.n
  <2>1. job.packet.n \in Number
    BY <1>2 DEF Request
  <2> QED
    BY <2>1 DEF Response
<1>4. toPeer' = [toPeer EXCEPT ![job.from] = Append(@, m)]
  BY DEF Reply, Send
<1> HIDE DEF m
<1>5. ~Handling(c)'
  BY <1>2 DEF Handling
<1>6. CASE job.from # c
  <2>1. toPeer'[c] = toPeer[c]
    BY <1>1, <1>4, <1>6 DEF TypeOK
  <2>2. ~Handling(c)
    BY <1>6 DEF Handling
  <2>3. \A lo, hi : Queues(c, lo, hi) => Queues(c, lo, hi)'
    BY <1>2, QueueFrame
  <2> QED
    BY <1>1, <1>2, <1>5, <2>1, <2>2, <2>3, OrderFrame
<1>7. CASE job.from = c
  <2>1. toPeer'[c] = Append(toPeer[c], m)
    BY <1>1, <1>4, <1>7 DEF TypeOK
  <2> DEFINE l == Len(toPeer[c])
  <2>2. /\ l \in Nat /\ DOMAIN toPeer[c] = 1 .. l
        /\ Len(toPeer'[c]) = l + 1
        /\ DOMAIN toPeer'[c] = 1 .. l + 1
        /\ \A i \in 1 .. l : toPeer'[c][i] = toPeer[c][i]
        /\ toPeer'[c][l + 1] = m
    BY <1>1, <1>3, <2>1, AppendFacts
  <2>3. Handling(c)
    BY <1>2, <1>7 DEF Handling
  <2>4. /\ Taken(c) = Replied(c) + 1 /\ Taken(c) \in Nat /\ got[c] \in Nat
        /\ Posted(c) \in Int /\ Received(c) \in Int
        /\ Replied(c) = got[c] + l
    BY <1>1, <2>3, CountBounds, CountType DEF Replied
  <2> HIDE DEF l
  <2>5. Taken(c) = got[c] + (l + 1)
    <3>1. got[c] \in Int /\ l \in Int
      BY <2>2, <2>4
    <3>2. Taken(c) = (got[c] + l) + 1
      BY <2>4
    <3> QED
      BY <3>1, <3>2, Shifts
  <2>6. /\ Received(c)' = Received(c)
        /\ Posted(c)' = Posted(c)
    BY <1>2 DEF Received, Posted
  <2>7. Taken(c)' = Taken(c)
    <3>1. Replied(c)' = got'[c] + Len(toPeer'[c])
      BY DEF Replied
    <3>2. Replied(c)' = got[c] + (l + 1)
      BY <1>2, <2>2, <3>1
    <3>3. Replied(c)' \in Int
      BY <2>2, <2>4, <3>2
    <3>4. Taken(c)' = Replied(c)'
      BY <1>5, <3>3 DEF Taken
    <3>5. Taken(c) = got[c] + (l + 1)
      BY <2>5
    <3> QED
      BY <3>2, <3>4, <3>5
  <2>8. m.n = got[c] + (l + 1)
    <3>1. job.packet.n = Taken(c)
      BY <1>1, <2>3 DEF Ordered
    <3> QED
      BY <1>3, <2>5, <3>1
  <2>9. ASSUME NEW i \in DOMAIN toPeer'[c]
        PROVE  toPeer'[c][i].n = got'[c] + i
    <3>1. CASE i \in 1 .. l
      BY <1>1, <1>2, <2>2, <3>1 DEF Ordered
    <3>2. CASE i = l + 1
      BY <1>2, <2>2, <2>8, <3>2
    <3>3. i \in 1 .. l \/ i = l + 1
      BY <2>2
    <3> QED
      BY <3>1, <3>2, <3>3
  <2>10. Queues(c, Taken(c) + 1, Posted(c)) /\ \A lo, hi : Queues(c, lo, hi) => Queues(c, lo, hi)'
    BY <1>1, <1>2, QueueFrame DEF Ordered
  <2>11. /\ Taken(c) <= Posted(c)
         /\ hold'[c] # None => hold'[c].n = Received(c)
         /\ \A i \in DOMAIN toCenter'[c] : toCenter'[c][i].n = Received(c) + i
    BY <1>1, <1>2 DEF Ordered
  <2> QED
    BY <1>5, <2>4, <2>6, <2>7, <2>9, <2>10, <2>11, OrderBy
<1> QED
  BY <1>6, <1>7

\* It passes one on, or fails to: its client has been answered, or will be.
LEMMA PassOrder ==
    ASSUME Inv, Forward \/ ForwardFails \/ Try, NEW c \in Client
    PROVE  Ordered(c)'
<1>1. /\ Ordered(c) /\ TypeOK /\ Shape /\ c \in Peer
  BY ClientFacts
<1>2. /\ job # None /\ job \in Job /\ job.packet.to \in Controller
      /\ UNCHANGED <<toCenter, hold, queue, got, asked>>
  <2>1. job # None /\ job.todo \in {"forward", "try"}
    BY DEF Forward, ForwardFails, Try
  <2>2. job \in Job /\ job.packet \in Asks /\ job.packet.op # "other"
    BY <1>1, <2>1 DEF TypeOK, Shape
  <2> QED
    BY <2>1, <2>2, PacketFacts DEF Forward, ForwardFails, Try, wire, client
<1>3. toPeer'[c] = toPeer[c]
  <2>1. CASE toPeer' = toPeer
    BY <2>1
  <2>2. CASE Send(job.packet.to, Command)
    BY <1>1, <1>2, <2>2, PeerFacts DEF Send, TypeOK
  <2> QED
    BY <2>1, <2>2 DEF Forward, ForwardFails, Try, wire
<1>4. /\ Handling(c)' <=> Handling(c)
      /\ Handling(c) => job'.packet = job.packet
  <2>1. CASE Forward \/ ForwardFails
    BY <2>1 DEF Forward, ForwardFails, Then, Handling
  <2>2. CASE Try
    <3>1. job' = [job EXCEPT !.todo = "reply"] /\ job.todo = "try"
      BY <2>2 DEF Try, Then
    <3>2. /\ job' # None /\ job'.from = job.from /\ job'.packet = job.packet
          /\ job'.todo = "reply"
      <4>1. job' \in Job
        BY <1>2, <3>1 DEF Job
      <4> QED
        BY <1>2, <3>1, <4>1 DEF Job
    <3> QED
      BY <1>2, <3>1, <3>2 DEF Handling
  <2> QED
    BY <2>1, <2>2
<1>5. \A lo, hi : Queues(c, lo, hi) => Queues(c, lo, hi)'
  BY <1>2, QueueFrame
<1> QED
  BY <1>1, <1>2, <1>3, <1>4, <1>5, OrderFrame

\* What other peers do is nothing to c.
LEMMA OtherOrder ==
    ASSUME Inv, NEW c \in Client,
           \/ \E d \in Client \ {c} : Ask(d) \/ Read(d)
           \/ \E k \in Controller :
                 Link(k) \/ LinkEnquire(k) \/ Vanish(k) \/ Sweep(k) \/ HandlerAnswer(k)
           \/ \E p \in Peer \ {c} : HandlerReceive(p)
    PROVE  Ordered(c)'
<1>1. TypeOK /\ c \in Peer
  BY ClientFacts
<1>2. ASSUME NEW d \in Client \ {c}, Ask(d) \/ Read(d) PROVE Ordered(c)'
  <2>1. /\ queue' = queue /\ job' = job /\ hold'[c] = hold[c]
        /\ toPeer'[c] = toPeer[c] /\ toCenter'[c] = toCenter[c]
        /\ got'[c] = got[c] /\ asked'[c] = asked[c]
    BY <1>1, <1>2 DEF Ask, Read, TypeOK
  <2> QED
    BY <2>1, ClientFrame
<1>3. ASSUME NEW k \in Controller,
             Link(k) \/ LinkEnquire(k) \/ Vanish(k) \/ Sweep(k) \/ HandlerAnswer(k)
      PROVE  Ordered(c)'
  <2>1. k # c
    BY PeerFacts
  <2>2. /\ queue' = queue /\ job' = job /\ UNCHANGED client
    BY <1>3 DEF Link, LinkReceive, LinkRespond, LinkEnquire, Vanish, Sweep, HandlerAnswer
  <2>3. hold'[c] = hold[c]
    BY <1>1, <1>3, <2>1
       DEF Link, LinkReceive, LinkRespond, LinkEnquire, Vanish, Sweep, HandlerAnswer, TypeOK
  <2>4. toPeer'[c] = toPeer[c] /\ toCenter'[c] = toCenter[c]
    BY <1>1, <1>3, <2>1
       DEF Link, LinkReceive, LinkRespond, LinkEnquire, Vanish, Sweep, HandlerAnswer,
           Send, TypeOK, wire
  <2> QED
    BY <2>2, <2>3, <2>4, ClientFrame DEF client
<1>4. ASSUME NEW p \in Peer \ {c}, HandlerReceive(p) PROVE Ordered(c)'
  <2>1. /\ queue' = queue /\ job' = job /\ hold'[c] = hold[c]
        /\ toPeer'[c] = toPeer[c] /\ toCenter'[c] = toCenter[c]
        /\ got'[c] = got[c] /\ asked'[c] = asked[c]
    BY <1>1, <1>4 DEF HandlerReceive, TypeOK, client
  <2> QED
    BY <2>1, ClientFrame
<1> QED
  BY <1>2, <1>3, <1>4

LEMMA OrderStep == Inv /\ [Next]_vars => OneResponseEach'
<1> SUFFICES ASSUME Inv, [Next]_vars, NEW c \in Client PROVE Ordered(c)'
  BY DEF OneResponseEach, Ordered
<1>1. CASE UNCHANGED vars
  BY <1>1, ClientFrame DEF vars, wire, client
<1>2. CASE Next
  <2>1. CASE \E d \in Client : Ask(d) \/ Read(d)
    BY <2>1, AskOrder, ReadOrder, OtherOrder
  <2>2. CASE \E k \in Controller :
                Link(k) \/ LinkEnquire(k) \/ Vanish(k) \/ Sweep(k) \/ HandlerAnswer(k)
    BY <2>2, OtherOrder
  <2>3. CASE \E p \in Peer : Handler(p)
    BY <2>3, ReceiveOrder, PostOrder, OtherOrder DEF Handler
  <2>4. CASE Main
    BY <2>4, DequeueOrder, ReplyOrder, PassOrder DEF Main
  <2> QED
    BY <1>2, <2>1, <2>2, <2>3, <2>4 DEF Next
<1> QED
  BY <1>1, <1>2

-----------------------------------------------------------------------------
(***************************************************************************)
(* The theorems.                                                           *)
(***************************************************************************)
LEMMA InitInv == Init => Inv
<1> SUFFICES ASSUME Init PROVE Inv
  OBVIOUS
<1>1. \A S : <<>> \in Seq(S) /\ Len(<<>>) = 0 /\ DOMAIN <<>> = {}
  BY EmptySeq
<1>2. TypeOK
  BY <1>1 DEF Init, TypeOK
<1>3. Shape
  BY <1>1, PeerFacts DEF Init, Shape
<1>4. ASSUME NEW c \in Client PROVE Ordered(c)
  <2>1. /\ toPeer[c] = <<>> /\ toCenter[c] = <<>> /\ hold[c] = None
        /\ got[c] = 0 /\ asked[c] = 0 /\ ~Handling(c) /\ queue = <<>>
    BY PeerFacts DEF Init, Handling
  <2>2. Replied(c) = 0 /\ Received(c) = 0
    <3>1. Len(toPeer[c]) = 0 /\ Len(toCenter[c]) = 0
      BY <1>1, <2>1
    <3>2. Replied(c) = got[c] + 0 /\ Received(c) = asked[c] - 0
      BY <3>1 DEF Replied, Received
    <3> QED
      BY <2>1, <3>2
  <2>3. Taken(c) = 0 /\ Posted(c) = 0
    BY <2>1, <2>2 DEF Taken, Posted
  <2>4. ASSUME NEW lo, NEW hi, lo = 1, hi = 0 PROVE Queues(c, lo, hi)
    BY <1>1, <2>1, <2>4 DEF Queues
  <2>5. Queues(c, Taken(c) + 1, Posted(c))
    BY <2>3, <2>4
  <2> QED
    BY <1>1, <2>1, <2>3, <2>5 DEF Ordered
<1> QED
  BY <1>2, <1>3, <1>4, OneOrdered DEF Inv, Typed

LEMMA StepInv == Inv /\ [Next]_vars => Inv'
BY TypeStep, OrderStep DEF Inv

LEMMA Invariance == Spec => []Inv
BY InitInv, StepInv, PTL DEF Spec

\* Nothing on the way of a request holds what it should not: a connection no
\* more than its buffers, the queue no more than msgsnd() lets in, the main
\* thread only requests, whose results it does not take for one; and a client
\* reads no more responses than it asked for.
THEOREM RequestsTypeCorrect == Spec => []TypeOK
<1>1. Inv => TypeOK
  BY DEF Inv, Typed
<1> QED
  BY <1>1, Invariance, PTL

\* However many clients and controllers there are, how far they are apart, and
\* which of the connections break: from sending to reading, every request of a
\* client is in exactly one place, and its responses come in the order of its
\* requests.
THEOREM OneResponseEachHolds == Spec => []OneResponseEach
<1>1. Inv => OneResponseEach
  BY DEF Inv
<1> QED
  BY <1>1, Invariance, PTL

-----------------------------------------------------------------------------
(***************************************************************************)
(* The center comes to a standstill in two ways only.                      *)
(***************************************************************************)

\* With an idle main thread and an empty queue, a handler that waits has passed
\* everything on, so what a client has asked it has been answered.
LEMMA IdleAnswered ==
    ASSUME Inv, job = None, queue = <<>>,
           NEW c \in Client, HandlerWaits(c), toPeer[c] = <<>>
    PROVE  got[c] = asked[c]
<1>1. c \in Peer /\ hold[c] \in Asks \cup {None} /\ asked[c] \in Nat /\ got[c] \in Nat
  BY PeerFacts, SendsFacts DEF Inv, Typed, TypeOK, Shape
<1>2. Len(queue) = 0 /\ DOMAIN queue = {} /\ Len(toPeer[c]) = 0
  BY EmptySeq
<1>3. hold[c] = None /\ Len(toCenter[c]) = 0
  BY <1>1, <1>2, PacketFacts, EmptySeq DEF HandlerWaits
<1>4. Taken(c) = got[c] /\ Posted(c) = asked[c]
  BY <1>1, <1>2, <1>3 DEF Taken, Replied, Handling, Posted, Received
<1>5. got[c] <= asked[c] /\ Queues(c, got[c] + 1, asked[c])
  BY <1>4 DEF Inv, OneResponseEach
<1>6. \A n \in got[c] + 1 .. asked[c] : FALSE
  BY <1>2, <1>5 DEF Queues
<1>7. CASE got[c] < asked[c]
  <2>1. asked[c] \in got[c] + 1 .. asked[c]
    BY <1>1, <1>7
  <2> QED
    BY <1>6, <2>1
<1> QED
  BY <1>1, <1>5, <1>7

\* When the main thread cannot pass a command on to controller k, and k and its
\* handler cannot go on either, the circle is closed.
LEMMA PassBlocked ==
    ASSUME Inv, NEW k \in Controller, job # None, job.todo \in {"forward", "try"},
           job.packet.to = k, up[k], Full(toPeer[k]), LinkWaits(k), HandlerWaits(k)
    PROVE  Gridlock(k)
<1>1. k \in Peer /\ hold[k] \in {Result, Enquire, None} /\ result[k] \in BOOLEAN
  BY PeerFacts, SendsFacts DEF Inv, Typed, TypeOK, Shape
<1>2. \A s : Full(s) => s # <<>>
  BY EmptySeq DEF Full
<1>3. result[k] /\ Full(toCenter[k])
  BY <1>1, <1>2 DEF LinkWaits
<1>4. hold[k] = Enquire \/ (hold[k] = Result /\ Len(queue) = MaxQueue)
  BY <1>1, <1>2, <1>3 DEF HandlerWaits
<1> QED
  BY <1>3, <1>4 DEF Gridlock

\* However many clients, controllers and places there are: no combination of full
\* connections and a full queue stops the center, but a client that does not
\* read what it asked for and the full circle.
THEOREM NoOtherStandstillHolds == Spec => []NoOtherStandstill
<1>1. ASSUME Inv, Standstill
      PROVE  \/ \A c \in Reader : got[c] = asked[c]
             \/ \E c \in Client \ Reader : WaitsFor(c)
             \/ \E k \in Controller : Gridlock(k)
  <2>1. CASE job = None /\ queue = <<>>
    BY <1>1, <2>1, IdleAnswered, PeerFacts DEF Standstill
  <2>2. CASE job # None /\ job.todo = "reply" /\ Full(toPeer[job.from])
    <3>1. job.from \in Client
      BY <1>1, <2>2 DEF Inv, Typed, TypeOK, Job
    <3>2. job.from \notin Reader
      BY <1>1, <2>2, EmptySeq DEF Standstill, Full
    <3> QED
      BY <2>2, <3>1, <3>2 DEF WaitsFor
  <2>3. CASE /\ job # None /\ job.todo \in {"forward", "try"}
             /\ ~Unreachable(job.packet.to) /\ Full(toPeer[job.packet.to])
    <3>1. job.packet \in Asks /\ job.packet.op \in {"set", "state"}
      BY <1>1, <2>3 DEF Inv, Typed, Shape
    <3>2. PICK k \in Controller : job.packet.to = k
      BY <3>1, PacketFacts
    <3>3. up[k] /\ Full(toPeer[k])
      BY <2>3, <3>2 DEF Unreachable
    <3>4. Gridlock(k)
      BY <1>1, <2>3, <3>2, <3>3, PassBlocked, PeerFacts DEF Standstill
    <3> QED
      BY <3>4
  <2> QED
    BY <1>1, <2>1, <2>2, <2>3 DEF Standstill, MainWaits
<1>2. Inv => NoOtherStandstill
  BY <1>1 DEF NoOtherStandstill
<1> QED
  BY <1>2, Invariance, PTL
=============================================================================
