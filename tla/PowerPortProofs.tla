-------------------------- MODULE PowerPortProofs ---------------------------
(***************************************************************************)
(* Theorems about PowerPort, for any threads, strips, ports, number of     *)
(* waits and bound on the datagrams: its types, and that it implements     *)
(* PowerStrip as long as requests come one at a time and are answered in   *)
(* time.                                                                   *)
(***************************************************************************)
EXTENDS PowerPort, SequenceTheorems, TLAPS

USE NoneAssumption, TriesAssumption, AirAssumption

-----------------------------------------------------------------------------
(***************************************************************************)
(* Sequences.                                                              *)
(***************************************************************************)
LEMMA RemoveType ==
    ASSUME NEW S, NEW s \in Seq(S), NEW k \in DOMAIN s
    PROVE  /\ RemoveAt(s, k) \in Seq(S)
           /\ Len(RemoveAt(s, k)) = Len(s) - 1
<1>1. k \in 1 .. Len(s) /\ Len(s) \in Nat /\ \A i \in 1 .. Len(s) : s[i] \in S
  BY LenProperties, ElementOfSeq
<1>2. SubSeq(s, 1, k - 1) \in Seq(S) /\ Len(SubSeq(s, 1, k - 1)) = k - 1
  BY <1>1, SubSeqProperties
<1>3. SubSeq(s, k + 1, Len(s)) \in Seq(S) /\ Len(SubSeq(s, k + 1, Len(s))) = Len(s) - k
  BY <1>1, SubSeqProperties
<1> DEFINE a == SubSeq(s, 1, k - 1)
           b == SubSeq(s, k + 1, Len(s))
<1>4. a \o b \in Seq(S) /\ Len(a \o b) = Len(a) + Len(b)
  BY <1>2, <1>3, ConcatProperties
<1>5. RemoveAt(s, k) = a \o b
  BY DEF RemoveAt
<1>6. \A n \in Nat : k \in 1 .. n => (k - 1) + (n - k) = n - 1
  OBVIOUS
<1> QED
  BY <1>1, <1>2, <1>3, <1>4, <1>5, <1>6

LEMMA RemoveOnly ==
    ASSUME NEW S, NEW s \in Seq(S), NEW k \in DOMAIN s, Len(s) <= 1
    PROVE  k = 1 /\ Len(s) = 1 /\ RemoveAt(s, k) = <<>>
<1>1. k \in 1 .. Len(s) /\ Len(s) \in Nat
  BY LenProperties
<1>2. \A n \in Nat : n <= 1 /\ k \in 1 .. n => k = 1 /\ n = 1
  OBVIOUS
<1>3. RemoveAt(s, k) \in Seq(S) /\ Len(RemoveAt(s, k)) = 0
  BY <1>1, <1>2, RemoveType
<1> QED
  BY <1>1, <1>2, <1>3, EmptySeq

LEMMA Element ==
    ASSUME NEW S, NEW s \in Seq(S), NEW k \in DOMAIN s
    PROVE  s[k] \in S
<1>1. k \in 1 .. Len(s)
  BY LenProperties
<1> QED
  BY <1>1, ElementOfSeq

LEMMA AppendFacts ==
    ASSUME NEW S, NEW s \in Seq(S), NEW e \in S
    PROVE  /\ Append(s, e) \in Seq(S)
           /\ Len(Append(s, e)) = Len(s) + 1
           /\ Append(s, e)[Len(Append(s, e))] = e
           /\ Append(s, e) # <<>>
           /\ DOMAIN Append(s, e) = 1 .. Len(s) + 1
           /\ \A k \in 1 .. Len(s) : Append(s, e)[k] = s[k]
BY AppendProperties, LenProperties

-----------------------------------------------------------------------------
(***************************************************************************)
(* Types.                                                                  *)
(***************************************************************************)
LEMMA RequestType ==
    \A r \in Request :
        /\ r.op \in {"set", "state"}
        /\ r.wire \in Wire \cup {None}
        /\ r.port \in Port \cup {None}
        /\ r.on \in BOOLEAN
BY DEF Request

\* A thread has a request unless it is idle, waits for a strip that exists,
\* and has a state in hand only of one that does.
Shape ==
    \A t \in Thread :
        /\ pc[t] = "idle" <=> request[t] = None
        /\ pc[t] = "wait" => request[t].wire \in Wire
        /\ got[t] # None => pc[t] = "act" /\ request[t].wire \in Wire

TypeInv == TypeOK /\ Shape

LEMMA TypeInit == Init => TypeInv
<1> SUFFICES ASSUME Init PROVE TypeInv
  OBVIOUS
<1>1. <<>> \in Seq(Gram) /\ <<>> \in Seq(State)
  OBVIOUS
<1> QED
  BY <1>1 DEF Init, TypeInv, TypeOK, Shape

LEMMA TypeStep == TypeInv /\ [Next]_vars => TypeInv'
<1> SUFFICES ASSUME TypeInv, [Next]_vars PROVE TypeInv'
  OBVIOUS
<1> USE DEF TypeInv
<1>1. ASSUME NEW k \in DOMAIN air, Lose(k)
      PROVE  TypeInv'
  BY <1>1, RemoveType DEF Lose, TypeOK, Shape, thread
<1>2. ASSUME NEW k \in DOMAIN air, StripAnswer(k)
      PROVE  TypeInv'
  <2>1. air[k] \in Gram /\ air[k].wire \in Wire
    <3>1. air[k] \in Gram
      BY Element DEF TypeOK
    <3> QED
      BY <3>1 DEF Gram
  <2>2. [air[k] EXCEPT !.state = ports[air[k].wire]] \in Gram
    BY <2>1 DEF TypeOK, Gram
  <2>3. air' = [air EXCEPT ![k] = [air[k] EXCEPT !.state = ports[air[k].wire]]]
    BY <1>2, Zenon DEF StripAnswer
  <2>4. air' \in Seq(Gram)
    BY <2>2, <2>3, ExceptSeq DEF TypeOK
  <2> QED
    BY <1>2, <2>4 DEF StripAnswer, TypeOK, Shape, thread
<1>3. ASSUME NEW k \in DOMAIN air, Deliver(k)
      PROVE  TypeInv'
  <2>1. air[k].state \in State
    <3>1. air[k] \in Gram
      BY Element DEF TypeOK
    <3> QED
      BY <1>3, <3>1 DEF Gram, Deliver
  <2> QED
    BY <1>3, <2>1, RemoveType, AppendFacts DEF Deliver, TypeOK, Shape, thread
<1>4. ASSUME NEW w \in Wire, NEW k \in DOMAIN writes[w], StripApply(w, k)
      PROVE  TypeInv'
  <2>1. writes[w] \in Seq(State) /\ writes[w][k] \in State
    BY Element DEF TypeOK
  <2>2. RemoveAt(writes[w], k) \in Seq(State)
    BY <2>1, RemoveType
  <2> QED
    BY <1>4, <2>1, <2>2 DEF StripApply, TypeOK, Shape, net, thread
<1>5. ASSUME NEW t \in Thread, Receive(t)
      PROVE  TypeInv'
  BY <1>5 DEF Receive, TypeOK, Shape, net
<1>6. ASSUME NEW t \in Thread, Ask(t)
      PROVE  TypeInv'
  <2>1. request[t] \in Request /\ request[t].wire \in Wire \cup {None}
    BY <1>6, RequestType DEF Ask, TypeOK, Shape
  <2>2. CASE request[t].wire = None
    BY <1>6, <2>1, <2>2 DEF Ask, TypeOK, Shape, net
  <2>3. CASE request[t].wire # None
    <3>1. [wire |-> request[t].wire, state |-> None] \in Gram
      BY <2>1, <2>3 DEF Gram
    <3>2. air' \in {air, Append(air, [wire |-> request[t].wire, state |-> None])}
      BY <1>6, <2>3, Zenon DEF Ask
    <3>3. air' \in Seq(Gram)
      <4>1. Append(air, [wire |-> request[t].wire, state |-> None]) \in Seq(Gram)
        BY <3>1, AppendFacts DEF TypeOK
      <4> QED
        BY <3>2, <4>1 DEF TypeOK
    <3>4. /\ pc' = [pc EXCEPT ![t] = "wait"]
          /\ woken' \in {woken \cup {t}, woken \ {t}}
          /\ UNCHANGED <<sock, ports, writes, request, got, tries, reply, calm>>
          /\ pc[t] = "ask"
      BY <1>6, <2>3, Zenon DEF Ask
    <3> QED
      BY <2>1, <2>3, <3>3, <3>4 DEF TypeOK, Shape
  <2> QED
    BY <2>2, <2>3
<1>7. ASSUME NEW t \in Thread, Missed(t), pc[t] = "wait", woken' \in SUBSET woken,
             calm' \in BOOLEAN
      PROVE  TypeInv'
  <2>1. tries[t] \in 0 .. Tries - 1
    BY DEF TypeOK
  <2>2. tries' \in [Thread -> 0 .. Tries - 1]
    <3>1. tries[t] + 1 < Tries => tries[t] + 1 \in 0 .. Tries - 1
      BY <2>1
    <3>2. 0 \in 0 .. Tries - 1
      OBVIOUS
    <3>3. \/ tries[t] + 1 < Tries /\ tries' = [tries EXCEPT ![t] = @ + 1]
          \/ tries' = [tries EXCEPT ![t] = 0]
      BY <1>7 DEF Missed
    <3> QED
      BY <3>1, <3>2, <3>3 DEF TypeOK
  <2>3. \/ pc' = pc
        \/ pc' = [pc EXCEPT ![t] = "act"]
    BY <1>7 DEF Missed
  <2> QED
    BY <1>7, <2>2, <2>3 DEF Missed, TypeOK, Shape
<1>8. ASSUME NEW t \in Thread, TooLate(t)
      PROVE  TypeInv'
  BY <1>7, <1>8 DEF TooLate, TypeOK
<1>9. ASSUME NEW t \in Thread, Timeout(t)
      PROVE  TypeInv'
  BY <1>7, <1>9 DEF Timeout, TypeOK
<1>10. ASSUME NEW t \in Thread, Take(t)
       PROVE  TypeInv'
  <2>1. Head(sock) \in State /\ Tail(sock) \in Seq(State)
    BY <1>10, HeadTailProperties DEF Take, TypeOK
  <2> QED
    BY <1>10, <2>1 DEF Take, TypeOK, Shape
<1>11. ASSUME NEW t \in Thread, NEW r \in Reply, Respond(t, r), ports' = ports,
              writes' \in [Wire -> Seq(State)]
       PROVE  TypeInv'
  BY <1>11 DEF Respond, TypeOK, Shape, net
<1>12. ASSUME NEW t \in Thread, Refuse(t) \/ Report(t) \/ WriteFails(t)
       PROVE  TypeInv'
  <2>1. got[t] # None => Read(got[t]) \in Reply
    BY DEF Read, Reply, TypeOK
  <2>2. Fail \in Reply
    BY DEF Fail, Reply
  <2> QED
    BY <1>11, <1>12, <2>1, <2>2 DEF Refuse, Report, WriteFails, TypeOK
<1>13. ASSUME NEW t \in Thread, Write(t)
       PROVE  TypeInv'
  <2>1. request[t] \in Request /\ request[t].wire \in Wire /\ got[t] \in State
    BY <1>13 DEF Write, TypeOK, Shape
  <2>2. Written(request[t], got[t]) \in State
    BY <2>1, RequestType DEF Written, State
  <2>3. writes' \in [Wire -> Seq(State)]
    BY <1>13, <2>1, <2>2, AppendFacts DEF Write, TypeOK
  <2>4. Ok \in Reply
    BY DEF Ok, Reply
  <2> QED
    BY <1>11, <1>13, <2>3, <2>4 DEF Write
<1>14. CASE UNCHANGED vars
  BY <1>14 DEF vars, net, thread, TypeOK, Shape
<1> QED
  BY <1>1, <1>2, <1>3, <1>4, <1>5, <1>6, <1>8, <1>9, <1>10, <1>12, <1>13, <1>14
     DEF Next, Serve

\* Every state of driver, network and strips has its types: in particular no
\* call waits more often than Tries.
THEOREM PowerTypeCorrect == Spec => []TypeOK
<1>1. TypeInv => TypeOK
  BY DEF TypeInv
<1> QED
  BY <1>1, TypeInit, TypeStep, PTL DEF Spec

-----------------------------------------------------------------------------
(***************************************************************************)
(* While the driver is calm there is one request, at most one datagram,    *)
(* which it is waiting for, and what that or the thread holds of a strip   *)
(* is how the strip is, with no write on its way to it.                    *)
(***************************************************************************)
Current(w, s) == s = ports[w] /\ writes[w] = <<>>

Alone == \A t, u \in Thread : pc[t] # "idle" /\ pc[u] # "idle" => t = u

AirExpected ==
    /\ Len(air) <= 1
    /\ air # <<>> =>
         /\ sock = <<>>
         /\ \E t \in Thread : pc[t] = "wait" /\ request[t].wire = air[1].wire
         /\ air[1].state # None => Current(air[1].wire, air[1].state)

SockExpected ==
    /\ Len(sock) <= 1
    /\ sock # <<>> =>
         \E t \in Thread :
            pc[t] = "wait" /\ t \in woken /\ Current(request[t].wire, sock[1])

WokenExpected == \A t \in Thread : pc[t] = "wait" /\ t \in woken => sock # <<>>

GotCurrent == \A t \in Thread : got[t] # None => Current(request[t].wire, got[t])

OneWrite == \A w \in Wire : Len(writes[w]) <= 1

Calm == Alone /\ AirExpected /\ SockExpected /\ WokenExpected /\ GotCurrent /\ OneWrite

CalmInv == TypeInv /\ (calm => Calm)

LEMMA CalmInit == Init => CalmInv
<1> SUFFICES ASSUME Init PROVE Calm
  BY TypeInit DEF CalmInv
<1>1. Len(air) = 0 /\ Len(sock) = 0 /\ \A w \in Wire : Len(writes[w]) = 0
  BY EmptySeq DEF Init
<1> QED
  BY <1>1 DEF Init, Calm, Alone, AirExpected, SockExpected, WokenExpected, GotCurrent, OneWrite

\* A sequence of at most one element, seen from the index of one.
LEMMA Only ==
    ASSUME NEW S, NEW s \in Seq(S), Len(s) <= 1
    PROVE  /\ s # <<>> => Len(s) = 1 /\ s[1] \in S
           /\ \A k \in DOMAIN s : k = 1 /\ s # <<>> /\ RemoveAt(s, k) = <<>>
<1>1. Len(s) \in Nat /\ DOMAIN s = 1 .. Len(s)
  BY LenProperties
<1>2. s # <<>> => Len(s) = 1
  BY <1>1, EmptySeq
<1>3. s # <<>> => s[1] \in S
  BY <1>1, <1>2, ElementOfSeq
<1>4. ASSUME NEW k \in DOMAIN s
      PROVE  k = 1 /\ s # <<>> /\ RemoveAt(s, k) = <<>>
  <2>1. k = 1 /\ RemoveAt(s, k) = <<>> /\ Len(s) = 1
    BY <1>1, RemoveOnly
  <2> QED
    BY <2>1, EmptySeq
<1> QED
  BY <1>2, <1>3, <1>4

\* The thread that has left "idle" alone.
LEMMA Others ==
    ASSUME Alone, NEW t \in Thread, pc[t] # "idle"
    PROVE  \A u \in Thread : pc[u] # "idle" => u = t
BY DEF Alone

\* A datagram means that the thread which is not idle waits for it.
LEMMA NoDatagram ==
    ASSUME AirExpected, SockExpected, \A t \in Thread : pc[t] # "wait"
    PROVE  air = <<>> /\ sock = <<>>
<1>1. air = <<>>
  BY DEF AirExpected
<1>2. sock = <<>>
  BY DEF SockExpected
<1> QED
  BY <1>1, <1>2

LEMMA CalmStep == CalmInv /\ [Next]_vars => CalmInv'
<1> SUFFICES ASSUME CalmInv, [Next]_vars, calm' PROVE Calm'
  BY TypeStep DEF CalmInv
<1>0. TypeInv /\ TypeOK /\ Shape /\ TypeInv' /\ TypeOK' /\ Shape'
  BY TypeStep DEF CalmInv, TypeInv
<1> USE DEF Calm
<1>a. calm => Calm
  BY DEF CalmInv
<1>b. /\ air \in Seq(Gram) /\ sock \in Seq(State)
      /\ \A w \in Wire : writes[w] \in Seq(State)
      /\ Len(<<>>) = 0
  BY <1>0, EmptySeq DEF TypeOK
<1>1. ASSUME NEW k \in DOMAIN air, Lose(k)
      PROVE  Calm'
  <2>1. Calm
    BY <1>1, <1>a DEF Lose
  <2>2. air' = <<>>
    BY <1>1, <1>b, <2>1, Only DEF Lose, AirExpected
  <2> QED
    BY <1>1, <1>b, <2>1, <2>2
       DEF Lose, thread, Alone, AirExpected, SockExpected, WokenExpected, GotCurrent, OneWrite, Current
<1>2. ASSUME NEW k \in DOMAIN air, StripAnswer(k)
      PROVE  Calm'
  <2>1. Calm /\ writes[air[k].wire] = <<>>
    BY <1>2, <1>a DEF StripAnswer
  <2>2. k = 1 /\ air # <<>> /\ Len(air) = 1 /\ air[1] \in Gram
    BY <1>b, <2>1, Only DEF AirExpected
  <2>3. Len(air') = 1 /\ air' # <<>> /\ air'[1] = [air[1] EXCEPT !.state = ports[air[1].wire]]
    BY <1>2, <1>b, <2>2, LenProperties, EmptySeq DEF StripAnswer
  <2>4. air'[1].wire = air[1].wire /\ air'[1].state = ports[air[1].wire]
    BY <2>2, <2>3 DEF Gram
  <2> QED
    BY <1>2, <2>1, <2>2, <2>3, <2>4
       DEF StripAnswer, thread, Alone, AirExpected, SockExpected, WokenExpected, GotCurrent, OneWrite, Current
<1>3. ASSUME NEW k \in DOMAIN air, Deliver(k)
      PROVE  Calm'
  <2>1. Calm
    BY <1>3, <1>a DEF Deliver
  <2>2. k = 1 /\ air # <<>> /\ air[1] \in Gram /\ RemoveAt(air, k) = <<>>
    BY <1>b, <2>1, Only DEF AirExpected
  <2>3. sock = <<>> /\ Current(air[1].wire, air[1].state)
    <3>1. air[1].state # None
      BY <1>3, <2>2 DEF Deliver
    <3> QED
      BY <2>1, <2>2, <3>1 DEF AirExpected
  <2>4. air[1].state \in State /\ air' = <<>> /\ sock' = Append(<<>>, air[1].state)
    BY <1>3, <2>2, <2>3 DEF Deliver, Gram
  <2>5. Len(sock') = 1 /\ sock'[1] = air[1].state
    BY <1>b, <2>3, <2>4, AppendFacts
  <2>6. PICK t \in Thread : pc[t] = "wait" /\ request[t].wire = air[1].wire
    BY <2>1, <2>2 DEF AirExpected
  <2>7. t \in woken'
    BY <1>3, <2>6 DEF Deliver
  <2> QED
    BY <1>3, <1>b, <2>1, <2>3, <2>4, <2>5, <2>6, <2>7
       DEF Deliver, thread, Alone, AirExpected, SockExpected, WokenExpected, GotCurrent, OneWrite, Current
<1>4. ASSUME NEW w \in Wire, NEW k \in DOMAIN writes[w], StripApply(w, k)
      PROVE  Calm'
  <2>1. Calm
    BY <1>4, <1>a DEF StripApply
  <2>2. writes[w] # <<>> /\ RemoveAt(writes[w], k) = <<>>
    BY <1>b, <2>1, Only DEF OneWrite
  <2>3. writes' = [writes EXCEPT ![w] = <<>>]
    BY <1>4, <2>2 DEF StripApply
  <2>4. \A v \in Wire : \A s : Current(v, s) => Current(v, s)'
    BY <1>0, <1>4, <2>2, <2>3 DEF StripApply, Current, TypeOK
  <2>5. OneWrite'
    BY <1>0, <1>b, <2>1, <2>3 DEF OneWrite, TypeOK
  <2>6. air # <<>> => air[1].wire \in Wire
    <3>1. air # <<>> => air[1] \in Gram
      BY <1>b, <2>1, Only DEF AirExpected
    <3> QED
      BY <3>1 DEF Gram
  <2> QED
    BY <1>0, <1>4, <2>1, <2>4, <2>5, <2>6
       DEF StripApply, net, thread, Alone, AirExpected, SockExpected, WokenExpected, GotCurrent, Shape
<1>5. ASSUME NEW t \in Thread, Receive(t)
      PROVE  Calm'
  <2>1. Calm /\ \A u \in Thread : pc[u] = "idle"
    BY <1>5, <1>a DEF Receive
  <2>2. air = <<>> /\ sock = <<>> /\ \A u \in Thread : got[u] = None
    <3>1. \A u \in Thread : pc[u] # "wait"
      BY <2>1
    <3>2. air = <<>> /\ sock = <<>>
      BY <2>1, <3>1, NoDatagram
    <3> QED
      BY <1>0, <2>1, <3>2 DEF Shape
  <2>3. /\ UNCHANGED <<ports, writes, air, sock, woken, got>>
        /\ \A u \in Thread : u # t => pc'[u] = "idle"
    BY <1>0, <1>5, <2>1 DEF Receive, net, TypeOK
  <2>4. \A u \in Thread : pc'[u] # "wait"
    BY <1>0, <1>5, <2>1 DEF Receive, TypeOK
  <2> QED
    BY <1>b, <2>1, <2>2, <2>3, <2>4
       DEF Alone, AirExpected, SockExpected, WokenExpected, GotCurrent, OneWrite, Current
<1>6. ASSUME NEW t \in Thread, Ask(t)
      PROVE  Calm'
  <2>1. Calm
    BY <1>6, <1>a DEF Ask
  <2>2. \A u \in Thread : pc[u] # "idle" => u = t
    BY <1>6, <2>1, Others DEF Ask
  <2>3. air = <<>> /\ sock = <<>>
    <3>1. \A u \in Thread : pc[u] # "wait"
      BY <1>6, <2>2 DEF Ask
    <3> QED
      BY <2>1, <3>1, NoDatagram
  <2>4. /\ UNCHANGED <<ports, writes, request, got, sock>>
        /\ \/ pc' = [pc EXCEPT ![t] = "act"]
           \/ pc' = [pc EXCEPT ![t] = "wait"] /\ t \notin woken'
    BY <1>6, <2>3 DEF Ask, net
  <2>5. Alone' /\ SockExpected' /\ WokenExpected' /\ GotCurrent' /\ OneWrite'
    <3>1. \A u \in Thread : pc'[u] # "idle" => u = t
      BY <1>0, <2>2, <2>4 DEF TypeOK
    <3>2. \A u \in Thread : pc'[u] = "wait" => u \notin woken'
      BY <1>0, <2>2, <2>4, <3>1 DEF TypeOK
    <3> QED
      BY <1>b, <2>1, <2>3, <2>4, <3>1, <3>2
         DEF Alone, SockExpected, WokenExpected, GotCurrent, OneWrite, Current
  <2>6. AirExpected'
    <3>1. CASE air' = air
      BY <1>b, <2>3, <2>4, <3>1 DEF AirExpected
    <3>2. CASE air' # air
      <4>1. /\ air' = Append(<<>>, [wire |-> request[t].wire, state |-> None])
            /\ pc' = [pc EXCEPT ![t] = "wait"]
            /\ request[t].wire # None
        BY <1>6, <2>3, <3>2 DEF Ask, net
      <4>2. request[t].wire \in Wire
        BY <1>0, <1>6, <4>1, RequestType DEF Ask, Shape, TypeOK
      <4>3. [wire |-> request[t].wire, state |-> None] \in Gram
        BY <4>2 DEF Gram
      <4>4. Len(air') = 1 /\ air'[1] = [wire |-> request[t].wire, state |-> None]
        BY <1>b, <2>3, <4>1, <4>3, AppendFacts
      <4>5. pc'[t] = "wait" /\ request'[t].wire = air'[1].wire /\ air'[1].state = None
        BY <1>0, <2>4, <4>1, <4>4 DEF TypeOK
      <4> QED
        BY <2>3, <2>4, <4>4, <4>5 DEF AirExpected
    <3> QED
      BY <3>1, <3>2
  <2> QED
    BY <2>5, <2>6
<1>7. ASSUME NEW t \in Thread, TooLate(t)
      PROVE  Calm'
  BY <1>7, <1>a DEF TooLate, WokenExpected
<1>8. ASSUME NEW t \in Thread, Timeout(t)
      PROVE  Calm'
  <2>1. Calm /\ pc[t] = "wait" /\ air = <<>>
    BY <1>8, <1>a DEF Timeout
  <2>2. \A u \in Thread : pc[u] # "idle" => u = t
    BY <2>1, Others
  <2>3. sock = <<>>
    BY <1>8, <2>1, <2>2 DEF Timeout, SockExpected
  <2>4. /\ pc' \in {pc, [pc EXCEPT ![t] = "act"]}
        /\ UNCHANGED <<ports, writes, air, sock, woken, request, got>>
    BY <1>8 DEF Missed, Timeout
  <2>5. \A u \in Thread : pc'[u] # "idle" => u = t
    BY <1>0, <2>4, <2>2 DEF TypeOK
  <2>6. \A u \in Thread : pc'[u] = "wait" => pc[u] = "wait"
    BY <1>0, <2>4 DEF TypeOK
  <2> QED
    BY <1>b, <2>1, <2>3, <2>4, <2>5, <2>6
       DEF Alone, AirExpected, SockExpected, WokenExpected, GotCurrent, OneWrite, Current
<1>9. ASSUME NEW t \in Thread, Take(t)
      PROVE  Calm'
  <2>1. Calm /\ pc[t] = "wait" /\ sock # <<>>
    BY <1>9, <1>a DEF Take
  <2>2. \A u \in Thread : pc[u] # "idle" => u = t
    BY <2>1, Others
  <2>3. Len(sock) = 1 /\ sock[1] \in State /\ air = <<>>
    BY <1>b, <2>1, Only DEF SockExpected, AirExpected
  <2>4. Current(request[t].wire, sock[1])
    BY <2>1, <2>2 DEF SockExpected
  <2>5. Head(sock) = sock[1] /\ Tail(sock) = <<>>
    <3>1. Head(sock) = sock[1] /\ Tail(sock) \in Seq(State) /\ Len(Tail(sock)) = Len(sock) - 1
      BY <1>b, <2>1, HeadTailProperties
    <3>2. Len(Tail(sock)) = 0
      BY <2>3, <3>1
    <3> QED
      BY <3>1, <3>2, EmptySeq
  <2>6. /\ pc' = [pc EXCEPT ![t] = "act"]
        /\ got' = [got EXCEPT ![t] = sock[1]]
        /\ sock' = <<>>
        /\ UNCHANGED <<ports, writes, air, request>>
    BY <1>9, <2>5 DEF Take
  <2>7. \A u \in Thread : pc'[u] # "idle" => u = t
    BY <1>0, <2>6, <2>2 DEF TypeOK
  <2>8. GotCurrent'
    BY <1>0, <2>1, <2>4, <2>6 DEF GotCurrent, Current, TypeOK
  <2>9. pc'[t] = "act"
    BY <1>0, <2>6 DEF TypeOK
  <2> QED
    BY <1>b, <2>1, <2>3, <2>6, <2>7, <2>8, <2>9
       DEF Alone, AirExpected, SockExpected, WokenExpected, OneWrite
<1>10. ASSUME NEW t \in Thread, NEW r, Respond(t, r), pc[t] = "act", ports' = ports,
              \A w \in Wire : w # request[t].wire => writes'[w] = writes[w],
              \A w \in Wire : Len(writes'[w]) <= 1
       PROVE  Calm'
  <2>1. Calm
    BY <1>10, <1>a DEF Respond
  <2>2. \A u \in Thread : pc[u] # "idle" => u = t
    BY <1>10, <2>1, Others
  <2>3. /\ pc' = [pc EXCEPT ![t] = "idle"]
        /\ got' = [got EXCEPT ![t] = None]
        /\ UNCHANGED <<air, sock, woken>>
    BY <1>10 DEF Respond, net
  <2>4. \A u \in Thread : pc'[u] = "idle" /\ got'[u] = None
    BY <1>0, <2>2, <2>3 DEF TypeOK, Shape
  <2>5. air = <<>> /\ sock = <<>>
    <3>1. \A u \in Thread : pc[u] # "wait"
      BY <1>10, <2>2
    <3> QED
      BY <2>1, <3>1, NoDatagram
  <2> QED
    BY <1>10, <1>b, <2>3, <2>4, <2>5
       DEF Alone, AirExpected, SockExpected, WokenExpected, GotCurrent, OneWrite
<1>11. ASSUME NEW t \in Thread, Refuse(t) \/ Report(t) \/ WriteFails(t)
       PROVE  Calm'
  <2>1. calm' = calm /\ Calm
    BY <1>11, <1>a DEF Refuse, Report, WriteFails, Respond
  <2> QED
    BY <1>10, <1>11, <2>1 DEF Refuse, Report, WriteFails, OneWrite
<1>12. ASSUME NEW t \in Thread, Write(t)
       PROVE  Calm'
  <2>1. Calm
    BY <1>12, <1>a DEF Write, Respond
  <2>2. got[t] # None /\ pc[t] = "act" /\ request[t].wire \in Wire /\ got[t] \in State
    BY <1>0, <1>12 DEF Write, Shape, TypeOK
  <2>3. writes[request[t].wire] = <<>>
    BY <2>1, <2>2 DEF GotCurrent, Current
  <2>4. Written(request[t], got[t]) \in State
    <3>1. request[t] \in Request
      BY <1>0, <2>2 DEF Shape, TypeOK
    <3> QED
      BY <2>2, <3>1, RequestType DEF Written, State
  <2>5. writes' = [writes EXCEPT ![request[t].wire] = Append(<<>>, Written(request[t], got[t]))]
    BY <1>12, <2>3 DEF Write
  <2>6. Len(Append(<<>>, Written(request[t], got[t]))) = 1
    BY <1>b, <2>4, AppendFacts
  <2>7. \A w \in Wire : /\ w # request[t].wire => writes'[w] = writes[w]
                       /\ Len(writes'[w]) <= 1
    BY <1>0, <2>1, <2>5, <2>6 DEF OneWrite, TypeOK
  <2> QED
    BY <1>10, <1>12, <2>2, <2>7 DEF Write
<1>13. CASE UNCHANGED vars
  BY <1>13, <1>a DEF vars, net, thread, Alone, AirExpected, SockExpected, WokenExpected,
     GotCurrent, OneWrite, Current
<1> QED
  BY <1>1, <1>2, <1>3, <1>4, <1>5, <1>6, <1>7, <1>8, <1>9, <1>11, <1>12, <1>13
     DEF Next, Serve

LEMMA CalmInductive == Spec => []CalmInv
BY CalmInit, CalmStep, PTL DEF Spec

-----------------------------------------------------------------------------
(***************************************************************************)
(* The refinement.  A set takes effect, for the one who reads the promise, *)
(* when its write is on the way: Pending is where the strip will be.       *)
(***************************************************************************)
Ahead == [w \in Wire |-> Pending(w)]

LEMMA PendingType ==
    ASSUME TypeOK, NEW w \in Wire
    PROVE  Pending(w) \in State
<1>1. writes[w] \in Seq(State) /\ ports[w] \in State
  BY DEF TypeOK
<1>2. writes[w] # <<>> => Len(writes[w]) \in 1 .. Len(writes[w])
  BY <1>1, EmptySeq, LenProperties
<1> QED
  BY <1>1, <1>2, ElementOfSeq DEF Pending

LEMMA StripInit == Init => Strip!Init
<1> SUFFICES ASSUME Init PROVE Strip!Init
  OBVIOUS
<1>1. \A w \in Wire : Pending(w) = ports[w] /\ ports[w] \in State
  BY DEF Init, Pending
<1>2. Ahead \in [Wire -> State]
  BY <1>1 DEF Ahead
<1> QED
  BY <1>2 DEF Init, Strip!Init, Ahead, State, Strip!State

LEMMA SamePending ==
    ASSUME UNCHANGED <<ports, writes>>
    PROVE  UNCHANGED Ahead
BY DEF Ahead, Pending

LEMMA SameStrip ==
    ASSUME UNCHANGED <<Ahead, request, reply>>
    PROVE  UNCHANGED Strip!vars
BY DEF Strip!vars, Ahead

LEMMA StripStep == CalmInv /\ [Next]_vars => [calm' => Strip!Next]_(Strip!vars)
<1> SUFFICES ASSUME CalmInv, [Next]_vars, calm' PROVE [Strip!Next]_(Strip!vars)
  OBVIOUS
<1>0. TypeOK /\ Shape /\ (calm => Calm)
  BY DEF CalmInv, TypeInv
<1>1. ASSUME NEW k \in DOMAIN air, Lose(k) \/ StripAnswer(k) \/ Deliver(k)
      PROVE  UNCHANGED Strip!vars
  <2>1. UNCHANGED Ahead
    BY <1>1, SamePending DEF Lose, StripAnswer, Deliver
  <2>2. UNCHANGED <<request, reply>>
    BY <1>1 DEF Lose, StripAnswer, Deliver, thread
  <2> QED
    BY <2>1, <2>2, SameStrip
<1>2. ASSUME NEW w \in Wire, NEW k \in DOMAIN writes[w], StripApply(w, k)
      PROVE  UNCHANGED Strip!vars
  <2>1. Calm
    BY <1>0, <1>2 DEF StripApply
  <2>2. writes[w] \in Seq(State) /\ Len(writes[w]) <= 1
    BY <1>0, <2>1 DEF TypeOK, Calm, OneWrite
  <2>3. k = 1 /\ writes[w] # <<>> /\ RemoveAt(writes[w], k) = <<>> /\ Len(writes[w]) = 1
    BY <2>2, Only
  <2>4. ports' = [ports EXCEPT ![w] = writes[w][1]] /\ writes' = [writes EXCEPT ![w] = <<>>]
    BY <1>2, <2>3 DEF StripApply
  <2>5. ASSUME NEW v \in Wire
        PROVE  Pending(v)' = Pending(v)
    BY <1>0, <2>3, <2>4 DEF Pending, TypeOK
  <2>6. UNCHANGED Ahead
    BY <2>5 DEF Ahead
  <2>7. UNCHANGED <<request, reply>>
    BY <1>2 DEF StripApply, thread
  <2> QED
    BY <2>6, <2>7, SameStrip
<1>3. ASSUME NEW t \in Thread, Ask(t) \/ Take(t) \/ TooLate(t) \/ Timeout(t)
      PROVE  UNCHANGED Strip!vars
  <2>1. UNCHANGED <<ports, writes>>
    BY <1>3 DEF Ask, Take, TooLate, Timeout, Missed
  <2>2. UNCHANGED <<request, reply>>
    BY <1>3 DEF Ask, Take, TooLate, Timeout, Missed
  <2> QED
    BY <2>1, <2>2, SamePending, SameStrip
<1>4. ASSUME NEW t \in Thread, Receive(t)
      PROVE  Strip!Begin(t)
  <2>1. UNCHANGED Ahead
    BY <1>4, SamePending DEF Receive
  <2> QED
    BY <1>0, <1>4, <2>1
       DEF Receive, Strip!Begin, Shape, Ahead, Request, Strip!Request
<1>5. ASSUME NEW t \in Thread, NEW r, Respond(t, r), pc[t] = "act"
      PROVE  Strip!Respond(t, r)
  BY <1>0, <1>5 DEF Respond, Strip!Respond, Shape
<1>6. ASSUME NEW t \in Thread, Refuse(t) \/ WriteFails(t)
      PROVE  Strip!Refuse(t)
  <2>1. UNCHANGED Ahead
    BY <1>6, SamePending DEF Refuse, WriteFails
  <2>2. Strip!Respond(t, Fail)
    BY <1>5, <1>6 DEF Refuse, WriteFails
  <2> QED
    BY <2>1, <2>2 DEF Strip!Refuse, Strip!Fail, Fail, Ahead
<1>7. ASSUME NEW t \in Thread, Report(t) \/ Write(t)
      PROVE  /\ request[t] \in Request /\ request[t].wire \in Wire
             /\ got[t] \in State /\ writes[request[t].wire] = <<>>
             /\ got[t] = ports[request[t].wire]
             /\ Pending(request[t].wire) = got[t]
  <2>1. Calm /\ got[t] # None /\ pc[t] = "act"
    BY <1>0, <1>7 DEF Report, Write, Respond
  <2>2. request[t] \in Request /\ request[t].wire \in Wire /\ got[t] \in State
    BY <1>0, <2>1 DEF Shape, TypeOK
  <2>3. Current(request[t].wire, got[t])
    BY <2>1 DEF Calm, GotCurrent
  <2> QED
    BY <2>2, <2>3 DEF Current, Pending
<1>8. ASSUME NEW t \in Thread, Report(t)
      PROVE  Strip!Get(t)
  <2>1. UNCHANGED Ahead
    BY <1>8, SamePending DEF Report
  <2>2. Strip!Respond(t, Read(got[t]))
    BY <1>5, <1>8 DEF Report
  <2>3. Ahead[request[t].wire] = got[t]
    BY <1>7, <1>8 DEF Ahead
  <2> QED
    BY <1>7, <1>8, <2>1, <2>2, <2>3
       DEF Report, Strip!Get, Strip!Respond, Strip!Read, Read, Ahead
<1>9. ASSUME NEW t \in Thread, Write(t),
             NEW q \in Request, q = request[t], NEW w \in Wire, w = q.wire
      PROVE  Strip!Set(t)
  <2> DEFINE s == Written(q, got[t])
  <2>1. Strip!Respond(t, Ok)
    BY <1>5, <1>9 DEF Write
  <2>2. q.op = "set" /\ w \in Wire /\ q.port \in Port \cup {None} /\ q.on \in BOOLEAN
    BY <1>7, <1>9, RequestType DEF Write
  <2>3. s \in State
    BY <1>7, <1>9, <2>2 DEF Written, State
  <2>4. writes' = [writes EXCEPT ![w] = Append(<<>>, s)] /\ ports' = ports
    BY <1>7, <1>9 DEF Write
  <2>5. /\ Append(<<>>, s) # <<>>
        /\ Append(<<>>, s)[Len(Append(<<>>, s))] = s
    <3>1. <<>> \in Seq(State)
      OBVIOUS
    <3> QED
      BY <2>3, <3>1, AppendFacts
  <2>6. Pending(w)' = s /\ \A v \in Wire \ {w} : Pending(v)' = Pending(v)
    <3>1. /\ writes'[w] = Append(<<>>, s)
          /\ \A v \in Wire \ {w} : writes'[v] = writes[v]
      BY <1>0, <2>2, <2>4 DEF TypeOK
    <3>2. Pending(w)' = s
      BY <2>5, <3>1 DEF Pending
    <3>3. ASSUME NEW v \in Wire \ {w}
          PROVE  Pending(v)' = Pending(v)
      BY <2>4, <3>1 DEF Pending
    <3> QED
      BY <3>2, <3>3
  <2>7. Ahead' = [Ahead EXCEPT ![w] = s]
    BY <2>2, <2>6 DEF Ahead
  <2>8. Ahead[w] = got[t]
    BY <1>7, <1>9 DEF Ahead
  <2>9. Ahead' = IF q.port \in Port THEN [Ahead EXCEPT ![w][q.port] = q.on] ELSE Ahead
    <3>1. CASE q.port \in Port
      BY <2>7, <2>8, <3>1 DEF Written
    <3>2. CASE q.port \notin Port
      <4>1. s = Ahead[w]
        BY <2>8, <3>2 DEF Written
      <4> QED
        BY <2>2, <2>7, <3>2, <4>1 DEF Ahead
    <3> QED
      BY <3>1, <3>2
  <2> QED
    <3>1. Strip!Respond(t, Strip!Ok)
      BY <2>1 DEF Ok, Strip!Ok
    <3>2. Ahead' = IF request[t].port \in Port
                   THEN [Ahead EXCEPT ![request[t].wire][request[t].port] = request[t].on]
                   ELSE Ahead
      BY <1>9, <2>9
    <3>3. request[t].op = "set" /\ request[t].wire \in Wire
      BY <1>9, <2>2
    <3> QED
      BY <3>1, <3>2, <3>3 DEF Strip!Set, Ahead
<1>10. ASSUME NEW t \in Thread, Write(t)
       PROVE  Strip!Set(t)
  BY <1>7, <1>9, <1>10
<1>11. CASE UNCHANGED vars
  <2>1. UNCHANGED <<ports, writes, request, reply>>
    BY <1>11 DEF vars, thread
  <2> QED
    BY <2>1, SamePending, SameStrip
<1> QED
  BY <1>1, <1>2, <1>3, <1>4, <1>6, <1>8, <1>10, <1>11 DEF Next, Serve, Strip!Next

\* While requests come one at a time and are answered in time, the driver does
\* what PowerStrip says: a set changes its port and no other, a read is true.
THEOREM PowerImplementsStrip == Spec => StripSpec
BY StripInit, StripStep, CalmInductive, PTL DEF Spec, StripSpec
=============================================================================
