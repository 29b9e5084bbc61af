--------------------------- MODULE FramingProofs ----------------------------
(***************************************************************************)
(* Theorems about Framing, for headers and bodies of any length and any    *)
(* number of packets.                                                      *)
(***************************************************************************)
EXTENDS Framing, SequenceTheorems, TLAPS

USE HeaderAssumption, BodyAssumption, PacketAssumption

-----------------------------------------------------------------------------
(***************************************************************************)
(* The inductive invariant.                                                *)
(***************************************************************************)

\* Where packet n starts, or will, and where packet i ends.
Pos(n)   == IF n \in 1 .. Len(sent) THEN first[n] ELSE total
After(i) == first[i] + Header + sent[i].body

\* The packets lie end to end.
Layout ==
    /\ Pos(1) = 0
    /\ \A i \in 1 .. Len(sent) : After(i) = Pos(i + 1) /\ After(i) <= total
    /\ \A i, j \in 1 .. Len(sent) : i < j => After(i) <= first[j]
    /\ \A i \in 1 .. Len(sent) : sent[i].enquire => sent[i].body = 0

\* Where the handler stands.
AtHeader ==
    pc = "header" =>
        /\ Len(taken) <= Len(sent)
        /\ read = Pos(Len(taken) + 1)

AtBody ==
    pc = "body" =>
        /\ cur = Len(taken) + 1
        /\ cur \in 1 .. Len(sent)
        /\ need = sent[cur].body
        /\ need > 0
        /\ read = first[cur] + Header

Network ==
    /\ split \/ Boundary(arrived)
    /\ fin => ~open /\ arrived = total

Ended ==
    /\ verdict # "none" => pc = "done"
    /\ verdict = "closed" => ~open /\ Len(taken) = Len(sent)

FrameInv ==
    /\ TypeOK /\ Layout
    /\ AtHeader /\ AtBody
    /\ Network /\ Ended
    /\ InStep /\ RefusesOnlySplit

-----------------------------------------------------------------------------
(***************************************************************************)
(* Sequences and positions.                                                *)
(***************************************************************************)
LEMMA AppendFacts ==
    ASSUME NEW S, NEW s \in Seq(S), NEW e \in S
    PROVE  /\ Append(s, e) \in Seq(S)
           /\ Len(Append(s, e)) = Len(s) + 1
           /\ DOMAIN Append(s, e) = 1 .. Len(s) + 1
           /\ Append(s, e)[Len(s) + 1] = e
           /\ \A k \in 1 .. Len(s) : Append(s, e)[k] = s[k]
BY AppendProperties, LenProperties

LEMMA Numbers ==
    ASSUME TypeOK
    PROVE  /\ Len(sent) \in Nat /\ Len(taken) \in Nat
           /\ DOMAIN sent = 1 .. Len(sent) /\ DOMAIN first = 1 .. Len(sent)
           /\ DOMAIN taken = 1 .. Len(taken)
           /\ \A i \in 1 .. Len(sent) :
                  /\ first[i] \in Nat
                  /\ sent[i] \in Packet
                  /\ sent[i].body \in Body
                  /\ sent[i].body \in Nat
                  /\ sent[i].enquire \in BOOLEAN
           /\ total \in Nat /\ arrived \in Nat /\ read \in Nat /\ Available \in Nat
           /\ read <= arrived /\ arrived <= total
           /\ Available = arrived - read
<1>1. Len(sent) \in Nat /\ Len(taken) \in Nat /\ Len(first) = Len(sent)
  BY LenProperties DEF TypeOK
<1>2. /\ DOMAIN sent = 1 .. Len(sent) /\ DOMAIN first = 1 .. Len(sent)
      /\ DOMAIN taken = 1 .. Len(taken)
  BY <1>1, LenProperties DEF TypeOK
<1>3. \A i \in 1 .. Len(sent) : first[i] \in Nat /\ sent[i] \in Packet
  BY <1>1, ElementOfSeq DEF TypeOK
<1>4. \A p \in Packet : p.body \in Body /\ p.body \in Nat /\ p.enquire \in BOOLEAN
  BY DEF Packet
<1> QED
  BY <1>1, <1>2, <1>3, <1>4 DEF TypeOK, Available

LEMMA AfterFacts ==
    ASSUME TypeOK, NEW i \in 1 .. Len(sent)
    PROVE  /\ After(i) \in Nat /\ first[i] \in Nat
           /\ first[i] < After(i)
<1>1. first[i] \in Nat /\ sent[i].body \in Nat
  BY Numbers
<1>2. Header \in Nat /\ Header > 0
  OBVIOUS
<1>3. \A a, b, h \in Nat : h > 0 => a + h + b \in Nat /\ a < a + h + b
  OBVIOUS
<1> QED
  BY <1>1, <1>2, <1>3 DEF After

\* No packet starts inside another.
LEMMA Inside ==
    ASSUME TypeOK, Layout,
           NEW k \in 1 .. Len(sent), NEW n \in Nat,
           first[k] < n, n < After(k)
    PROVE  ~Boundary(n)
<1>1. After(k) \in Nat /\ n # total
  BY Numbers DEF Layout, After
<1>2. ASSUME NEW i \in 1 .. Len(sent), first[i] = n
      PROVE  FALSE
  <2>1. CASE i < k
    <3>1. After(i) <= first[k]
      BY <2>1 DEF Layout
    <3>2. first[i] < After(i) /\ After(i) \in Nat /\ first[i] \in Nat /\ first[k] \in Nat
      BY AfterFacts
    <3> QED
      BY <1>2, <3>1, <3>2
  <2>2. CASE i = k
    BY <1>2, <2>2, Numbers
  <2>3. CASE k < i
    <3>1. After(k) <= first[i]
      BY <2>3 DEF Layout
    <3> QED
      BY <1>1, <1>2, <3>1
  <2> QED
    BY <2>1, <2>2, <2>3, Numbers
<1> QED
  BY <1>1, <1>2, Numbers DEF Boundary

\* A header that can be received is that of the packet after those taken.
LEMMA NextPacket ==
    ASSUME FrameInv, pc = "header", read < total
    PROVE  /\ Len(taken) + 1 \in 1 .. Len(sent)
           /\ first[Len(taken) + 1] = read
           /\ \A i \in DOMAIN sent : Means(i) => i = Len(taken) + 1 /\ Is(i) = i
<1> DEFINE k == Len(taken) + 1
<1>1. k \in 1 .. Len(sent) /\ first[k] = read
  BY Numbers DEF FrameInv, AtHeader, Pos
<1>2. ASSUME NEW i \in 1 .. Len(sent), first[i] = first[k]
      PROVE  i = k
  <2>1. After(i) > first[i] /\ After(k) > first[k] /\ After(i) \in Nat /\ After(k) \in Nat
    BY <1>1, AfterFacts DEF FrameInv
  <2>2. first[i] \in Nat
    BY AfterFacts DEF FrameInv
  <2>3. i < k => After(i) <= first[k]
    BY <1>1 DEF FrameInv, Layout
  <2>4. k < i => After(k) <= first[i]
    BY <1>1 DEF FrameInv, Layout
  <2> QED
    BY <1>1, <1>2, <2>1, <2>2, <2>3, <2>4
<1>3. ASSUME NEW i \in DOMAIN sent, Means(i)
      PROVE  i = k /\ Is(i) = i
  <2>1. \E j \in DOMAIN first : first[j] = read
    BY <1>1, Numbers DEF FrameInv
  <2>2. first[i] = read
    BY <1>3, <2>1 DEF Means
  <2> QED
    BY <1>1, <1>2, <2>2, Numbers DEF FrameInv, Is
<1> QED
  BY <1>1, <1>3

-----------------------------------------------------------------------------
(***************************************************************************)
(* The steps.                                                              *)
(***************************************************************************)

\* A packet is added behind the others.
LEMMA SendLayout ==
    ASSUME TypeOK, Layout, Send
    PROVE  /\ TypeOK'
           /\ Layout'
           /\ Len(sent)' = Len(sent) + 1
           /\ \A n \in 1 .. Len(sent) + 1 : Pos(n)' = Pos(n)
           /\ \A i \in 1 .. Len(sent) : sent'[i] = sent[i] /\ first'[i] = first[i]
           /\ \A n \in Nat : Boundary(n) => Boundary(n)'
<1> DEFINE L == Len(sent)
<1>1. PICK p \in Packet :
          /\ p.enquire => p.body = 0
          /\ sent' = Append(sent, p)
          /\ total' = total + Header + p.body
  BY DEF Send
<1>2. first' = Append(first, total)
  BY DEF Send
<1>3. p.body \in Nat /\ p.enquire \in BOOLEAN
  BY DEF Packet
<1>4. /\ sent' \in Seq(Packet) /\ Len(sent') = L + 1
      /\ sent'[L + 1] = p /\ \A i \in 1 .. L : sent'[i] = sent[i]
  BY <1>1, AppendFacts DEF TypeOK
<1>5. /\ first' \in Seq(Nat) /\ Len(first') = L + 1 /\ DOMAIN first' = 1 .. L + 1
      /\ first'[L + 1] = total /\ \A i \in 1 .. L : first'[i] = first[i]
  BY <1>2, AppendFacts DEF TypeOK
<1>6. L \in Nat /\ total \in Nat /\ total' \in Nat /\ total' = total + Header + p.body
  BY <1>1, <1>3, Numbers
<1>7. \A i \in 1 .. L + 1 : i \in 1 .. L \/ i = L + 1
  BY <1>6
<1>8. TypeOK'
  <2>1. taken' \in Seq(0 .. Len(sent'))
    <3>1. \A i \in 1 .. Len(taken) : taken[i] \in 0 .. L + 1
      BY <1>6, ElementOfSeq DEF TypeOK
    <3>2. taken \in Seq(0 .. L + 1)
      BY <3>1, IsASeq, Numbers, LenProperties, SeqDef DEF TypeOK
    <3> QED
      BY <1>4, <3>2 DEF Send, hand
  <2> QED
    <3>1. /\ UNCHANGED <<arrived, read, open, fin, split, pc, need, cur, taken, verdict>>
      BY DEF Send, net, hand
    <3>2. cur \in 0 .. L + 1 /\ arrived \in 0 .. total'
      BY <1>3, <1>6 DEF TypeOK
    <3> QED
      BY <1>4, <1>5, <1>6, <2>1, <3>1, <3>2 DEF TypeOK
<1>9. \A n \in 1 .. L + 1 : Pos(n)' = Pos(n)
  BY <1>4, <1>5, <1>6, <1>7 DEF Pos
<1>10. \A i \in 1 .. L : After(i)' = After(i) /\ After(i) \in Nat
  <2>1. \A i \in 1 .. L : After(i) \in Nat
    BY AfterFacts
  <2> QED
    BY <1>4, <1>5, <2>1 DEF After
<1>11. \A n : n = L + 1 => After(n)' = total' /\ Pos(n + 1)' = total'
  <2>1. L + 1 + 1 \notin 1 .. L + 1
    BY <1>6
  <2> QED
    BY <1>4, <1>5, <1>6, <2>1 DEF After, Pos
<1>12. Layout'
  <2>1. Pos(1)' = 0
    BY <1>6, <1>9 DEF Layout
  <2>2. ASSUME NEW i \in 1 .. L + 1
        PROVE  After(i)' = Pos(i + 1)' /\ After(i)' <= total'
    <3>1. CASE i \in 1 .. L
      BY <1>3, <1>6, <1>9, <1>10, <3>1 DEF Layout
    <3>2. CASE i = L + 1
      BY <1>6, <1>11, <3>2
    <3> QED
      BY <1>7, <3>1, <3>2
  <2>3. ASSUME NEW i \in 1 .. L + 1, NEW j \in 1 .. L + 1, i < j
        PROVE  After(i)' <= first'[j]
    <3>1. i \in 1 .. L
      BY <1>6, <2>3
    <3>2. CASE j \in 1 .. L
      BY <1>5, <1>10, <2>3, <3>1, <3>2 DEF Layout
    <3>3. CASE j = L + 1
      BY <1>5, <1>10, <3>1, <3>3 DEF Layout
    <3> QED
      BY <1>7, <3>2, <3>3
  <2>4. \A i \in 1 .. L + 1 : sent'[i].enquire => sent'[i].body = 0
    BY <1>1, <1>4, <1>7 DEF Layout
  <2> QED
    BY <1>4, <2>1, <2>2, <2>3, <2>4 DEF Layout
<1>13. ASSUME NEW n \in Nat, Boundary(n)
       PROVE  Boundary(n)'
  <2>1. CASE n = total
    BY <1>5, <1>6, <2>1 DEF Boundary
  <2>2. ASSUME NEW i \in DOMAIN first, first[i] = n
        PROVE  Boundary(n)'
    BY <1>5, <1>6, <2>2, Numbers DEF Boundary
  <2> QED
    BY <1>13, <2>1, <2>2 DEF Boundary
<1> QED
  BY <1>4, <1>5, <1>8, <1>9, <1>12, <1>13

LEMMA SendStep == FrameInv /\ Send => FrameInv'
<1> SUFFICES ASSUME FrameInv, Send PROVE FrameInv'
  OBVIOUS
<1>1. /\ TypeOK' /\ Layout' /\ Len(sent)' = Len(sent) + 1
      /\ \A n \in 1 .. Len(sent) + 1 : Pos(n)' = Pos(n)
      /\ \A i \in 1 .. Len(sent) : sent'[i] = sent[i] /\ first'[i] = first[i]
      /\ \A n \in Nat : Boundary(n) => Boundary(n)'
  BY SendLayout DEF FrameInv
<1>2. /\ open /\ open' = open
      /\ UNCHANGED <<arrived, fin, split, read, pc, need, cur, taken, verdict>>
  BY DEF Send, net, hand
<1>3. Len(sent) \in Nat /\ Len(taken) \in Nat /\ arrived \in Nat
  BY Numbers DEF FrameInv
<1>4. AtHeader'
  <2> SUFFICES ASSUME pc = "header"
               PROVE  Len(taken) <= Len(sent)' /\ read = Pos(Len(taken) + 1)'
    BY <1>2 DEF AtHeader, Pos
  <2>1. Len(taken) <= Len(sent) /\ read = Pos(Len(taken) + 1)
    BY DEF FrameInv, AtHeader
  <2>2. Len(taken) + 1 \in 1 .. Len(sent) + 1
    BY <1>3, <2>1
  <2> QED
    BY <1>1, <1>2, <1>3, <2>1, <2>2
<1>5. AtBody'
  BY <1>1, <1>2, <1>3 DEF FrameInv, AtBody
<1>6. Network'
  <2>1. Boundary(arrived) => Boundary(arrived)'
    BY <1>1, <1>2, <1>3 DEF Boundary
  <2> QED
    BY <1>2, <2>1 DEF FrameInv, Network
<1> QED
  BY <1>1, <1>2, <1>4, <1>5, <1>6 DEF FrameInv, Ended, InStep, RefusesOnlySplit

\* What the other steps leave of the packets.
LEMMA SamePackets ==
    ASSUME Layout, UNCHANGED <<sent, first, total>>
    PROVE  /\ Layout'
           /\ Len(sent)' = Len(sent)
           /\ \A n : Pos(n)' = Pos(n) /\ (Boundary(n)' <=> Boundary(n))
BY DEF Layout, Pos, After, Boundary

LEMMA NetworkStep == FrameInv /\ (Close \/ Arrive \/ Fin) => FrameInv'
<1> SUFFICES ASSUME FrameInv, Close \/ Arrive \/ Fin PROVE FrameInv'
  OBVIOUS
<1>1. UNCHANGED <<sent, first, total, read, pc, need, cur, taken, verdict>>
  BY DEF Close, Arrive, Fin, peer, net, hand
<1>2. /\ Layout' /\ Len(sent)' = Len(sent)
      /\ \A n : Pos(n)' = Pos(n) /\ (Boundary(n)' <=> Boundary(n))
  BY <1>1, SamePackets DEF FrameInv
<1>3. AtHeader' /\ AtBody' /\ InStep'
  BY <1>1 DEF FrameInv, AtHeader, AtBody, InStep, Pos
<1>4. CASE Close
  <2>1. TypeOK' /\ Ended' /\ RefusesOnlySplit'
    BY <1>4, Zenon DEF Close, FrameInv, TypeOK, Ended, RefusesOnlySplit, net, hand
  <2>2. Network'
    BY <1>4, Zenon DEF Close, FrameInv, Network, Boundary, net, hand
  <2> QED
    BY <1>2, <1>3, <2>1, <2>2 DEF FrameInv
<1>5. CASE Arrive
  <2>1. PICK n \in arrived + 1 .. total :
            /\ arrived' = n
            /\ split' = (split \/ ~Boundary(n))
    BY <1>5 DEF Arrive
  <2>2. TypeOK'
    BY <1>1, <1>5, <2>1, Numbers DEF Arrive, FrameInv, TypeOK, peer
  <2>3. ~fin /\ fin' = fin /\ open' = open
    BY <1>5, <2>1, Numbers DEF Arrive, FrameInv, Network, peer
  <2>4. split' \/ Boundary(arrived)'
    <3>1. Boundary(arrived)' <=> Boundary(n)
      BY <1>1, <2>1 DEF Boundary
    <3> QED
      BY <2>1, <3>1
  <2>5. Network'
    BY <2>3, <2>4 DEF Network
  <2>6. Ended' /\ RefusesOnlySplit'
    BY <1>1, <2>1, <2>3 DEF FrameInv, Ended, RefusesOnlySplit
  <2> QED
    BY <1>2, <1>3, <2>2, <2>5, <2>6 DEF FrameInv
<1>6. CASE Fin
  <2>1. TypeOK' /\ Ended' /\ RefusesOnlySplit'
    BY <1>6, Zenon DEF Fin, FrameInv, TypeOK, Ended, RefusesOnlySplit, peer, hand
  <2>2. Network'
    BY <1>6, Zenon DEF Fin, FrameInv, Network, Boundary, peer, hand
  <2> QED
    BY <1>2, <1>3, <2>1, <2>2 DEF FrameInv
<1> QED
  BY <1>4, <1>5, <1>6

\* The next packet is taken when the handler has read up to its end.
LEMMA TakeNext ==
    ASSUME FrameInv, UNCHANGED <<peer, net>>,
           pc # "done",
           NEW k, k = Len(taken) + 1, k \in 1 .. Len(sent),
           Take(k), read' = After(k), read' <= arrived
    PROVE  FrameInv'
<1>1. UNCHANGED <<sent, first, total, open, arrived, fin, split>>
  BY DEF peer, net
<1>2. /\ Layout' /\ Len(sent)' = Len(sent)
      /\ \A n : Pos(n)' = Pos(n) /\ (Boundary(n)' <=> Boundary(n))
  BY <1>1, SamePackets DEF FrameInv
<1>3. k \in Nat /\ k \in 0 .. Len(sent) /\ Len(taken) \in Nat /\ Len(sent) \in Nat
  BY Numbers DEF FrameInv
<1>4. /\ taken' \in Seq(0 .. Len(sent)) /\ Len(taken') = k
      /\ DOMAIN taken' = 1 .. k
      /\ taken'[k] = k /\ \A i \in 1 .. Len(taken) : taken'[i] = taken[i]
  BY <1>3, AppendFacts DEF FrameInv, TypeOK, Take
<1>5. read' \in Nat
  BY Numbers DEF FrameInv, After
<1>6. TypeOK'
  BY <1>1, <1>3, <1>4, <1>5, Numbers DEF FrameInv, TypeOK, Take
<1>7. AtHeader' /\ AtBody'
  <2>1. read' = Pos(k + 1)
    BY DEF FrameInv, Layout
  <2>2. Pos(Len(taken) + 1)' = Pos(k + 1)
    BY <1>1, <1>4 DEF Pos
  <2> QED
    BY <1>1, <1>3, <1>4, <2>1, <2>2 DEF AtHeader, AtBody, Take
<1>8. InStep'
  <2>1. \A i \in 1 .. k : i \in 1 .. Len(taken) \/ i = k
    BY <1>3
  <2> QED
    BY <1>4, <2>1, Numbers DEF FrameInv, InStep
<1>9. Network' /\ Ended' /\ RefusesOnlySplit'
  <2>1. verdict' = verdict /\ verdict = "none"
    BY DEF FrameInv, Ended, Take
  <2> QED
    BY <1>1, <2>1 DEF FrameInv, Network, Ended, RefusesOnlySplit, Boundary
<1> QED
  BY <1>2, <1>6, <1>7, <1>8, <1>9 DEF FrameInv

\* The connection ends: the reason fits what has arrived.
LEMMA EndStep ==
    ASSUME FrameInv, UNCHANGED <<peer, net>>,
           NEW why \in {"closed", "header", "body"}, End(why), read' = arrived,
           why = "closed" => ~open /\ Len(taken) = Len(sent),
           why # "closed" => split
    PROVE  FrameInv'
<1>1. UNCHANGED <<sent, first, total, open, arrived, fin, split, need, cur, taken>>
  BY DEF peer, net, End
<1>2. Layout'
  BY <1>1, SamePackets DEF FrameInv
<1>3. TypeOK'
  BY <1>1, Numbers DEF FrameInv, TypeOK, End
<1>4. AtHeader' /\ AtBody' /\ InStep' /\ Ended' /\ RefusesOnlySplit'
  BY <1>1 DEF FrameInv, AtHeader, AtBody, InStep, Ended, RefusesOnlySplit, End
<1>5. Network'
  BY <1>1 DEF FrameInv, Network, Boundary
<1> QED
  BY <1>2, <1>3, <1>4, <1>5 DEF FrameInv

LEMMA HandlerStep == FrameInv /\ Handler => FrameInv'
<1> SUFFICES ASSUME FrameInv, Handler PROVE FrameInv'
  OBVIOUS
<1>1. CASE HeaderShort
  <2> DEFINE k == Len(taken) + 1
  <2>1. /\ UNCHANGED <<peer, net>> /\ pc = "header" /\ CanReceive
        /\ Available < Header /\ read' = arrived
    BY <1>1 DEF HeaderShort
  <2>2. CASE Available = 0
    <3>1. fin /\ arrived = total /\ ~open
      BY <2>1, <2>2 DEF CanReceive, FrameInv, Network
    <3>2. read = total
      BY <2>2, <3>1, Numbers DEF FrameInv
    <3>3. Len(taken) = Len(sent)
      <4>1. k \notin 1 .. Len(sent)
        <5> SUFFICES ASSUME k \in 1 .. Len(sent) PROVE FALSE
          OBVIOUS
        <5>1. first[k] = total /\ After(k) <= total
          BY <2>1, <3>2 DEF FrameInv, AtHeader, Pos, Layout
        <5> QED
          BY <5>1, Numbers DEF FrameInv, After
      <4> QED
        <5>1. Len(taken) <= Len(sent) /\ Len(taken) \in Nat /\ Len(sent) \in Nat
          BY <2>1, Numbers DEF FrameInv, AtHeader
        <5> QED
          BY <4>1, <5>1
    <3>4. End("closed")
      BY <1>1, <2>2 DEF HeaderShort
    <3> QED
      BY <2>1, <3>1, <3>3, <3>4, EndStep
  <2>3. CASE Available # 0
    <3>1. read < arrived /\ arrived < read + Header /\ read < total
      BY <2>1, <2>3, Numbers DEF FrameInv
    <3>2. k \in 1 .. Len(sent) /\ first[k] = read
      BY <2>1, <3>1, NextPacket
    <3>3. arrived < After(k)
      BY <3>1, <3>2, Numbers DEF FrameInv, After
    <3>4. split
      BY <3>1, <3>2, <3>3, Inside, Numbers DEF FrameInv, Network
    <3>5. End("header")
      BY <1>1, <2>3 DEF HeaderShort
    <3> QED
      BY <2>1, <3>4, <3>5, EndStep
  <2> QED
    BY <2>2, <2>3
<1>2. CASE ReadHeader
  <2> DEFINE k == Len(taken) + 1
  <2>1. /\ UNCHANGED <<peer, net>> /\ pc = "header"
        /\ Available >= Header /\ read' = read + Header
    BY <1>2 DEF ReadHeader
  <2>2. read < total /\ read' <= arrived /\ read' \in Nat
    BY <2>1, Numbers DEF FrameInv
  <2>3. /\ k \in 1 .. Len(sent) /\ first[k] = read
        /\ \A i \in DOMAIN sent : Means(i) => i = k /\ Is(i) = i
    BY <2>1, <2>2, NextPacket
  <2>4. Parse(k) /\ Is(k) = k
    BY <1>2, <2>3 DEF ReadHeader
  <2>5. /\ sent[k].body \in Body /\ sent[k].body \in Nat /\ sent[k].enquire \in BOOLEAN
        /\ k \in Nat /\ k \in 0 .. Len(sent)
    BY <2>3, Numbers DEF FrameInv
  <2>6. CASE sent[k].body = 0
    <3>1. Take(k)
      BY <2>4, <2>6 DEF Parse
    <3>2. read' = After(k)
      BY <2>1, <2>2, <2>3, <2>6, Numbers DEF FrameInv, After
    <3> QED
      BY <2>1, <2>2, <2>3, <3>1, <3>2, TakeNext
  <2>7. CASE sent[k].body # 0
    <3>1. ~sent[k].enquire
      BY <2>3, <2>7 DEF FrameInv, Layout
    <3>2. Expect(k, sent[k].body)
      BY <2>4, <2>7, <3>1 DEF Parse
    <3>3. UNCHANGED <<sent, first, total, open, arrived, fin, split, taken, verdict>>
      BY <2>1, <3>2 DEF peer, net, Expect
    <3>4. pc' = "body" /\ need' = sent[k].body /\ cur' = k
      BY <2>4, <3>2 DEF Expect
    <3>5. Layout'
      BY <3>3, SamePackets DEF FrameInv
    <3>6. TypeOK'
      BY <2>2, <2>5, <3>3, <3>4, Numbers DEF FrameInv, TypeOK
    <3>7. AtHeader' /\ AtBody'
      BY <2>1, <2>3, <2>5, <2>7, <3>3, <3>4 DEF AtHeader, AtBody
    <3>8. Network' /\ Ended' /\ InStep' /\ RefusesOnlySplit'
      <4>1. verdict = "none"
        BY <2>1 DEF FrameInv, Ended
      <4> QED
        BY <3>3, <4>1 DEF FrameInv, Network, Ended, InStep, RefusesOnlySplit, Boundary
    <3> QED
      BY <3>5, <3>6, <3>7, <3>8 DEF FrameInv
  <2> QED
    BY <2>6, <2>7
<1>3. CASE BodyShort
  <2>1. /\ UNCHANGED <<peer, net>> /\ pc = "body"
        /\ Available < need /\ read' = arrived /\ End("body")
    BY <1>3 DEF BodyShort
  <2>2. /\ cur \in 1 .. Len(sent) /\ need = sent[cur].body
        /\ read = first[cur] + Header
    BY <2>1 DEF FrameInv, AtBody
  <2>3. first[cur] < arrived /\ arrived < After(cur)
    BY <2>1, <2>2, Numbers DEF FrameInv, After
  <2>4. split
    BY <2>2, <2>3, Inside, Numbers DEF FrameInv, Network
  <2> QED
    BY <2>1, <2>4, EndStep
<1>4. CASE ReadBody
  <2>1. /\ UNCHANGED <<peer, net>> /\ pc = "body"
        /\ Available >= need /\ read' = read + need /\ Take(cur)
    BY <1>4 DEF ReadBody
  <2>2. /\ cur = Len(taken) + 1 /\ cur \in 1 .. Len(sent)
        /\ need = sent[cur].body /\ read = first[cur] + Header
    BY <2>1 DEF FrameInv, AtBody
  <2>3. read' = After(cur) /\ read' <= arrived
    BY <2>1, <2>2, Numbers DEF FrameInv, After
  <2> QED
    BY <2>1, <2>2, <2>3, TakeNext
<1> QED
  BY <1>1, <1>2, <1>3, <1>4 DEF Handler

-----------------------------------------------------------------------------
(***************************************************************************)
(* The theorems.                                                           *)
(***************************************************************************)
LEMMA FrameInit == Init => FrameInv
<1> SUFFICES ASSUME Init PROVE FrameInv
  OBVIOUS
<1>1. /\ sent = <<>> /\ first = <<>> /\ taken = <<>>
      /\ Len(sent) = 0 /\ Len(first) = 0 /\ Len(taken) = 0
      /\ sent \in Seq(Packet) /\ first \in Seq(Nat) /\ taken \in Seq(0 .. Len(sent))
  BY DEF Init
<1>2. TypeOK
  <2>1. /\ total = 0 /\ arrived = 0 /\ read = 0 /\ need = 0 /\ cur = 0
        /\ open = TRUE /\ fin = FALSE /\ split = FALSE
        /\ pc = "header" /\ verdict = "none"
    BY DEF Init
  <2>2. 0 \in 0 .. 0
    OBVIOUS
  <2> QED
    BY <1>1, <2>1, <2>2 DEF TypeOK
<1>3. Layout
  BY <1>1 DEF Init, Layout, Pos
<1>4. AtHeader /\ AtBody
  BY <1>1 DEF Init, AtHeader, AtBody, Pos
<1>5. Network /\ Ended
  BY <1>1 DEF Init, Network, Ended, Boundary
<1>6. InStep /\ RefusesOnlySplit
  BY <1>1 DEF Init, InStep, RefusesOnlySplit
<1> QED
  BY <1>2, <1>3, <1>4, <1>5, <1>6 DEF FrameInv

LEMMA FrameStep == FrameInv /\ [Next]_vars => FrameInv'
<1> SUFFICES ASSUME FrameInv, [Next]_vars PROVE FrameInv'
  OBVIOUS
<1>1. CASE Next
  BY <1>1, SendStep, NetworkStep, HandlerStep DEF Next
<1>2. CASE UNCHANGED vars
  <2>1. UNCHANGED <<sent, first, total, open, arrived, fin, split,
                    read, pc, need, cur, taken, verdict>>
    BY <1>2 DEF vars, peer, net, hand
  <2> QED
    BY <2>1 DEF FrameInv, TypeOK, Layout, AtHeader, AtBody, Network, Ended,
                InStep, RefusesOnlySplit, Pos, After, Boundary
<1> QED
  BY <1>1, <1>2

LEMMA FrameInvariant == Spec => []FrameInv
BY FrameInit, FrameStep, PTL DEF Spec

\* Every reachable state of Framing has its types: runSMSHandler never counts
\* more octets than have arrived, nor expects a body of another length.
THEOREM FramingTypeCorrect == Spec => []TypeOK
<1>1. FrameInv => TypeOK
  BY DEF FrameInv
<1> QED
  BY <1>1, FrameInvariant, PTL

\* However TCP cuts the stream, runSMSHandler answers and posts exactly the
\* packets that were sent, in order.
THEOREM InStepHolds == Spec => []InStep
<1>1. FrameInv => InStep
  BY DEF FrameInv
<1> QED
  BY <1>1, FrameInvariant, PTL

\* When runSMSHandler finds that its peer has closed, it has taken every packet.
THEOREM NothingLostHolds == Spec => []NothingLost
<1>1. FrameInv => NothingLost
  BY DEF FrameInv, Ended, NothingLost
<1> QED
  BY <1>1, FrameInvariant, PTL

\* runSMSHandler refuses a peer that speaks CMP only after a segment has ended
\* inside a packet.
THEOREM RefusesOnlySplitHolds == Spec => []RefusesOnlySplit
<1>1. FrameInv => RefusesOnlySplit
  BY DEF FrameInv
<1> QED
  BY <1>1, FrameInvariant, PTL
=============================================================================
