------------------------------ MODULE Framing -------------------------------
(***************************************************************************)
(* How runSMSHandler cuts the octets of one connection into packets.       *)
(*                                                                         *)
(* A peer sends whole packets, TCP delivers their octets in segments of    *)
(* any size.  The handler takes a header with one recv() and a body with   *)
(* another, and ends the connection when either is short.                  *)
(*                                                                         *)
(* Octets are counted: packet i is the octets from first[i] on, and what   *)
(* a recv() returns is determined by how many octets have been read.       *)
(***************************************************************************)
EXTENDS Naturals, Sequences

CONSTANTS
    Header,     \* octets of a CMP_HEADER
    Body,       \* octets a body may have
    MaxPacket   \* packets the peer sends

ASSUME HeaderAssumption == Header \in Nat \ {0}
ASSUME BodyAssumption == Body \subseteq Nat
ASSUME PacketAssumption == MaxPacket \in Nat

VARIABLES
    sent, first,    \* the packets sent, and the position of each one's first octet
    total,          \* octets sent
    arrived, read,  \* octets that have reached the center, octets received
    open, fin,      \* the peer has not closed; its FIN has arrived
    pc, need, cur,  \* the handler: next recv(), nBodyLen, the header it has
    taken,          \* packets answered or posted, in order; 0 is no packet sent
    verdict,        \* why the handler has ended
    split           \* history: a segment has ended inside a packet

peer == <<sent, first, total, open>>
net  == <<arrived, fin, split>>
hand == <<read, pc, need, cur, taken, verdict>>
vars == <<peer, net, hand>>

Packet == [enquire : BOOLEAN, body : Body]

TypeOK ==
    /\ sent \in Seq(Packet)
    /\ first \in Seq(Nat) /\ Len(first) = Len(sent)
    /\ total \in Nat /\ arrived \in 0 .. total /\ read \in 0 .. arrived
    /\ open \in BOOLEAN /\ fin \in BOOLEAN /\ split \in BOOLEAN
    /\ pc \in {"header", "body", "done"}
    /\ need \in Body \cup {0}
    /\ cur \in 0 .. Len(sent)
    /\ taken \in Seq(0 .. Len(sent))
    /\ verdict \in {"none", "closed", "header", "body"}

Init ==
    /\ sent = <<>> /\ first = <<>> /\ total = 0
    /\ arrived = 0 /\ read = 0
    /\ open = TRUE /\ fin = FALSE /\ split = FALSE
    /\ pc = "header" /\ need = 0 /\ cur = 0
    /\ taken = <<>>
    /\ verdict = "none"

-----------------------------------------------------------------------------
(***************************************************************************)
(* The peer and the network.  An enquiry has no body.                      *)
(***************************************************************************)
Send ==
    /\ open
    /\ Len(sent) < MaxPacket
    /\ \E p \in Packet :
         /\ p.enquire => p.body = 0
         /\ sent' = Append(sent, p)
         /\ total' = total + Header + p.body
    /\ first' = Append(first, total)
    /\ UNCHANGED <<open, net, hand>>

Close ==
    /\ open
    /\ open' = FALSE
    /\ UNCHANGED <<sent, first, total, net, hand>>

\* Octet n is the first of a packet, or the one after the last.
Boundary(n) == n = total \/ \E i \in DOMAIN first : first[i] = n

Arrive ==
    /\ \E n \in arrived + 1 .. total :
         /\ arrived' = n
         /\ split' = (split \/ ~Boundary(n))
    /\ UNCHANGED <<peer, fin, hand>>

Fin ==
    /\ ~open /\ ~fin
    /\ arrived = total
    /\ fin' = TRUE
    /\ UNCHANGED <<peer, arrived, split, hand>>

-----------------------------------------------------------------------------
(***************************************************************************)
(* The handler.  A recv() for n octets returns what there is of them; none *)
(* means that the peer has closed, or else recv() waits.                   *)
(***************************************************************************)
Available == arrived - read
CanReceive == Available > 0 \/ fin

End(why) ==
    /\ pc' = "done"
    /\ verdict' = why
    /\ UNCHANGED <<need, cur, taken>>

\* The packet i has been read to its end.
Take(i) ==
    /\ pc' = "header"
    /\ taken' = Append(taken, i)
    /\ need' = 0 /\ cur' = 0
    /\ UNCHANGED verdict

\* What the handler makes of a header: the packet i it belongs to, or, when it
\* is not the start of one, any packet.
Means(i) == IF \E j \in DOMAIN first : first[j] = read THEN first[i] = read ELSE TRUE
Is(i)    == IF first[i] = read THEN i ELSE 0

HeaderShort ==
    /\ pc = "header"
    /\ CanReceive
    /\ Available < Header
    /\ read' = arrived
    /\ End(IF Available = 0 THEN "closed" ELSE "header")
    /\ UNCHANGED <<peer, net>>

Expect(i, n) ==
    /\ pc' = "body"
    /\ need' = n
    /\ cur' = Is(i)
    /\ UNCHANGED <<taken, verdict>>

\* Mutant: nTotalLen for nBodyLen.
Parse_TotalLen(i) ==
    IF sent[i].enquire \/ sent[i].body = 0
    THEN Take(Is(i))
    ELSE Expect(i, Header + sent[i].body)

\* Mutant: break for the continue after an enquiry.
Parse_Break(i) ==
    IF sent[i].enquire THEN End("closed")
    ELSE IF sent[i].body = 0 THEN Take(Is(i)) ELSE Expect(i, sent[i].body)

\* An enquiry is answered at once, and what has no body is posted.
Parse(i) ==
    IF sent[i].enquire \/ sent[i].body = 0
    THEN Take(Is(i))
    ELSE Expect(i, sent[i].body)

ReadHeader ==
    /\ pc = "header"
    /\ Available >= Header
    /\ read' = read + Header
    /\ \E i \in DOMAIN sent : Means(i) /\ Parse(i)
    /\ UNCHANGED <<peer, net>>

\* Mutant: a short body is posted like a whole one.
BodyShort_Posted ==
    /\ pc = "body"
    /\ CanReceive
    /\ Available < need
    /\ read' = arrived
    /\ Take(cur)
    /\ UNCHANGED <<peer, net>>

BodyShort ==
    /\ pc = "body"
    /\ CanReceive
    /\ Available < need
    /\ read' = arrived
    /\ End("body")
    /\ UNCHANGED <<peer, net>>

ReadBody ==
    /\ pc = "body"
    /\ Available >= need
    /\ read' = read + need
    /\ Take(cur)
    /\ UNCHANGED <<peer, net>>

Handler == HeaderShort \/ ReadHeader \/ BodyShort \/ ReadBody

Next == Send \/ Close \/ Arrive \/ Fin \/ Handler

\* What is sent arrives, and the handler runs.
Fairness == WF_vars(Arrive) /\ WF_vars(Fin) /\ WF_vars(Handler)

Spec == Init /\ [][Next]_vars

FairSpec == Spec /\ Fairness

-----------------------------------------------------------------------------
(***************************************************************************)
(* Properties.                                                             *)
(***************************************************************************)

\* The handler is never out of step with its peer: whatever the segments, the
\* packets it answers and posts are those sent, whole and in order.
InStep == \A i \in DOMAIN taken : taken[i] = i

\* A peer that closes loses nothing it has sent.
NothingLost == verdict = "closed" => Len(taken) = Len(sent)

\* "Please use CMP to communicate", "Invalid Packet": as long as each segment
\* ends with a packet, no peer that speaks CMP is told so.  One that does is,
\* when TCP happens to split what it sends.
RefusesOnlySplit == verdict \in {"header", "body"} => split

\* Every packet is taken in the end, or its connection is refused.
Handled ==
    \A i \in 1 .. MaxPacket :
        Len(sent) >= i ~> Len(taken) >= i \/ verdict \in {"header", "body"}
=============================================================================
