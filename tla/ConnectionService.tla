------------------------- MODULE ConnectionService -------------------------
(***************************************************************************)
(* What a socket server promises the program behind it, whatever threads   *)
(* it uses: an accepted connection is served once; its messages and then   *)
(* one disconnect, the last thing said of it, come in order; only then is  *)
(* its number given to another connection.                                 *)
(***************************************************************************)
EXTENDS Sequences

CONSTANTS FD, Conn, None

VARIABLES
    holder,  \* the connection a number denotes, or None
    stage,   \* "away", "waiting", "served", "leaving", "over"
    events   \* what the program has not consumed yet

vars == <<holder, stage, events>>

Said(c, f) == [kind |-> "receive", fd |-> f, src |-> c]
Gone(c, f) == [kind |-> "disconnect", fd |-> f, src |-> c]

Init ==
    /\ holder = [f \in FD |-> None]
    /\ stage = [c \in Conn |-> "away"]
    /\ events = <<>>

Move(c, from, to) ==
    /\ stage[c] = from
    /\ stage' = [stage EXCEPT ![c] = to]

Accept(c, f) ==
    /\ holder[f] = None
    /\ holder' = [holder EXCEPT ![f] = c]
    /\ Move(c, "away", "waiting")
    /\ UNCHANGED events

Serve(c) ==
    /\ Move(c, "waiting", "served")
    /\ UNCHANGED <<holder, events>>

Say(c, f) ==
    /\ stage[c] = "served"
    /\ holder[f] = c
    /\ events' = Append(events, Said(c, f))
    /\ UNCHANGED <<holder, stage>>

Announce(c, f) ==
    /\ holder[f] = c
    /\ Move(c, "served", "leaving")
    /\ events' = Append(events, Gone(c, f))
    /\ UNCHANGED holder

Release(c, f) ==
    /\ holder[f] = c
    /\ holder' = [holder EXCEPT ![f] = None]
    /\ Move(c, "leaving", "over")
    /\ UNCHANGED events

Consume ==
    /\ events # <<>>
    /\ events' = Tail(events)
    /\ UNCHANGED <<holder, stage>>

Next ==
    \/ \E c \in Conn : Serve(c)
    \/ \E c \in Conn, f \in FD :
         Accept(c, f) \/ Say(c, f) \/ Announce(c, f) \/ Release(c, f)
    \/ Consume

Spec == Init /\ [][Next]_vars
=============================================================================
