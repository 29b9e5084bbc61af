--------------------------- MODULE WatchdogProofs ---------------------------
(***************************************************************************)
(* Proofs about Watchdog: types, and for any number of processes, signals  *)
(* and crashes, which children the parent watches and who has a queue.     *)
(***************************************************************************)
EXTENDS Watchdog, TLAPS

\* Where the parent is and the process ids it holds.
ParentShape ==
    /\ ppc = "setup" => newPid \in Proc /\ newPid \notin turned /\ st[newPid] # "free"
    /\ ppc \notin {"setup", "killed"} => newPid = None
    /\ ppc = "wait" => childPid \in Proc /\ childPid \notin turned /\ st[childPid] # "free"
    /\ handler => childPid \in Proc
    /\ installed => childPid \in Proc

\* The parent never waits again for a child it has left.
TurnedStay == \A p \in turned : st[p] # "free"

\* A child that has inherited PSigHander is alone, but for children left.
HeirAlone ==
    \A p, q \in Proc :
        st[q] = "heir" /\ Alive(p) /\ p # q => turned # {}

WatchInv ==
    /\ TypeOK
    /\ ParentShape
    /\ TurnedStay
    /\ HeirAlone
    /\ ChildrenWatched
    /\ ServiceHasQueue

\* The part of TypeOK that Die touches.
ChildTypes ==
    /\ st \in [Proc -> {"free", "boot", "heir", "heirkill", "init", "serve",
                        "stopping", "deaf", "dead"}]
    /\ stopped \in SUBSET Proc
    /\ report \in SUBSET Proc
    /\ cause \in [Proc -> {"exit", "term", "kill"}]
    /\ port \in Proc \cup {None}

\* Killing a set of processes keeps the types and revives nobody.
LEMMA DieKeeps ==
    ASSUME TypeOK, NEW K \in SUBSET Proc, NEW how \in {"exit", "term", "kill"},
           Die(K, how)
    PROVE  /\ ChildTypes'
           /\ \A p \in Proc : st'[p] = (IF p \in K THEN "dead" ELSE st[p])
  BY DEF TypeOK, ChildTypes, Die

LEMMA WatchInit == Init => WatchInv
<1> SUFFICES ASSUME Init PROVE WatchInv
  OBVIOUS
<1>1. TypeOK
  <2>1. terms \in 0 .. MaxTerm
    BY TermAssumption DEF Init
  <2> QED
    BY <2>1 DEF Init, TypeOK
<1>2. \A p \in Proc : st[p] = "free"
  BY DEF Init
<1>3. ParentShape /\ TurnedStay
  BY DEF Init, ParentShape, TurnedStay
<1>4. HeirAlone /\ ChildrenWatched /\ ServiceHasQueue
  BY <1>2 DEF HeirAlone, Alive, ChildrenWatched, ServiceHasQueue
<1> QED
  BY <1>1, <1>3, <1>4 DEF WatchInv

\* Every step keeps the types.
LEMMA WatchType == TypeOK /\ ParentShape /\ [Next]_vars => TypeOK'
<1> SUFFICES ASSUME TypeOK, ParentShape, [Next]_vars
             PROVE  TypeOK'
  OBVIOUS
<1> USE DEF parent, child, ParentAt
<1>1. ASSUME NEW p \in Proc, Fork(p)
      PROVE  TypeOK'
  BY <1>1 DEF Fork, TypeOK
<1>2. CASE ForkFail \/ Setup \/ WaitChange \/ CloseMessage \/ Loop
  BY <1>2 DEF TypeOK, ParentShape, ForkFail, Setup, WaitChange, CloseMessage, Loop
<1>3. CASE Reap
  BY <1>3 DEF TypeOK, ParentShape, Reap
<1>4. CASE TermParent
  <2>1. terms' \in 0 .. MaxTerm
    BY <1>4, TermAssumption DEF TypeOK, TermParent
  <2>2. flag' \in BOOLEAN /\ handler' \in BOOLEAN
    BY <1>4, Zenon DEF TypeOK, TermParent
  <2>3. ppc' \in {ppc, "killed"} /\ attached' \in SUBSET Proc
    BY <1>4 DEF TypeOK, TermParent
  <2> QED
    BY <1>4, <2>1, <2>2, <2>3 DEF TypeOK, TermParent
<1>5. CASE HandlerKill
  <2> DEFINE K == {p \in {childPid} : Alive(p)}
  <2>1. K \in SUBSET Proc /\ Die(K, "kill")
    BY <1>5 DEF HandlerKill, ParentShape
  <2> HIDE DEF K
  <2>2. ChildTypes'
    BY <2>1, DieKeeps
  <2> QED
    BY <1>5, <2>2 DEF TypeOK, ChildTypes, HandlerKill
<1>6. ASSUME NEW p \in Proc, Signals(p) \/ Start(p) \/ StopServer(p)
      PROVE  TypeOK'
  BY <1>6 DEF TypeOK, Signals, Start, StopServer
<1>7. ASSUME NEW p \in Proc, StartFail(p) \/ Crash(p)
      PROVE  TypeOK'
  <2>1. Die({p}, "exit") \/ Die({p}, "kill")
    BY <1>7 DEF StartFail, Crash
  <2>2. ChildTypes'
    BY <2>1, DieKeeps
  <2> QED
    BY <1>7, <2>2 DEF TypeOK, ChildTypes, StartFail, Crash
<1>8. ASSUME NEW p \in Proc, GroupKill(p)
      PROVE  TypeOK'
  <2> DEFINE K == {q \in Proc : Alive(q)}
  <2>1. K \in SUBSET Proc /\ Die(K, "kill")
    BY <1>8 DEF GroupKill
  <2> HIDE DEF K
  <2>2. ChildTypes'
    BY <2>1, DieKeeps
  <2> QED
    BY <1>8, <2>2 DEF TypeOK, ChildTypes, GroupKill
<1>9. ASSUME NEW p \in Proc, TermBoot(p)
      PROVE  TypeOK'
  <2>1. CASE Die({p}, "term") /\ UNCHANGED attached
    <3>1. ChildTypes'
      BY <2>1, DieKeeps
    <3> QED
      BY <1>9, <2>1, <3>1 DEF TypeOK, ChildTypes, TermBoot
  <2>2. CASE st' = [st EXCEPT ![p] = "heirkill"] /\ attached' = {}
             /\ UNCHANGED <<stopped, report, cause, port>>
    BY <1>9, <2>2 DEF TypeOK, TermBoot
  <2> QED
    BY <1>9, <2>1, <2>2 DEF TermBoot
<1>10. ASSUME NEW p \in Proc, TermServe(p)
       PROVE  TypeOK'
  BY <1>10 DEF TypeOK, TermServe
<1>11. ASSUME NEW p \in Proc, Stop(p) \/ Continue(p)
       PROVE  TypeOK'
  <2>1. stopped' \in SUBSET Proc /\ report' \in SUBSET Proc
    BY <1>11 DEF TypeOK, Stop, Continue
  <2>2. UNCHANGED <<parent, st, cause, port, attached, turned>>
    BY <1>11 DEF Stop, Continue
  <2> QED
    BY <2>1, <2>2 DEF TypeOK
<1>12. CASE UNCHANGED vars
  BY <1>12 DEF vars, TypeOK
<1> QED
  BY <1>1, <1>2, <1>3, <1>4, <1>5, <1>6, <1>7, <1>8, <1>9, <1>10, <1>11, <1>12
     DEF Next, ParentStep, ChildStep

\* A step that leaves the parent's variables alone, revives no child and starts
\* no service keeps the invariant.
LEMMA Calm ==
    ASSUME WatchInv, UNCHANGED <<ppc, childPid, newPid, flag, turned>>,
           handler' \in {handler, FALSE}, installed' = installed,
           \A p \in Proc : /\ st'[p] = "free" <=> st[p] = "free"
                           /\ Alive(p)' => Alive(p)
                           /\ st'[p] = "heir" => st[p] = "heir",
           \A p \in Proc : st'[p] = "serve" =>
               \/ p \in attached'
               \/ turned # {} \/ flag
    PROVE  /\ ParentShape' /\ TurnedStay' /\ HeirAlone'
           /\ ChildrenWatched' /\ ServiceHasQueue'
<1>1. ParentShape'
  <2>1. handler' => childPid \in Proc
    BY Zenon DEF WatchInv, ParentShape
  <2>2. installed' => childPid \in Proc
    BY Zenon DEF WatchInv, ParentShape
  <2> QED
    BY <2>1, <2>2 DEF WatchInv, ParentShape
<1>2. TurnedStay'
  BY DEF WatchInv, TypeOK, TurnedStay
<1>3. HeirAlone'
  BY DEF WatchInv, HeirAlone
<1>4. ChildrenWatched'
  BY DEF WatchInv, ChildrenWatched, Up, Watched
<1>5. ServiceHasQueue'
  BY DEF ServiceHasQueue
<1> QED
  BY <1>1, <1>2, <1>3, <1>4, <1>5

\* The parent's own steps but the kill of its handler.
LEMMA WatchParent ==
    ASSUME WatchInv,
           \/ \E p \in Proc : Fork(p)
           \/ ForkFail \/ Setup \/ Reap \/ WaitChange \/ CloseMessage \/ Loop
           \/ TermParent
    PROVE  /\ ParentShape' /\ TurnedStay' /\ HeirAlone'
           /\ ChildrenWatched' /\ ServiceHasQueue'
<1>0. TypeOK /\ ParentShape /\ TurnedStay /\ HeirAlone /\ ChildrenWatched
      /\ ServiceHasQueue
  BY DEF WatchInv
<1> USE DEF parent, child, ParentAt
<1>1. ASSUME NEW p \in Proc, Fork(p)
      PROVE  /\ ParentShape' /\ TurnedStay' /\ HeirAlone'
             /\ ChildrenWatched' /\ ServiceHasQueue'
  <2>1. /\ ppc = "fork" /\ ppc' = "setup" /\ newPid' = p /\ st[p] = "free"
        /\ UNCHANGED <<childPid, flag, installed, handler, turned, attached>>
        /\ st'[p] \in {"boot", "heir"}
        /\ \A q \in Proc : q # p => st'[q] = st[q]
    BY <1>0, <1>1 DEF Fork, TypeOK
  <2>2. \A q \in Proc : Alive(q) => q \in turned
    BY <1>0, <2>1, NoneAssumption DEF ChildrenWatched, Up, Watched, ParentShape
  <2>3. p \notin turned
    BY <1>0, <2>1 DEF TurnedStay
  <2>4. ParentShape'
    BY <1>0, <2>1, <2>3 DEF ParentShape
  <2>5. TurnedStay'
    BY <1>0, <2>1 DEF TurnedStay, TypeOK
  <2>6. HeirAlone'
    <3> SUFFICES ASSUME NEW q \in Proc, NEW r \in Proc, st'[r] = "heir",
                        Alive(q)', q # r
                 PROVE  turned # {}
      BY <2>1 DEF HeirAlone
    <3>1. CASE q # p
      BY <2>1, <2>2, <3>1 DEF Alive
    <3>2. CASE r # p
      BY <2>1, <2>2, <3>2 DEF Alive
    <3> QED
      BY <3>1, <3>2
  <2>7. ChildrenWatched'
    BY <2>1, <2>2 DEF ChildrenWatched, Alive, Watched
  <2>8. ServiceHasQueue'
    BY <1>0, <2>1 DEF ServiceHasQueue
  <2> QED
    BY <2>4, <2>5, <2>6, <2>7, <2>8
<1>2. CASE ForkFail \/ Setup \/ Loop
  <2>1. /\ UNCHANGED <<st, flag, attached, turned, handler>>
        /\ \/ ppc = "setup" /\ ppc' = "wait" /\ childPid' = newPid /\ newPid' = None
           \/ /\ ppc \in {"fork", "sleep"} /\ ppc' \in {"failed", "fork", "done"}
              /\ UNCHANGED <<childPid, newPid, installed>>
    BY <1>2 DEF ForkFail, Setup, Loop
  <2>2. ParentShape'
    BY <1>0, <2>1 DEF ParentShape
  <2>3. TurnedStay' /\ HeirAlone' /\ ServiceHasQueue'
    BY <1>0, <2>1 DEF TurnedStay, HeirAlone, Alive, ServiceHasQueue
  <2>4. ChildrenWatched'
    BY <1>0, <2>1 DEF ChildrenWatched, Up, Watched, Alive, ParentShape
  <2> QED
    BY <2>2, <2>3, <2>4
<1>3. CASE Reap
  <2>1. /\ ppc = "wait" /\ ppc' = "clean" /\ st[childPid] = "dead"
        /\ st' = [st EXCEPT ![childPid] = "free"]
        /\ UNCHANGED <<childPid, newPid, flag, installed, handler, attached, turned>>
        /\ childPid \in Proc /\ childPid \notin turned
    BY <1>0, <1>3 DEF Reap, ParentShape
  <2>2. \A p \in Proc : st'[p] = IF p = childPid THEN "free" ELSE st[p]
    BY <1>0, <2>1 DEF TypeOK
  <2>3. ParentShape' /\ TurnedStay'
    BY <1>0, <2>1, <2>2 DEF ParentShape, TurnedStay, TypeOK
  <2>4. HeirAlone' /\ ServiceHasQueue'
    BY <1>0, <2>1, <2>2 DEF HeirAlone, Alive, ServiceHasQueue
  <2>5. ChildrenWatched'
    BY <1>0, <2>1, <2>2 DEF ChildrenWatched, Up, Watched, Alive
  <2> QED
    BY <2>3, <2>4, <2>5
<1>4. CASE WaitChange
  <2>1. /\ ppc = "wait" /\ ppc' = "clean" /\ turned' = turned \cup {childPid}
        /\ UNCHANGED <<childPid, newPid, flag, installed, handler, st, attached>>
        /\ childPid \in Proc /\ st[childPid] # "free"
    BY <1>0, <1>4 DEF WaitChange, ParentShape
  <2>2. ParentShape' /\ TurnedStay'
    BY <1>0, <2>1 DEF ParentShape, TurnedStay
  <2>3. HeirAlone' /\ ServiceHasQueue'
    BY <2>1 DEF HeirAlone, ServiceHasQueue
  <2>4. ChildrenWatched'
    BY <1>0, <2>1 DEF ChildrenWatched, Up, Watched, Alive
  <2> QED
    BY <2>2, <2>3, <2>4
<1>5. CASE CloseMessage
  <2>1. /\ ppc = "clean" /\ ppc' = "sleep"
        /\ UNCHANGED <<childPid, newPid, flag, installed, handler, st, turned>>
    BY <1>5 DEF CloseMessage
  <2>2. \A p \in Proc : Alive(p) => p \in turned
    BY <1>0, <2>1, NoneAssumption DEF ChildrenWatched, Up, Watched, ParentShape
  <2>3. ParentShape' /\ TurnedStay'
    BY <1>0, <2>1 DEF ParentShape, TurnedStay
  <2>4. HeirAlone' /\ ServiceHasQueue'
    BY <1>0, <2>1, <2>2 DEF HeirAlone, Alive, ServiceHasQueue
  <2>5. ChildrenWatched'
    BY <2>1, <2>2 DEF ChildrenWatched, Alive
  <2> QED
    BY <2>3, <2>4, <2>5
<1>6. CASE TermParent
  <2>1. /\ UNCHANGED <<childPid, newPid, installed, st, turned>>
        /\ \/ installed /\ flag' = TRUE /\ UNCHANGED ppc
           \/ ppc' = "killed" /\ UNCHANGED <<flag, attached, handler>>
    BY <1>6 DEF TermParent
  <2>2. ParentShape'
    <3>1. CASE ppc' = "killed" /\ UNCHANGED <<flag, attached, handler>>
      BY <1>0, <2>1, <3>1 DEF ParentShape
    <3>2. CASE installed /\ flag' = TRUE /\ UNCHANGED ppc
      BY <1>0, <2>1, <3>2 DEF ParentShape
    <3> QED
      BY <2>1, <3>1, <3>2
  <2>3. TurnedStay' /\ HeirAlone' /\ ServiceHasQueue'
    BY <1>0, <2>1 DEF TurnedStay, HeirAlone, Alive, ServiceHasQueue
  <2>4. ChildrenWatched'
    BY <1>0, <2>1 DEF ChildrenWatched, Up, Watched, Alive
  <2> QED
    BY <2>2, <2>3, <2>4
<1> QED
  BY <1>1, <1>2, <1>3, <1>4, <1>5, <1>6

\* What Die does to the states of the children.
LEMMA DieCalm ==
    ASSUME TypeOK, NEW K \in SUBSET Proc, NEW how \in {"exit", "term", "kill"},
           Die(K, how), \A p \in K : st[p] # "free"
    PROVE  \A p \in Proc : /\ st'[p] = "free" <=> st[p] = "free"
                           /\ Alive(p)' => Alive(p)
                           /\ st'[p] = "heir" => st[p] = "heir"
                           /\ st'[p] = "serve" => st[p] = "serve"
  BY DieKeeps DEF Alive

\* The children's steps, what befalls them, and the kill of the handler.
LEMMA WatchChild ==
    ASSUME WatchInv,
           \/ HandlerKill
           \/ \E p \in Proc : \/ ChildStep(p) \/ TermBoot(p) \/ TermServe(p)
                              \/ Crash(p) \/ Stop(p) \/ Continue(p)
           \/ UNCHANGED vars
    PROVE  /\ ParentShape' /\ TurnedStay' /\ HeirAlone'
           /\ ChildrenWatched' /\ ServiceHasQueue'
<1>0. TypeOK /\ ParentShape /\ TurnedStay /\ HeirAlone /\ ChildrenWatched
      /\ ServiceHasQueue
  BY DEF WatchInv
<1> USE DEF parent, child
<1>1. CASE HandlerKill
  <2> DEFINE K == {p \in {childPid} : Alive(p)}
  <2>1. K \in SUBSET Proc /\ Die(K, "kill") /\ \A p \in K : st[p] # "free"
    BY <1>0, <1>1 DEF HandlerKill, ParentShape, Alive
  <2> HIDE DEF K
  <2>2. \A p \in Proc : /\ st'[p] = "free" <=> st[p] = "free"
                        /\ Alive(p)' => Alive(p)
                        /\ st'[p] = "heir" => st[p] = "heir"
                        /\ st'[p] = "serve" => st[p] = "serve"
    BY <1>0, <2>1, DieCalm
  <2>3. /\ UNCHANGED <<ppc, childPid, newPid, flag, turned, installed, attached>>
        /\ handler' = FALSE
    BY <1>1 DEF HandlerKill
  <2> QED
    BY <1>0, <2>2, <2>3, Calm DEF ServiceHasQueue
<1>2. ASSUME NEW p \in Proc, Signals(p) \/ Start(p) \/ StopServer(p) \/ TermServe(p)
      PROVE  /\ ParentShape' /\ TurnedStay' /\ HeirAlone'
             /\ ChildrenWatched' /\ ServiceHasQueue'
  <2>1. \E s \in {"init", "serve", "deaf", "stopping"} :
           /\ st' = [st EXCEPT ![p] = s]
           /\ s = "serve" => attached' = attached \cup {p}
           /\ s # "serve" => attached' = attached
    BY <1>2 DEF Signals, Start, StopServer, TermServe
  <2>2. Alive(p) /\ UNCHANGED <<parent, turned>>
    BY <1>2 DEF Signals, Start, StopServer, TermServe, Running
  <2>3. \A q \in Proc : /\ st'[q] = "free" <=> st[q] = "free"
                        /\ Alive(q)' => Alive(q)
                        /\ st'[q] = "heir" => st[q] = "heir"
    BY <1>0, <2>1, <2>2 DEF TypeOK, Alive
  <2>4. \A q \in Proc : st'[q] = "serve" => q \in attached' \/ turned # {} \/ flag
    BY <1>0, <2>1 DEF TypeOK, ServiceHasQueue
  <2> QED
    BY <2>2, <2>3, <2>4, Calm
<1>3. ASSUME NEW p \in Proc,
             \/ StartFail(p) \/ Crash(p)
             \/ TermBoot(p) /\ Die({p}, "term") /\ UNCHANGED attached
      PROVE  /\ ParentShape' /\ TurnedStay' /\ HeirAlone'
             /\ ChildrenWatched' /\ ServiceHasQueue'
  <2>1. /\ Die({p}, "exit") \/ Die({p}, "kill") \/ Die({p}, "term")
        /\ st[p] # "free" /\ UNCHANGED <<parent, attached, turned>>
    BY <1>3 DEF StartFail, Crash, TermBoot, Running, Alive
  <2>2. \A q \in Proc : /\ st'[q] = "free" <=> st[q] = "free"
                        /\ Alive(q)' => Alive(q)
                        /\ st'[q] = "heir" => st[q] = "heir"
                        /\ st'[q] = "serve" => st[q] = "serve"
    BY <1>0, <2>1, DieCalm
  <2> QED
    BY <1>0, <2>1, <2>2, Calm DEF ServiceHasQueue
<1>4. ASSUME NEW p \in Proc, GroupKill(p)
      PROVE  /\ ParentShape' /\ TurnedStay' /\ HeirAlone'
             /\ ChildrenWatched' /\ ServiceHasQueue'
  <2> DEFINE K == {q \in Proc : Alive(q)}
  <2>1. K \in SUBSET Proc /\ Die(K, "kill") /\ \A q \in Proc : q \in K <=> Alive(q)
    BY <1>4 DEF GroupKill
  <2> HIDE DEF K
  <2>2. \A q \in Proc : st'[q] = IF Alive(q) THEN "dead" ELSE st[q]
    BY <1>0, <2>1, DieKeeps
  <2>3. /\ UNCHANGED <<childPid, newPid, flag, installed, attached, turned>>
        /\ handler' = FALSE
        /\ ppc' = "killed" \/ (~ Up /\ ppc' = ppc)
    BY <1>4 DEF GroupKill
  <2>4. \A q \in Proc : ~ Alive(q)' /\ (st[q] # "free" => st'[q] # "free")
    BY <2>2 DEF Alive
  <2>5. ParentShape'
    BY <1>0, <2>3 DEF ParentShape, Up
  <2>6. TurnedStay'
    BY <1>0, <2>3, <2>4 DEF TurnedStay, TypeOK
  <2>7. HeirAlone' /\ ChildrenWatched' /\ ServiceHasQueue'
    BY <2>4 DEF HeirAlone, ChildrenWatched, ServiceHasQueue, Alive
  <2> QED
    BY <2>5, <2>6, <2>7
<1>5. ASSUME NEW p \in Proc, TermBoot(p), st[p] = "heir",
             st' = [st EXCEPT ![p] = "heirkill"]
      PROVE  /\ ParentShape' /\ TurnedStay' /\ HeirAlone'
             /\ ChildrenWatched' /\ ServiceHasQueue'
  <2>1. UNCHANGED <<parent, turned>>
    BY <1>5 DEF TermBoot
  <2>2. \A q \in Proc : /\ st'[q] = "free" <=> st[q] = "free"
                        /\ Alive(q)' => Alive(q)
                        /\ st'[q] = "heir" => st[q] = "heir"
    BY <1>0, <1>5 DEF TypeOK, Alive
  <2>3. \A q \in Proc : st'[q] = "serve" => turned # {}
    BY <1>0, <1>5 DEF TypeOK, HeirAlone, Alive
  <2> QED
    BY <2>1, <2>2, <2>3, Calm
<1>6. CASE UNCHANGED vars \/ \E p \in Proc : Stop(p) \/ Continue(p)
  <2>1. UNCHANGED <<parent, st, attached, turned>>
    BY <1>6 DEF vars, Stop, Continue
  <2> QED
    BY <1>0, <2>1, Calm DEF Alive, ServiceHasQueue
<1>7. \A p \in Proc : TermBoot(p) =>
         \/ Die({p}, "term") /\ UNCHANGED attached
         \/ st[p] = "heir" /\ st' = [st EXCEPT ![p] = "heirkill"]
  BY DEF TermBoot
<1> QED
  BY <1>1, <1>2, <1>3, <1>4, <1>5, <1>6, <1>7 DEF ChildStep

LEMMA WatchInductive == Spec => []WatchInv
<1>1. WatchInv /\ [Next]_vars => WatchInv'
  <2> SUFFICES ASSUME WatchInv, [Next]_vars
               PROVE  WatchInv'
    OBVIOUS
  <2>1. TypeOK'
    BY WatchType DEF WatchInv
  <2>2. /\ ParentShape' /\ TurnedStay' /\ HeirAlone'
        /\ ChildrenWatched' /\ ServiceHasQueue'
    BY WatchParent, WatchChild DEF Next, ParentStep
  <2> QED
    BY <2>1, <2>2 DEF WatchInv
<1> QED
  BY <1>1, WatchInit, PTL DEF Spec

\* Every reachable state has its types.
THEOREM WatchTypeCorrect == Spec => []TypeOK
<1>1. WatchInv => TypeOK
  BY DEF WatchInv
<1> QED
  BY <1>1, WatchInductive, PTL

\* However often the service dies and is restarted, the parent has one live
\* child, the one it watches, and those it left because they were stopped.
THEOREM ChildrenWatchedHolds == Spec => []ChildrenWatched
<1>1. WatchInv => ChildrenWatched
  BY DEF WatchInv
<1> QED
  BY <1>1, WatchInductive, PTL

\* Nobody removes the queue of a started service, as long as no child has been
\* stopped and the parent has not been told to end.
THEOREM ServiceHasQueueHolds == Spec => []ServiceHasQueue
<1>1. WatchInv => ServiceHasQueue
  BY DEF WatchInv
<1> QED
  BY <1>1, WatchInductive, PTL

-----------------------------------------------------------------------------
(***************************************************************************)
(* Two services at a time take a stopped child.                            *)
(***************************************************************************)
OneLive == \A p, q \in Proc : Alive(p) /\ Alive(q) => p = q \/ {p, q} \cap turned # {}

\* Only fork() makes a live child; no child the parent has left comes back.
LEMMA OnlyForkRevives ==
    ASSUME WatchInv, [Next]_vars, \A p \in Proc : ~ Fork(p)
    PROVE  turned \subseteq turned' /\ \A p \in Proc : Alive(p)' => Alive(p)
<1>0. TypeOK /\ ParentShape
  BY DEF WatchInv
<1> USE DEF parent, child, ParentAt
<1>1. ASSUME NEW K \in SUBSET Proc, Die(K, "exit") \/ Die(K, "term") \/ Die(K, "kill")
      PROVE  \A p \in Proc : Alive(p)' => Alive(p)
  BY <1>0, <1>1, DieKeeps DEF Alive
<1>2. CASE ForkFail \/ Setup \/ WaitChange \/ CloseMessage \/ Loop \/ TermParent
  BY <1>2 DEF ForkFail, Setup, WaitChange, CloseMessage, Loop, TermParent, Alive
<1>3. CASE Reap
  BY <1>0, <1>3 DEF Reap, TypeOK, Alive
<1>4. CASE HandlerKill
  <2> DEFINE K == {p \in {childPid} : Alive(p)}
  <2>1. K \in SUBSET Proc /\ Die(K, "kill") /\ turned' = turned
    BY <1>0, <1>4 DEF HandlerKill, ParentShape
  <2> QED
    BY <1>1, <2>1
<1>5. ASSUME NEW p \in Proc, Signals(p) \/ Start(p) \/ StopServer(p) \/ TermServe(p)
      PROVE  turned' = turned /\ \A q \in Proc : Alive(q)' => Alive(q)
  BY <1>0, <1>5 DEF Signals, Start, StopServer, TermServe, TypeOK, Running, Alive
<1>6. ASSUME NEW p \in Proc, StartFail(p) \/ Crash(p)
      PROVE  turned' = turned /\ \A q \in Proc : Alive(q)' => Alive(q)
  <2>1. (Die({p}, "exit") \/ Die({p}, "kill")) /\ turned' = turned
    BY <1>6 DEF StartFail, Crash
  <2> QED
    BY <1>1, <2>1
<1>7. ASSUME NEW p \in Proc, GroupKill(p)
      PROVE  turned' = turned /\ \A q \in Proc : Alive(q)' => Alive(q)
  <2> DEFINE K == {q \in Proc : Alive(q)}
  <2>1. K \in SUBSET Proc /\ Die(K, "kill") /\ turned' = turned
    BY <1>7 DEF GroupKill
  <2> QED
    BY <1>1, <2>1
<1>8. ASSUME NEW p \in Proc, TermBoot(p)
      PROVE  turned' = turned /\ \A q \in Proc : Alive(q)' => Alive(q)
  <2>1. turned' = turned /\ Alive(p)
    BY <1>8 DEF TermBoot, Running
  <2>2. CASE Die({p}, "term")
    BY <1>1, <2>1, <2>2
  <2>3. CASE st' = [st EXCEPT ![p] = "heirkill"]
    BY <1>0, <2>1, <2>3 DEF TypeOK, Alive
  <2> QED
    BY <1>8, <2>1, <2>2, <2>3 DEF TermBoot
<1>9. CASE UNCHANGED vars \/ \E p \in Proc : Stop(p) \/ Continue(p)
  BY <1>9 DEF vars, Stop, Continue, Alive
<1> QED
  BY <1>2, <1>3, <1>4, <1>5, <1>6, <1>7, <1>8, <1>9 DEF Next, ParentStep, ChildStep

\* Before the parent forks, every live child is one it has left.
LEMMA OneLiveStep == WatchInv /\ OneLive /\ [Next]_vars => OneLive'
<1> SUFFICES ASSUME WatchInv, OneLive, [Next]_vars
             PROVE  OneLive'
  OBVIOUS
<1>1. ASSUME NEW p \in Proc, Fork(p)
      PROVE  OneLive'
  <2>1. ppc = "fork" /\ UNCHANGED turned /\ \A q \in Proc : q # p => st'[q] = st[q]
    BY <1>1 DEF WatchInv, TypeOK, Fork, ParentAt
  <2>2. \A q \in Proc : Alive(q) => q \in turned
    BY <2>1, NoneAssumption DEF WatchInv, ChildrenWatched, ParentShape, Up, Watched
  <2>3. \A q \in Proc : Alive(q)' => q = p \/ q \in turned'
    BY <2>1, <2>2 DEF Alive
  <2> QED
    BY <2>3 DEF OneLive
<1>2. CASE \A p \in Proc : ~ Fork(p)
  <2>1. turned \subseteq turned' /\ \A p \in Proc : Alive(p)' => Alive(p)
    BY <1>2, OnlyForkRevives
  <2> QED
    BY <2>1 DEF OneLive
<1> QED
  BY <1>1, <1>2

\* Where nobody stops a child, the parent never leaves one.
LEMMA NoneLeftStep ==
    ASSUME TRUE \notin Stops, report = {}, turned = {}, stopped = {}, [Next]_vars
    PROVE  report' = {} /\ turned' = {} /\ stopped' = {}
<1> USE DEF parent, child, Die
<1>1. CASE ParentStep \/ TermParent
  BY <1>1 DEF ParentStep, Fork, ForkFail, Setup, Reap, WaitChange, CloseMessage,
     Loop, HandlerKill, TermParent
<1>2. ASSUME NEW p \in Proc,
             \/ ChildStep(p) \/ TermBoot(p) \/ TermServe(p) \/ Crash(p)
             \/ Stop(p) \/ Continue(p)
      PROVE  report' = {} /\ turned' = {} /\ stopped' = {}
  BY <1>2 DEF ChildStep, Signals, Start, StartFail, StopServer, GroupKill, TermBoot,
     TermServe, Crash, Stop, Continue
<1>3. CASE UNCHANGED vars
  BY <1>3 DEF vars
<1> QED
  BY <1>1, <1>2, <1>3 DEF Next

\* Unless somebody stops a child, no two services live at a time, whatever dies,
\* is restarted or gets a signal, and whether or not the parent is still there.
THEOREM OneServiceUnlessStopped ==
    ASSUME TRUE \notin Stops
    PROVE  Spec => [](\A p, q \in Proc : Alive(p) /\ Alive(q) => p = q)
<1> DEFINE NoneLeft == report = {} /\ turned = {} /\ stopped = {}
           Unique   == \A p, q \in Proc : Alive(p) /\ Alive(q) => p = q
<1>1. Init => OneLive /\ NoneLeft
  BY DEF Init, OneLive, Alive
<1>2. NoneLeft /\ [Next]_vars => NoneLeft'
  BY NoneLeftStep
<1>3. OneLive /\ NoneLeft => Unique
  BY DEF OneLive
<1> QED
  BY <1>1, <1>2, <1>3, OneLiveStep, WatchInductive, PTL DEF Spec
=============================================================================
