------------------------------ MODULE Watchdog ------------------------------
(***************************************************************************)
(* The two processes of a center (main.cpp).  The parent (Watching) forks  *)
(* the service, waits for it, removes the message queue and forks again;   *)
(* the child (runService) serves until a signal interrupts its main loop.  *)
(* Both react to signals, in handlers that run between any two steps.      *)
(* Requests, threads and the contents of the queue are in ControlCenter.   *)
(***************************************************************************)
EXTENDS Naturals

CONSTANTS
    Proc,     \* process ids fork() may return
    None,     \* no process
    MaxTerm,  \* SIGTERM or SIGINT the parent gets: a bound
    Stops     \* whether somebody stops a child (SIGSTOP): a set of BOOLEANs

ASSUME NoneAssumption == None \notin Proc
ASSUME TermAssumption == MaxTerm \in Nat
ASSUME StopsAssumption == Stops \in SUBSET BOOLEAN

VARIABLES
    ppc,        \* parent: where it is in Watching
    childPid,   \* child_pid of the parent
    newPid,     \* what fork() returned, until it is in child_pid
    flag,       \* flag of the parent
    status,     \* what waitpid() reported last
    installed,  \* the parent's signal() calls are done
    handler,    \* PSigHander is running in the parent: in its sleep(3)
    terms,      \* signals the parent has got
    st,         \* a child: where it is, "dead" until it is waited for
    stopped,    \* children stopped by a signal
    report,     \* children with a stop or continue not yet waited for
    cause,      \* how a dead child died: "exit", "term", "kill"
    port,       \* the process that listens
    attached,   \* processes whose msqid names the existing queue
    turned      \* history: children the parent left when they were stopped

parent == <<ppc, childPid, newPid, flag, status, installed, handler, terms>>
child  == <<st, stopped, report, cause, port>>
vars   == <<parent, child, attached, turned>>

TypeOK ==
    /\ ppc \in {"fork", "setup", "wait", "clean", "sleep",
                "done", "failed", "killed"}
    /\ childPid \in Proc \cup {None}
    /\ newPid \in Proc \cup {None}
    /\ flag \in BOOLEAN
    /\ status \in {"none", "exit", "term", "kill", "change"}
    /\ installed \in BOOLEAN
    /\ handler \in BOOLEAN
    /\ terms \in 0 .. MaxTerm
    /\ st \in [Proc -> {"free", "boot", "heir", "heirkill", "init", "serve",
                        "stopping", "deaf", "dead"}]
    /\ stopped \in SUBSET Proc
    /\ report \in SUBSET Proc
    /\ cause \in [Proc -> {"exit", "term", "kill"}]
    /\ port \in Proc \cup {None}
    /\ attached \in SUBSET Proc
    /\ turned \in SUBSET Proc
    /\ ppc = "setup" => newPid \in Proc
    /\ ppc = "wait" => childPid \in Proc

Init ==
    /\ ppc = "fork"
    /\ childPid = None
    /\ newPid = None
    /\ flag = FALSE
    /\ status = "none"
    /\ installed = FALSE
    /\ handler = FALSE
    /\ terms = 0
    /\ st = [p \in Proc |-> "free"]
    /\ stopped = {}
    /\ report = {}
    /\ cause = [p \in Proc |-> "exit"]
    /\ port = None
    /\ attached = {}
    /\ turned = {}

Alive(p)   == st[p] \notin {"free", "dead"}
Running(p) == Alive(p) /\ p \notin stopped

\* The kernel ends the processes of K: their sockets close.
Die(K, how) ==
    /\ st' = [p \in Proc |-> IF p \in K THEN "dead" ELSE st[p]]
    /\ cause' = [p \in Proc |-> IF p \in K THEN how ELSE cause[p]]
    /\ stopped' = stopped \ K
    /\ report' = report \ K
    /\ port' = IF port \in K THEN None ELSE port

(***************************************************************************)
(* The parent.  While its handler runs, Watching does not.                 *)
(***************************************************************************)
ParentAt(from, to) ==
    /\ ~ handler
    /\ ppc = from
    /\ ppc' = to

\* A child forked after the signal() calls inherits PSigHander.
Fork(p) ==
    /\ ParentAt("fork", "setup")
    /\ st[p] = "free"
    /\ p # childPid
    /\ newPid' = p
    /\ st' = [st EXCEPT ![p] = IF installed THEN "heir" ELSE "boot"]
    /\ UNCHANGED <<childPid, flag, status, installed, handler, terms,
                   stopped, report, cause, port, attached, turned>>

\* Mutant: the -1 of a failed fork() taken for a child.
ForkFail_Unchecked ==
    /\ ParentAt("fork", "setup")
    /\ UNCHANGED <<childPid, newPid, flag, status, installed, handler, terms,
                   child, attached, turned>>

ForkFail ==
    /\ ParentAt("fork", "failed")
    /\ UNCHANGED <<childPid, newPid, flag, status, installed, handler, terms,
                   child, attached, turned>>

\* Mutant: the queue is removed after the fork.
Setup_Clean ==
    /\ ParentAt("setup", "wait")
    /\ childPid' = newPid
    /\ newPid' = None
    /\ installed' = TRUE
    /\ attached' = {}
    /\ UNCHANGED <<flag, status, handler, terms, child, turned>>

Setup ==
    /\ ParentAt("setup", "wait")
    /\ childPid' = newPid
    /\ newPid' = None
    /\ installed' = TRUE
    /\ UNCHANGED <<flag, status, handler, terms, child, attached, turned>>

\* waitpid() returns for a dead child.
Reap ==
    /\ ParentAt("wait", "clean")
    /\ st[childPid] = "dead"
    /\ status' = cause[childPid]
    /\ st' = [st EXCEPT ![childPid] = "free"]
    /\ cause' = [cause EXCEPT ![childPid] = "exit"]
    /\ UNCHANGED <<childPid, newPid, flag, installed, handler, terms,
                   stopped, report, port, attached, turned>>

\* Mutant: WNOHANG, which returns whatever the child does.
WaitChange_NoHang ==
    /\ ParentAt("wait", "clean")
    /\ st[childPid] # "dead"
    /\ status' = "change"
    /\ report' = report \ {childPid}
    /\ UNCHANGED <<childPid, newPid, flag, installed, handler, terms,
                   st, stopped, cause, port, attached, turned>>

\* Because of WUNTRACED and WCONTINUED, also for one stopped or continued.
WaitChange ==
    /\ ParentAt("wait", "clean")
    /\ childPid \in report
    /\ status' = "change"
    /\ report' = report \ {childPid}
    /\ turned' = turned \cup {childPid}
    /\ UNCHANGED <<childPid, newPid, flag, installed, handler, terms,
                   st, stopped, cause, port, attached>>

\* closeMessage() and the sleep(3) after it.
CloseMessage ==
    /\ ParentAt("clean", "sleep")
    /\ attached' = {}
    /\ UNCHANGED <<childPid, newPid, flag, status, installed, handler, terms,
                   child, turned>>

\* Mutant: any signal that killed the child ends the loop.
Loop_AnySignal ==
    /\ ParentAt("sleep", IF status \notin {"term", "kill"} /\ ~ flag
                         THEN "fork" ELSE "done")
    /\ status' = "none"
    /\ UNCHANGED <<childPid, newPid, flag, installed, handler, terms,
                   child, attached, turned>>

\* status is not read again before the next waitpid().
Loop ==
    /\ ParentAt("sleep", IF status # "term" /\ ~ flag THEN "fork" ELSE "done")
    /\ status' = "none"
    /\ UNCHANGED <<childPid, newPid, flag, installed, handler, terms,
                   child, attached, turned>>

Up == ppc \notin {"done", "failed", "killed"}

\* SIGTERM or SIGINT to the parent: the default action, or PSigHander.
TermParent ==
    /\ Up
    /\ ~ handler
    /\ terms < MaxTerm
    /\ terms' = terms + 1
    /\ IF installed
       THEN /\ flag' = TRUE
            /\ attached' = {}
            /\ handler' = TRUE
            /\ UNCHANGED ppc
       ELSE /\ ppc' = "killed"
            /\ UNCHANGED <<flag, attached, handler>>
    /\ UNCHANGED <<childPid, newPid, status, installed, child, turned>>

\* Mutant: SIGTERM where SIGKILL is sent, to a child in its main loop.
HandlerKill_Term ==
    /\ handler
    /\ handler' = FALSE
    /\ st' = [st EXCEPT ![childPid] = IF @ = "serve" THEN "stopping" ELSE @]
    /\ UNCHANGED <<ppc, childPid, newPid, flag, status, installed, terms,
                   stopped, report, cause, port, attached, turned>>

\* kill( child_pid, SIGKILL ), whoever child_pid is by now.
HandlerKill ==
    /\ handler
    /\ handler' = FALSE
    /\ Die({p \in {childPid} : Alive(p)}, "kill")
    /\ UNCHANGED <<ppc, childPid, newPid, flag, status, installed, terms,
                   attached, turned>>

ParentStep ==
    \/ \E p \in Proc : Fork(p)
    \/ ForkFail \/ Setup \/ Reap \/ WaitChange \/ CloseMessage \/ Loop
    \/ HandlerKill

(***************************************************************************)
(* A child.                                                                *)
(***************************************************************************)
Signals(p) ==
    /\ Running(p)
    /\ st[p] \in {"boot", "heir"}
    /\ st' = [st EXCEPT ![p] = "init"]
    /\ UNCHANGED <<parent, stopped, report, cause, port, attached, turned>>

\* init(), initMessage() and startServer(): the port must be free.
Start(p) ==
    /\ Running(p)
    /\ st[p] = "init"
    /\ port = None
    /\ port' = p
    /\ st' = [st EXCEPT ![p] = "serve"]
    /\ attached' = attached \cup {p}
    /\ UNCHANGED <<parent, stopped, report, cause, turned>>

\* One of them fails: main() returns.
StartFail(p) ==
    /\ Running(p)
    /\ st[p] = "init"
    /\ Die({p}, "exit")
    /\ UNCHANGED <<parent, attached, turned>>

\* stopServer() begins with threadExit() on the main thread: pthread_exit.
StopServer(p) ==
    /\ Running(p)
    /\ st[p] = "stopping"
    /\ st' = [st EXCEPT ![p] = "deaf"]
    /\ UNCHANGED <<parent, stopped, report, cause, port, attached, turned>>

\* PSigHander in a child, where child_pid is 0: the whole group is killed.
GroupKill(p) ==
    /\ Running(p)
    /\ st[p] = "heirkill"
    /\ Die({q \in Proc : Alive(q)}, "kill")
    /\ ppc' = IF Up THEN "killed" ELSE ppc
    /\ handler' = FALSE
    /\ UNCHANGED <<childPid, newPid, flag, status, installed, terms,
                   attached, turned>>

ChildStep(p) ==
    Signals(p) \/ Start(p) \/ StartFail(p) \/ StopServer(p) \/ GroupKill(p)

(***************************************************************************)
(* What happens to a child.                                                *)
(***************************************************************************)

\* SIGTERM or SIGINT before signal(): the default action, or PSigHander.
TermBoot(p) ==
    /\ Running(p)
    /\ \/ /\ st[p] = "boot"
          /\ Die({p}, "term")
          /\ UNCHANGED attached
       \/ /\ st[p] = "heir"
          /\ st' = [st EXCEPT ![p] = "heirkill"]
          /\ attached' = {}
          /\ UNCHANGED <<stopped, report, cause, port>>
    /\ UNCHANGED <<parent, turned>>

\* CSigHander sets a flag nobody reads, but msgrcv() returns EINTR and run()
\* ends; a main thread that is elsewhere, or has lost its queue, goes on.
TermServe(p) ==
    /\ Running(p)
    /\ st[p] = "serve"
    /\ p \in attached
    /\ st' = [st EXCEPT ![p] = "stopping"]
    /\ UNCHANGED <<parent, stopped, report, cause, port, attached, turned>>

\* A fault, or a SIGKILL from outside.
Crash(p) ==
    /\ Alive(p)
    /\ Die({p}, "kill")
    /\ UNCHANGED <<parent, attached, turned>>

Stop(p) ==
    /\ TRUE \in Stops
    /\ Running(p)
    /\ stopped' = stopped \cup {p}
    /\ report' = report \cup {p}
    /\ UNCHANGED <<parent, st, cause, port, attached, turned>>

Continue(p) ==
    /\ p \in stopped
    /\ stopped' = stopped \ {p}
    /\ report' = report \cup {p}
    /\ UNCHANGED <<parent, st, cause, port, attached, turned>>

Next ==
    \/ ParentStep
    \/ TermParent
    \/ \E p \in Proc : \/ ChildStep(p) \/ TermBoot(p) \/ TermServe(p)
                       \/ Crash(p) \/ Stop(p) \/ Continue(p)

Spec == Init /\ [][Next]_vars

\* Processes that are not stopped are scheduled.
FairSpec ==
    /\ Spec
    /\ WF_vars(ParentStep)
    /\ \A p \in Proc : WF_vars(ChildStep(p))

-----------------------------------------------------------------------------
(***************************************************************************)
(* Properties.                                                             *)
(***************************************************************************)

Watched(p) == p = newPid \/ (p = childPid /\ ppc = "wait")

\* While the parent is up, it watches every live child, but for those it has
\* left because they were stopped: no two services by restarting alone.
ChildrenWatched ==
    Up => \A p \in Proc : Alive(p) => Watched(p) \/ p \in turned

\* A started service has its queue, unless the parent has been told to end or
\* some child has been stopped.
ServiceHasQueue ==
    \A p \in Proc : st[p] = "serve" => p \in attached \/ flag \/ turned # {}

\* A child that dies, other than by SIGTERM, is replaced; unless fork() fails
\* or the parent is told to end or killed.
Replaced(p) ==
    ppc = "wait" /\ childPid = p /\ st[p] = "dead" /\ cause[p] # "term"
        ~> ppc \in {"setup", "failed", "killed"} \/ flag

\* A signal that reaches the parent, but for one between the test of its loop
\* and the assignment of child_pid, ends it and every child it has not left.
TermEndsBoth ==
    handler /\ ppc \in {"wait", "clean", "sleep"}
        ~> ~ Up /\ \A p \in Proc : Alive(p) => p \in turned
=============================================================================
