----------------------------- MODULE Deployment -----------------------------
(***************************************************************************)
(* A deployment on one host: the load balancer of cmd/run (with its health *)
(* checks and the replacement of a failed backend) and the proxy processes *)
(* it starts (process lifecycle of cmd/main.go, cmd/idle.go, internal/app). *)
(*                                                                         *)
(* A *Backend is an object of its own, numbered in the order of its        *)
(* creation; a health check or a request may still use one that is no      *)
(* longer listed.  A goroutine of HealthCheck and the replaceBackend it    *)
(* may go on to start are one goroutine here.                              *)
(*                                                                         *)
(* A definition that no action uses, placed before the one it resembles,   *)
(* is a deliberate fault that shows that a property can fail.              *)
(***************************************************************************)
EXTENDS Integers, Sequences, FiniteSets, Functions

CONSTANTS
    Ports,        \* candidate ports of backends, a set 1 .. n
    Procs,        \* proxy processes alive at once, a set 1 .. n
    Checks,       \* health-check goroutines alive at once
    Clients,      \* clients of the load balancer
    MaxBackends,  \* bound on the *Backend objects created
    MaxFailures,  \* maxFailures
    IdleTime      \* PROXY_IDLE_TIMEOUT, in ticks

ASSUME DeploymentAssumption ==
    /\ \A S \in {Ports, Procs, Clients} : IsFiniteSet(S)
    /\ Ports = 1 .. Cardinality(Ports) /\ Ports # {}
    /\ Procs = 1 .. Cardinality(Procs) /\ Procs # {}
    /\ {MaxBackends, MaxFailures, IdleTime} \subseteq Nat \ {0}

VARIABLES
    proc,      \* proxy processes: [st, port, ready, idle, child]
    obj,       \* *Backend objects: [port, healthy, failures, replacing, conns]
    listed,    \* lb.backends
    task,      \* goroutines of HealthCheck: [st, be, port]
    client,    \* requests: [st, be, proc]
    lb,        \* the balancer process: "up", "stopping", "down"
    failed     \* history: a replacement failed to start its process

lbVars == <<obj, listed, task, lb, failed>>
vars == <<proc, lbVars, client>>

Objects == 1 .. MaxBackends
NoBackend == 0
Backend == [port : Ports \cup {0}, healthy : BOOLEAN, failures : 0 .. MaxFailures,
            replacing : BOOLEAN, conns : Int]
Unborn == [port |-> 0, healthy |-> FALSE, failures |-> 0, replacing |-> FALSE,
           conns |-> 0]
Gone == [st |-> "gone", port |-> 0, ready |-> FALSE, idle |-> 0, child |-> FALSE]
Booting(port) == [Gone EXCEPT !.st = "boot", !.port = port]
Off == [st |-> "off", be |-> NoBackend, port |-> 0]
AtRest == [st |-> "idle", be |-> NoBackend, proc |-> 0]

Born == {o \in Objects : obj[o].port # 0}
ServedBy(p) == {c \in Clients : client[c].st = "served" /\ client[c].proc = p}

(* The processes that listen on a port: at most one. *)
Server(port) == {p \in Procs : proc[p].st = "serving" /\ proc[p].port = port}

----------------------------------------------------------------------------
(* runLoadBalancer with its first backend up: the executable was there,    *)
(* startBackend waited for /ready and added it.                            *)
Init ==
    /\ proc = [p \in Procs |->
                  IF p = 1 THEN [Gone EXCEPT !.st = "serving", !.port = 1, !.ready = TRUE,
                                             !.child = TRUE]
                           ELSE Gone]
    /\ obj = [o \in Objects |->
                  IF o = 1 THEN [Unborn EXCEPT !.port = 1, !.healthy = TRUE]
                           ELSE Unborn]
    /\ listed = <<1>>
    /\ task = [g \in Checks |-> Off]
    /\ client = [c \in Clients |-> AtRest]
    /\ lb = "up" /\ failed = FALSE

(* What a tick does to the watchdog's clock of a serving process. *)
IdleAfter(p) == IF proc[p].idle < IdleTime THEN proc[p].idle + 1 ELSE IdleTime

Tick ==
    /\ proc' = [p \in Procs |->
          IF proc[p].st = "serving" THEN [proc[p] EXCEPT !.idle = IdleAfter(p)] ELSE proc[p]]
    /\ UNCHANGED <<lbVars, client>>

----------------------------------------------------------------------------
(* A proxy process.                                                        *)

(* main, up to the listener: the watchdog is armed and the server listens, *)
(* or the process exits because its port is taken.                         *)
Boot(p) ==
    /\ proc[p].st = "boot"
    /\ proc' = [proc EXCEPT ![p] =
          IF Server(@.port) = {} THEN [@ EXCEPT !.st = "serving", !.ready = TRUE] ELSE Gone]
    /\ UNCHANGED <<lbVars, client>>

(* /ready turns from 200 to an error or back. *)
Flap(p) ==
    /\ proc[p].st = "serving"
    /\ proc' = [proc EXCEPT ![p].ready = ~@]
    /\ UNCHANGED <<lbVars, client>>

(* Run: a signal, or the watchdog, starts Shutdown, which first closes the *)
(* listener and then waits for the requests in flight.                     *)
Shutdown(p) ==
    /\ proc' = [proc EXCEPT ![p].st = "draining", ![p].idle = 0]
    /\ UNCHANGED <<lbVars, client>>

IdleOut(p) ==
    /\ proc[p].st = "serving" /\ proc[p].idle = IdleTime
    /\ Shutdown(p)

Signalled(p) == proc[p].st = "serving" /\ Shutdown(p)

(* The requests a process still served when it ended get a 502. *)
Cut(p) == client' = [c \in Clients |->
    IF c \in ServedBy(p) THEN [client[c] EXCEPT !.st = "failed"] ELSE client[c]]

MayExitDrained(p) == proc[p].st = "draining" /\ ServedBy(p) = {}

(* Shutdown returns when no request is left or its timeout has passed,     *)
(* which may be at any time.                                               *)
MayExit(p) == proc[p].st = "draining"

Exit(p) ==
    /\ MayExit(p)
    /\ proc' = [proc EXCEPT ![p] = Gone]
    /\ Cut(p)
    /\ UNCHANGED lbVars

Crash(p) ==
    /\ proc[p].st # "gone"
    /\ proc' = [proc EXCEPT ![p] = Gone]
    /\ Cut(p)
    /\ UNCHANGED lbVars

----------------------------------------------------------------------------
(* The load balancer.                                                      *)

Healthy(o) == obj[o].healthy

(* NextBackend: some healthy listed backend (the round-robin start is      *)
(* arbitrary), or a 503.                                                   *)
Pick(c) ==
    /\ lb = "up" /\ client[c].st = "idle"
    /\ \E o \in Range(listed) :
          /\ Healthy(o)
          /\ client' = [client EXCEPT ![c].st = "picked", ![c].be = o]
    /\ UNCHANGED <<proc, lbVars>>

(* incConn, and the reverse proxy connects; the process marks activity. *)
Forward(c) ==
    LET o == client[c].be
        servers == Server(obj[o].port) IN
    /\ client[c].st = "picked" /\ lb # "down"
    /\ obj' = [obj EXCEPT ![o].conns = @ + 1]
    /\ IF servers # {}
       THEN \E p \in servers :
            /\ client' = [client EXCEPT ![c].st = "served", ![c].proc = p]
            /\ proc' = [proc EXCEPT ![p].idle = 0]
       ELSE /\ client' = [client EXCEPT ![c].st = "failed"]
            /\ UNCHANGED proc
    /\ UNCHANGED <<listed, task, lb, failed>>

(* decConn *)
Released(n) == n - 1

(* ServeHTTP returns, with the backend's answer or the error handler's:    *)
(* the deferred decConn.                                                   *)
Finish(c) ==
    /\ client[c].st \in {"served", "failed"} /\ lb # "down"
    /\ obj' = [obj EXCEPT ![client[c].be].conns = Released(@)]
    /\ client' = [client EXCEPT ![c] = AtRest]
    /\ UNCHANGED <<proc, listed, task, lb, failed>>

Step(g, st) == task' = [task EXCEPT ![g].st = st]

(* The ticker fires: a check of a listed backend starts. *)
HealthCheck(g) ==
    /\ lb = "up" /\ task[g].st = "off"
    /\ \E o \in Range(listed) :
          task' = [task EXCEPT ![g] = [Off EXCEPT !.st = "ask", !.be = o]]
    /\ UNCHANGED <<proc, obj, listed, lb, failed, client>>

Answers200(port) == \E p \in Server(port) : proc[p].ready

(* GET /ready: good only from a process that serves and says so, and not   *)
(* after the balancer's context is cancelled.                              *)
Ask(g) ==
    /\ task[g].st = "ask" /\ lb # "down"
    /\ Step(g, IF lb = "up" /\ Answers200(obj[task[g].be].port) THEN "good" ELSE "bad")
    /\ UNCHANGED <<proc, obj, listed, lb, failed, client>>

SetHealthy(b, h) ==
    [b EXCEPT !.healthy = h,
              !.failures = IF h THEN 0 ELSE IF @ < MaxFailures THEN @ + 1 ELSE @]

Apply(g) ==
    /\ task[g].st \in {"good", "bad"} /\ lb # "down"
    /\ obj' = [obj EXCEPT ![task[g].be] = SetHealthy(@, task[g].st = "good")]
    /\ Step(g, "judge")
    /\ UNCHANGED <<proc, listed, lb, failed, client>>

(* shouldReplace *)
Judge(g) ==
    LET b == obj[task[g].be] IN
    /\ task[g].st = "judge" /\ lb # "down"
    /\ task' = [task EXCEPT ![g] =
          IF ~b.healthy /\ b.failures >= MaxFailures /\ ~b.replacing
          THEN [@ EXCEPT !.st = "mark"] ELSE Off]
    /\ UNCHANGED <<proc, obj, listed, lb, failed, client>>

ClaimsAnyway(o) == TRUE

(* markReplacing's answer: only its first caller replaces the backend. *)
Claims(o) == ~obj[o].replacing

Listed(p) == {i \in DOMAIN listed : obj[listed[i]].port = p}
FirstListed(p) == CHOOSE i \in Listed(p) : \A j \in Listed(p) : i <= j

(* markReplacing and, for its first caller, replaceBackend: DrainBackend   *)
(* looks the backend up by its address and turns it off.                   *)
Mark(g) ==
    LET o == task[g].be
        b == listed[FirstListed(obj[o].port)]
        marked == [obj EXCEPT ![o].replacing = TRUE] IN
    /\ task[g].st = "mark" /\ lb # "down"
    /\ IF ~Claims(o)
       THEN task' = [task EXCEPT ![g] = Off] /\ UNCHANGED obj
       ELSE IF Listed(obj[o].port) = {}
       THEN Step(g, "port") /\ obj' = marked
       ELSE Step(g, "drain") /\ obj' = [marked EXCEPT ![b] = SetHealthy(@, FALSE)]
    /\ UNCHANGED <<proc, listed, lb, failed, client>>

(* No connection is left or the deadline has passed, which may be at any   *)
(* time: RemoveBackend, by address again.                                  *)
RemoveBackend(g) ==
    LET p == obj[task[g].be].port
        i == FirstListed(p) IN
    /\ task[g].st = "drain" /\ lb # "down"
    /\ listed' = IF Listed(p) = {} THEN listed
                 ELSE SubSeq(listed, 1, i - 1) \o SubSeq(listed, i + 1, Len(listed))
    /\ Step(g, "port")
    /\ UNCHANGED <<proc, obj, lb, failed, client>>

(* findFreePort: the first port nothing listens on, the first of all when  *)
(* there is none.  A process that is still booting does not listen yet.    *)
FreePorts == {p \in Ports : Server(p) = {}}
FreePort == IF FreePorts = {} THEN 1 ELSE CHOOSE p \in FreePorts : \A q \in FreePorts : p <= q

(* findFreePort, and startBackend up to its wait.  The context is not the balancer's, so    *)
(* the process outlives it.                                                *)
StartBackend(g) ==
    /\ task[g].st = "port" /\ lb # "down"
    /\ task' = [task EXCEPT ![g].st = "wait", ![g].port = FreePort]
    /\ \E p \in Procs :
          /\ proc[p] = Gone
          /\ \A q \in Procs : proc[q] = Gone => p <= q
          /\ proc' = [proc EXCEPT ![p] = Booting(FreePort)]
    /\ UNCHANGED <<obj, listed, lb, failed, client>>

(* cmd.Start fails: an error is logged and nothing tries again. *)
StartFails(g) ==
    /\ task[g].st = "port" /\ lb # "down"
    /\ task' = [task EXCEPT ![g] = Off]
    /\ failed' = TRUE
    /\ UNCHANGED <<proc, obj, listed, lb, client>>

(* waitForHealth, without a deadline, then AddBackend of a new object. *)
Ready(g) ==
    LET p == task[g].port
        o == Cardinality(Born) + 1 IN
    /\ task[g].st = "wait" /\ lb # "down"
    /\ Answers200(p)
    /\ o \in Objects
    /\ obj' = [obj EXCEPT ![o] = [Unborn EXCEPT !.port = p, !.healthy = TRUE]]
    /\ listed' = Append(listed, o)
    /\ task' = [task EXCEPT ![g] = Off]
    /\ UNCHANGED <<proc, lb, failed, client>>

(* SIGTERM of the balancer: its context is cancelled, which kills the      *)
(* backend it started under that context, then Shutdown begins.            *)
SignalLB ==
    /\ lb = "up"
    /\ lb' = "stopping"
    /\ proc' = [p \in Procs |-> IF proc[p].child THEN Gone ELSE proc[p]]
    /\ client' = [c \in Clients |->
          IF client[c].st = "served" /\ proc[client[c].proc].child
          THEN [client[c] EXCEPT !.st = "failed"] ELSE client[c]]
    /\ UNCHANGED <<obj, listed, task, failed>>

(* Shutdown returns when the requests are answered or its timeout has      *)
(* passed; main exits, and every goroutine and object with it.             *)
ExitLB ==
    /\ lb = "stopping"
    /\ lb' = "down"
    /\ client' = [c \in Clients |-> AtRest]
    /\ task' = [g \in Checks |-> Off]
    /\ obj' = [o \in Objects |-> Unborn]
    /\ listed' = <<>>
    /\ failed' = FALSE
    /\ UNCHANGED proc

----------------------------------------------------------------------------
Next ==
    \/ Tick
    \/ \E p \in Procs : Boot(p) \/ Flap(p) \/ IdleOut(p) \/ Signalled(p) \/ Exit(p) \/ Crash(p)
    \/ \E c \in Clients : Pick(c) \/ Forward(c) \/ Finish(c)
    \/ \E g \in Checks :
          \/ HealthCheck(g) \/ Ask(g) \/ Apply(g) \/ Judge(g) \/ Mark(g)
          \/ RemoveBackend(g) \/ StartBackend(g) \/ StartFails(g) \/ Ready(g)
    \/ SignalLB \/ ExitLB

(* The clock runs, and so do the runtime of a process, its watchdog's      *)
(* ticker and the timeout of its Shutdown.  Nothing makes a client stop or *)
(* a replacement start.                                                    *)
Fairness ==
    /\ WF_vars(Tick)
    /\ \A p \in Procs : WF_vars(Boot(p)) /\ WF_vars(IdleOut(p)) /\ WF_vars(Exit(p))

Spec == Init /\ [][Next]_vars /\ Fairness

----------------------------------------------------------------------------
(* The structs of the balancer and the processes keep their types;         *)
(* connection counters never go below zero, and no two processes listen on *)
(* one port.                                                               *)
TypeOK ==
    /\ obj \in [Objects -> Backend]
    /\ \A o \in Objects : obj[o].conns \in 0 .. Cardinality(Clients)
    /\ Range(listed) \subseteq Born
    /\ \A p \in Procs :
          /\ proc[p].idle \in 0 .. IdleTime
          /\ Cardinality(Server(proc[p].port)) <= 1
    /\ lb \in {"up", "stopping", "down"}

Replacing == {g \in Checks : task[g].st \in {"drain", "port", "wait"}}

(* The balancer, which starts with one backend, never lists two and never  *)
(* replaces one twice, however its checks overlap; and it lists none only  *)
(* while a goroutine is at work on a replacement or after a replacement    *)
(* could not start its process (which nothing tries again).                *)
OneBackend ==
    lb # "down" =>
        /\ Len(listed) <= 1 /\ Cardinality(Replacing) <= 1
        /\ listed = <<>> => Replacing # {} \/ failed

(* A proxy that serves no request is eventually gone: readiness probes do  *)
(* not keep it alive (idle.go), and its shutdown is bounded even when      *)
(* requests never end (internal/app).                                      *)
ExitsOnceIdle ==
    \A p \in Procs :
        []<>(\/ proc[p].st = "gone"
             \/ proc[p].st = "serving" /\ ServedBy(p) # {})
=============================================================================
