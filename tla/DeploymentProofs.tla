-------------------------- MODULE DeploymentProofs --------------------------
(***************************************************************************)
(* Theorems about a deployment: the load balancer and the proxy processes  *)
(* it starts, for any number of ports, processes, overlapping health       *)
(* checks, clients and backend objects, and every maxFailures and idle     *)
(* timeout.                                                                *)
(***************************************************************************)
EXTENDS Deployment, FiniteSetTheorems, WellFoundedInduction, TLAPS

Stages == {"off", "ask", "good", "bad", "judge", "mark", "drain", "port", "wait"}
Task == [st : Stages, be : Objects \cup {NoBackend}, port : Ports \cup {0}]

(* The shapes of the balancer's state.  A goroutine that is at work has a  *)
(* backend that was created, one that waits has a port; and the objects    *)
(* are numbered without gaps.                                              *)
Shapes ==
    /\ lb \in {"up", "stopping", "down"}
    /\ failed \in BOOLEAN
    /\ obj \in [Objects -> Backend]
    /\ task \in [Checks -> Task]
    /\ \A g \in Checks : task[g].st = "wait" => task[g].port \in Ports
    /\ \A g \in Checks : task[g].st # "off" => task[g].be \in Born
    /\ \E n \in 0 .. MaxBackends : Born = 1 .. n

(* markReplacing was called for o: nothing ever takes that back. *)
Spent(o) == obj[o].replacing

(* The three stages of a replacement: one backend is listed and only it    *)
(* may still be claimed; one goroutine, and nobody else, is replacing it   *)
(* and every backend is claimed; or the replacement could not be started.  *)
Serving == /\ Replacing = {}
           /\ \E o \in Born : /\ listed = <<o>> /\ ~Spent(o)
                              /\ \A x \in Born \ {o} : Spent(x)

Changing(g) == /\ Replacing = {g}
               /\ \A x \in Born : Spent(x)
               /\ listed = IF task[g].st = "drain" THEN <<task[g].be>> ELSE <<>>

Lost == Replacing = {} /\ listed = <<>> /\ failed /\ \A x \in Born : Spent(x)

Stage == Serving \/ (\E g \in Checks : Changing(g)) \/ Lost

BackendInv == Shapes /\ (lb # "down" => Stage)

----------------------------------------------------------------------------
(* Ports are positive, and the first one is a port. *)
LEMMA PortFacts == (\A p \in Ports : p \in Nat /\ p # 0) /\ 1 \in Ports
<1>1. Cardinality(Ports) \in Nat
    BY DeploymentAssumption, FS_CardinalityType
<1> DEFINE n == Cardinality(Ports)
<1>2. Ports = 1 .. n /\ Ports # {}
    BY DeploymentAssumption
<1> HIDE DEF n
<1> QED BY <1>1, <1>2 DEF n

(* findFreePort returns a port. *)
LEMMA FreePortIsPort == FreePort \in Ports
<1> DEFINE R == OpToRel(<, Nat)
<1>1. CASE FreePorts = {}
    BY <1>1, PortFacts DEF FreePort
<1>2. CASE FreePorts # {}
  <2>1. FreePorts \subseteq Ports /\ FreePorts \subseteq Nat
      BY PortFacts DEF FreePorts
  <2>2. IsWellFoundedOn(R, Nat)
      BY NatLessThanWellFounded, Zenon
  <2>3. \E p \in FreePorts : \A q \in FreePorts : ~(<<q, p>> \in R)
    <3> HIDE DEF R
    <3> QED BY <1>2, <2>1, <2>2, WFMin, Zenon
  <2>4. \E p \in FreePorts : \A q \in FreePorts : ~(q < p)
      BY <2>1, <2>3, Zenon DEF OpToRel
  <2>5. \E p \in FreePorts : \A q \in FreePorts : p <= q
      BY <2>1, <2>4
  <2> QED BY <1>2, <2>1, <2>5, Zenon DEF FreePort
<1> QED BY <1>1, <1>2

(* What the records of the balancer are made of. *)
LEMMA RecordFacts ==
    /\ Off \in Task /\ Off.st = "off"
    /\ Unborn \in Backend /\ Unborn.port = 0
BY DeploymentAssumption DEF Off, Task, Stages, NoBackend, Unborn, Backend

(* setHealthy keeps a backend a backend, its port and its claim. *)
LEMMA SetHealthyKeeps ==
    ASSUME NEW b \in Backend, NEW h \in BOOLEAN
    PROVE  /\ SetHealthy(b, h) \in Backend
           /\ SetHealthy(b, h).port = b.port /\ SetHealthy(b, h).replacing = b.replacing
           /\ SetHealthy(b, h).conns = b.conns
<1> DEFINE f == IF h THEN 0 ELSE IF b.failures < MaxFailures THEN b.failures + 1 ELSE b.failures
<1>1. f \in 0 .. MaxFailures
    BY DeploymentAssumption DEF Backend
<1>2. SetHealthy(b, h) = [b EXCEPT !.healthy = h, !.failures = f]
    BY DEF SetHealthy
<1> HIDE DEF f
<1> QED BY <1>1, <1>2, Zenon DEF Backend

(* A step that creates and claims no backend, changes no listing and takes *)
(* no goroutine into or out of a replacement keeps the stage.              *)
Calm ==
    /\ obj' \in [Objects -> Backend]
    /\ \A o \in Objects : obj'[o].port = obj[o].port /\ obj'[o].replacing = obj[o].replacing
    /\ listed' = listed /\ failed' = failed
    /\ lb' \in {"up", "stopping", "down"} /\ (lb' # "down" => lb # "down")
    /\ task' \in [Checks -> Task]
    /\ \A g \in Checks :
          \/ task'[g] = task[g]
          \/ /\ task[g].st \notin {"drain", "port", "wait"}
             /\ task'[g].st \notin {"drain", "port", "wait"}
             /\ task'[g].st # "off" => task'[g].be \in Born

(* A health verdict, a request or a stop signal changes nothing the stage  *)
(* depends on.                                                             *)
LEMMA CalmKeeps ==
    ASSUME BackendInv, Calm
    PROVE  BackendInv'
<1>1. Born' = Born /\ \A x \in Born : Spent(x)' = Spent(x)
    BY DEF Calm, Born, Spent
<1>2. Replacing' = Replacing /\ \A g \in Replacing : task'[g] = task[g]
    BY Zenon DEF Calm, Replacing
<1>3. Shapes'
    BY <1>1 DEF BackendInv, Shapes, Calm
<1>4. ASSUME Serving PROVE Serving'
    BY <1>1, <1>2, <1>4, Zenon DEF Serving, Calm
<1>5. ASSUME NEW g \in Checks, Changing(g) PROVE Changing(g)'
    BY <1>1, <1>2, <1>5, Zenon DEF Changing, Calm
<1>6. ASSUME Lost PROVE Lost'
    BY <1>1, <1>2, <1>6, Zenon DEF Lost, Calm
<1>7. lb' # "down" => Stage'
  <2>1. ASSUME Stage PROVE Stage'
      BY <2>1, <1>4, <1>5, <1>6, Zenon DEF Stage
  <2> QED BY <2>1, Zenon DEF BackendInv, Calm
<1> QED BY <1>3, <1>7 DEF BackendInv

(* What is listed was created, and it is one backend at most. *)
LEMMA ListedIsBorn ==
    ASSUME BackendInv, lb # "down"
    PROVE  (listed = <<>> \/ \E o \in Born : listed = <<o>>) /\ Range(listed) \subseteq Born
<1>1. listed = <<>> \/ \E o \in Born : listed = <<o>>
  <2>1. ASSUME NEW g \in Checks, Changing(g)
        PROVE  listed = <<>> \/ \E o \in Born : listed = <<o>>
    <3>1. g \in Replacing
        BY <2>1 DEF Changing
    <3>2. task[g].be \in Born
        BY <3>1 DEF Replacing, BackendInv, Shapes
    <3> QED BY <2>1, <3>2 DEF Changing
  <2> QED BY <2>1, Zenon DEF BackendInv, Stage, Serving, Lost
<1>2. CASE listed = <<>>
    BY <1>2 DEF Range
<1>3. CASE \E o \in Born : listed = <<o>>
    BY <1>3 DEF Range
<1> QED BY <1>1, <1>2, <1>3

----------------------------------------------------------------------------
(* The balancer starts with the one backend it has waited for. *)
LEMMA BackendInit == Init => BackendInv
<1> SUFFICES ASSUME Init PROVE BackendInv
    OBVIOUS
<1>1. 1 \in Objects /\ 1 \in Ports /\ MaxBackends \in Nat /\ MaxBackends >= 1
    BY PortFacts, DeploymentAssumption DEF Objects
<1> DEFINE first == [Unborn EXCEPT !.port = 1, !.healthy = TRUE]
<1>2. first \in Backend /\ first.port = 1 /\ first.replacing = FALSE
    BY <1>1, RecordFacts, Zenon DEF Backend, Unborn
<1>3. obj = [o \in Objects |-> IF o = 1 THEN first ELSE Unborn]
    BY Zenon DEF Init
<1> HIDE DEF first
<1>4. obj \in [Objects -> Backend] /\ Born = {1} /\ ~Spent(1)
    BY <1>1, <1>2, <1>3, RecordFacts DEF Born, Spent
<1>5. task \in [Checks -> Task] /\ \A g \in Checks : task[g].st = "off"
    BY RecordFacts DEF Init
<1>6. Replacing = {}
    BY <1>5 DEF Replacing
<1>7. Born = 1 .. 1 /\ 1 \in 0 .. MaxBackends
    BY <1>1, <1>4
<1>8. Shapes
    BY <1>4, <1>5, <1>7, Zenon DEF Init, Shapes
<1>9. Serving
    BY <1>4, <1>6 DEF Init, Serving
<1> QED BY <1>8, <1>9 DEF BackendInv, Stage

(* Requests only count connections of a backend. *)
LEMMA RequestsAreCalm ==
    ASSUME BackendInv, NEW c \in Clients, Forward(c) \/ Finish(c)
    PROVE  Calm
<1> USE DEF BackendInv, Shapes
<1> DEFINE o == client[c].be
           b(n) == [obj[o] EXCEPT !.conns = n]
           k == obj[o].conns
<1>1. obj' = [obj EXCEPT ![o] = b(k + 1)] \/ obj' = [obj EXCEPT ![o] = b(k - 1)]
    BY DEF Forward, Finish, Released
<1>2. /\ obj' \in [Objects -> Backend]
      /\ \A x \in Objects : obj'[x].port = obj[x].port /\ obj'[x].replacing = obj[x].replacing
  <2>1. CASE o \notin Objects
      BY <1>1, <2>1
  <2>2. CASE o \in Objects
    <3>1. obj[o] \in Backend /\ obj[o].conns \in Int
        BY <2>2 DEF Backend
    <3>2. ASSUME NEW n \in Int
          PROVE  b(n) \in Backend /\ b(n).port = obj[o].port /\ b(n).replacing = obj[o].replacing
        BY <3>1 DEF Backend
    <3> HIDE DEF b, o
    <3>3. PICK n \in Int : obj' = [obj EXCEPT ![o] = b(n)]
      <4>1. k + 1 \in Int /\ k - 1 \in Int
          BY <3>1
      <4> HIDE DEF k
      <4> QED BY <1>1, <4>1, Zenon
    <3> QED BY <2>2, <3>2, <3>3
  <2> QED BY <2>1, <2>2
<1>3. UNCHANGED <<listed, task, lb, failed>>
    BY DEF Forward, Finish
<1> QED BY <1>2, <1>3 DEF Calm

(* A health check up to shouldReplace. *)
LEMMA ChecksAreCalm ==
    ASSUME BackendInv, NEW g \in Checks,
           HealthCheck(g) \/ Ask(g) \/ Apply(g) \/ Judge(g)
    PROVE  Calm
<1> USE DEF BackendInv, Shapes
<1>0. ASSUME NEW t \in Task, task' = [task EXCEPT ![g] = t],
             task[g].st \notin {"drain", "port", "wait"},
             t.st \notin {"drain", "port", "wait"},
             t.st # "off" => t.be \in Born
      PROVE  /\ task' \in [Checks -> Task]
             /\ \A h \in Checks :
                  \/ task'[h] = task[h]
                  \/ /\ task[h].st \notin {"drain", "port", "wait"}
                     /\ task'[h].st \notin {"drain", "port", "wait"}
                     /\ task'[h].st # "off" => task'[h].be \in Born
    BY <1>0, Zenon
<1>1. ASSUME NEW st \in {"ask", "good", "bad", "judge", "mark"},
             task[g].st \notin {"off", "drain", "port", "wait"}, Step(g, st)
      PROVE  /\ task' \in [Checks -> Task]
             /\ \A h \in Checks :
                  \/ task'[h] = task[h]
                  \/ /\ task[h].st \notin {"drain", "port", "wait"}
                     /\ task'[h].st \notin {"drain", "port", "wait"}
                     /\ task'[h].st # "off" => task'[h].be \in Born
  <2> DEFINE t == [task[g] EXCEPT !.st = st]
  <2>1. t \in Task /\ t.st = st /\ t.be = task[g].be /\ task' = [task EXCEPT ![g] = t]
      BY <1>1 DEF Task, Stages, Step
  <2> HIDE DEF t
  <2> QED BY <1>0, <1>1, <2>1
<1>2. CASE HealthCheck(g)
  <2>1. PICK o \in Range(listed) : task' = [task EXCEPT ![g] = [Off EXCEPT !.st = "ask", !.be = o]]
      BY <1>2, Zenon DEF HealthCheck
  <2>2. o \in Born
      BY <1>2, <2>1, ListedIsBorn, Zenon DEF HealthCheck
  <2> DEFINE t == [Off EXCEPT !.st = "ask", !.be = o]
  <2>3. t \in Task /\ t.st = "ask" /\ t.be = o
      BY <2>2, Zenon DEF Born, Off, Task, Stages
  <2> HIDE DEF t
  <2> QED BY <1>0, <1>2, <2>1, <2>2, <2>3, Zenon DEF HealthCheck, Calm, t
<1>3. CASE Ask(g)
    BY <1>1, <1>3 DEF Ask, Calm
<1>4. CASE Apply(g)
  <2> DEFINE o == task[g].be
             b == SetHealthy(obj[o], task[g].st = "good")
  <2>1. o \in Objects /\ obj' = [obj EXCEPT ![o] = b]
      BY <1>4 DEF Apply, Born
  <2>2. b \in Backend /\ b.port = obj[o].port /\ b.replacing = obj[o].replacing
      BY <2>1, SetHealthyKeeps, Zenon
  <2> HIDE DEF b, o
  <2>3. /\ obj' \in [Objects -> Backend]
        /\ \A x \in Objects : obj'[x].port = obj[x].port /\ obj'[x].replacing = obj[x].replacing
      BY <2>1, <2>2
  <2> QED BY <1>1, <1>4, <2>3 DEF Apply, Calm
<1>5. CASE Judge(g)
  <2>1. CASE task' = [task EXCEPT ![g] = Off]
      BY <1>0, <1>5, <2>1, RecordFacts DEF Judge, Calm
  <2>2. CASE Step(g, "mark")
      BY <1>1, <1>5, <2>2, Zenon DEF Judge, Calm
  <2> QED BY <1>5, <2>1, <2>2, Zenon DEF Judge, Step
<1> QED BY <1>2, <1>3, <1>4, <1>5

(* Whoever is replacing is alone, and every backend is claimed. *)
LEMMA ReplacerIsAlone ==
    ASSUME BackendInv, lb # "down", NEW g \in Checks, task[g].st \in {"drain", "port", "wait"}
    PROVE  Changing(g)
<1>1. g \in Replacing
    BY DEF Replacing
<1>2. PICK h \in Checks : Changing(h)
    BY <1>1, Zenon DEF BackendInv, Stage, Serving, Lost
<1>3. h = g
    BY <1>1, <1>2, Zenon DEF Changing
<1> QED BY <1>2, <1>3

(* A goroutine that moves within a replacement, or into or out of it. *)
LEMMA TaskMoves ==
    ASSUME Shapes, NEW g \in Checks, NEW t \in Task, task' = [task EXCEPT ![g] = t],
           Born \subseteq Born',
           t.st # "off" => t.be \in Born, t.st = "wait" => t.port \in Ports
    PROVE  /\ task' \in [Checks -> Task]
           /\ \A h \in Checks : task'[h].st = "wait" => task'[h].port \in Ports
           /\ \A h \in Checks : task'[h].st # "off" => task'[h].be \in Born'
           /\ Replacing \ {g} = {} =>
                Replacing' = IF t.st \in {"drain", "port", "wait"} THEN {g} ELSE {}
<1>1. \A h \in Checks : task'[h] = IF h = g THEN t ELSE task[h]
    BY DEF Shapes
<1>2. task' \in [Checks -> Task]
    BY Zenon DEF Shapes
<1>3. \A h \in Checks : task'[h].st = "wait" => task'[h].port \in Ports
    BY <1>1, Zenon DEF Shapes
<1>4. \A h \in Checks : task'[h].st # "off" => task'[h].be \in Born'
    BY <1>1, Zenon DEF Shapes
<1>5. ASSUME Replacing \ {g} = {}
      PROVE  Replacing' = IF t.st \in {"drain", "port", "wait"} THEN {g} ELSE {}
    BY <1>1, <1>5 DEF Replacing
<1> QED BY <1>2, <1>3, <1>4, <1>5

(* The claim of markReplacing: its first caller finds the one listed       *)
(* backend under the address of the one it was sent to check, which is the *)
(* same backend, and from then on every backend is claimed.                *)
LEMMA MarkKeeps ==
    ASSUME BackendInv, NEW g \in Checks, Mark(g)
    PROVE  BackendInv'
<1> USE DEF BackendInv
<1> DEFINE o == task[g].be
<1>1. task[g].st = "mark" /\ lb # "down" /\ UNCHANGED <<listed, lb, failed>>
    BY DEF Mark
<1>2. o \in Born /\ o \in Objects /\ task[g] \in Task
    BY <1>1 DEF Shapes, Born
<1>3. CASE ~Claims(o)
  <2>1. task' = [task EXCEPT ![g] = Off] /\ UNCHANGED obj
      BY <1>3 DEF Mark
  <2>2. Calm
    <3>1. task' \in [Checks -> Task]
        BY <2>1, RecordFacts, Zenon DEF Shapes
    <3>2. \A h \in Checks : task'[h] = IF h = g THEN Off ELSE task[h]
        BY <2>1 DEF Shapes
    <3> QED BY <1>1, <2>1, <3>1, <3>2, RecordFacts DEF Calm, Shapes
  <2> QED BY <2>2, CalmKeeps
<1>4. CASE Claims(o)
  <2>1. ~Spent(o)
      BY <1>4 DEF Claims, Spent
  <2>2. /\ listed = <<o>> /\ Replacing = {}
        /\ \A x \in Born \ {o} : Spent(x)
      BY <1>1, <1>2, <2>1, Zenon DEF Stage, Serving, Changing, Lost
  <2>3. Listed(obj[o].port) = {1}
      BY <2>2 DEF Listed
  <2>4. FirstListed(obj[o].port) = 1
      BY <2>3 DEF FirstListed
  <2> DEFINE marked == [obj[o] EXCEPT !.replacing = TRUE]
             b == SetHealthy(marked, FALSE)
             t == [task[g] EXCEPT !.st = "drain"]
  <2>5. obj[o] \in Backend /\ marked \in Backend /\ marked.port = obj[o].port /\ marked.replacing
      BY <1>2, Zenon DEF Shapes, Backend
  <2>6. b \in Backend /\ b.port = obj[o].port /\ b.replacing
    <3> HIDE DEF marked
    <3> QED BY <2>5, SetHealthyKeeps, Zenon
  <2>7. listed[FirstListed(obj[o].port)] = o
      BY <2>2, <2>4
  <2>8. obj' = [obj EXCEPT ![o] = b]
    <3>1. obj' = [[obj EXCEPT ![o].replacing = TRUE] EXCEPT ![o] = SetHealthy(@, FALSE)]
        BY <1>4, <2>3, <2>7, Zenon DEF Mark
    <3>2. [obj EXCEPT ![o].replacing = TRUE] = [obj EXCEPT ![o] = marked]
        BY DEF Shapes
    <3>3. obj \in [Objects -> Backend]
        BY DEF Shapes
    <3> HIDE DEF marked, o
    <3>4. obj' = [[obj EXCEPT ![o] = marked] EXCEPT ![o] = SetHealthy(marked, FALSE)]
        BY <1>2, <3>1, <3>2, <3>3, Zenon
    <3> QED BY <1>2, <3>3, <3>4, Zenon
  <2>9. task' = [task EXCEPT ![g] = t]
      BY <1>4, <2>3, Zenon DEF Mark, Step
  <2>10. t \in Task /\ t.st = "drain" /\ t.be = o
      BY <1>2 DEF Task, Stages
  <2> HIDE DEF b, t, marked, o
  <2>11. /\ obj' \in [Objects -> Backend] /\ Born' = Born
         /\ \A x \in Born : Spent(x)'
      BY <1>2, <2>2, <2>6, <2>8 DEF Shapes, Born, Spent
  <2>12. /\ task' \in [Checks -> Task]
         /\ \A h \in Checks : task'[h].st = "wait" => task'[h].port \in Ports
         /\ \A h \in Checks : task'[h].st # "off" => task'[h].be \in Born'
         /\ Replacing' = {g}
      BY <1>2, <2>2, <2>9, <2>10, <2>11, TaskMoves, Zenon
  <2>13. Shapes'
      BY <1>1, <2>11, <2>12 DEF Shapes
  <2>14. task'[g] = t
      BY <2>9 DEF Shapes
  <2>15. Changing(g)'
      BY <1>1, <2>2, <2>10, <2>11, <2>12, <2>14, Zenon DEF Changing
  <2> QED BY <2>13, <2>15 DEF Stage
<1> QED BY <1>3, <1>4

(* RemoveBackend takes the claimed backend off the list. *)
LEMMA RemoveKeeps ==
    ASSUME BackendInv, NEW g \in Checks, RemoveBackend(g)
    PROVE  BackendInv'
<1> USE DEF BackendInv
<1> DEFINE o == task[g].be
           t == [task[g] EXCEPT !.st = "port"]
<1>1. /\ task[g].st = "drain" /\ lb # "down" /\ UNCHANGED <<obj, lb, failed>>
      /\ task' = [task EXCEPT ![g] = t]
    BY Zenon DEF RemoveBackend, Step
<1>2. o \in Born /\ task[g] \in Task
    BY <1>1 DEF Shapes
<1>3. Replacing = {g} /\ listed = <<o>> /\ \A x \in Born : Spent(x)
    BY <1>1, ReplacerIsAlone DEF Changing
<1>4. Listed(obj[o].port) = {1}
    BY <1>3 DEF Listed
<1>5. FirstListed(obj[o].port) = 1
    BY <1>4 DEF FirstListed
<1>6. listed' = SubSeq(listed, 1, 1 - 1) \o SubSeq(listed, 1 + 1, Len(listed))
    BY <1>4, <1>5 DEF RemoveBackend
<1>7. listed' = <<>>
    BY <1>3, <1>6
<1>8. t \in Task /\ t.st = "port" /\ t.be = o
    BY <1>2 DEF Task, Stages
<1>9. Born' = Born /\ \A x \in Born : Spent(x)'
    BY <1>1, <1>3 DEF Born, Spent
<1> HIDE DEF t, o
<1>10. /\ task' \in [Checks -> Task]
       /\ \A h \in Checks : task'[h].st = "wait" => task'[h].port \in Ports
       /\ \A h \in Checks : task'[h].st # "off" => task'[h].be \in Born'
       /\ Replacing' = {g}
    BY <1>1, <1>2, <1>3, <1>8, <1>9, TaskMoves, Zenon
<1>11. Shapes'
    BY <1>1, <1>9, <1>10 DEF Shapes
<1>12. task'[g] = t
    BY <1>1 DEF Shapes
<1>13. Changing(g)'
    BY <1>7, <1>8, <1>9, <1>10, <1>12, Zenon DEF Changing
<1> QED BY <1>11, <1>13 DEF Stage

(* startBackend up to its wait, on a port of findFreePort. *)
LEMMA StartKeeps ==
    ASSUME BackendInv, NEW g \in Checks, StartBackend(g)
    PROVE  BackendInv'
<1> USE DEF BackendInv
<1> DEFINE t == [task[g] EXCEPT !.st = "wait", !.port = FreePort]
<1>1. /\ task[g].st = "port" /\ lb # "down" /\ UNCHANGED <<obj, listed, lb, failed>>
      /\ task' = [task EXCEPT ![g] = t]
    BY Zenon DEF StartBackend
<1>2. task[g].be \in Born /\ task[g] \in Task
    BY <1>1 DEF Shapes
<1>3. Replacing = {g} /\ listed = <<>> /\ \A x \in Born : Spent(x)
    BY <1>1, ReplacerIsAlone DEF Changing
<1>4. t \in Task /\ t.st = "wait" /\ t.be = task[g].be /\ t.port \in Ports
    BY <1>2, FreePortIsPort, Zenon DEF Task, Stages
<1>5. Born' = Born /\ \A x \in Born : Spent(x)'
    BY <1>1, <1>3 DEF Born, Spent
<1> HIDE DEF t
<1>6. /\ task' \in [Checks -> Task]
      /\ \A h \in Checks : task'[h].st = "wait" => task'[h].port \in Ports
      /\ \A h \in Checks : task'[h].st # "off" => task'[h].be \in Born'
      /\ Replacing' = {g}
    BY <1>1, <1>2, <1>3, <1>4, <1>5, TaskMoves, Zenon
<1>7. Shapes'
    BY <1>1, <1>5, <1>6 DEF Shapes
<1>8. task'[g] = t
    BY <1>1 DEF Shapes
<1>9. Changing(g)'
    BY <1>1, <1>3, <1>4, <1>5, <1>6, <1>8, Zenon DEF Changing
<1> QED BY <1>7, <1>9 DEF Stage

(* A replacement that cannot start its process leaves nothing listed, and  *)
(* nothing that could be claimed.                                          *)
LEMMA StartFailsKeeps ==
    ASSUME BackendInv, NEW g \in Checks, StartFails(g)
    PROVE  BackendInv'
<1> USE DEF BackendInv
<1>1. /\ task[g].st = "port" /\ lb # "down" /\ UNCHANGED <<obj, listed, lb>>
      /\ task' = [task EXCEPT ![g] = Off] /\ failed' = TRUE
    BY DEF StartFails
<1>2. Replacing = {g} /\ listed = <<>> /\ \A x \in Born : Spent(x)
    BY <1>1, ReplacerIsAlone DEF Changing
<1>3. Born' = Born /\ \A x \in Born : Spent(x)'
    BY <1>1, <1>2 DEF Born, Spent
<1>4. /\ task' \in [Checks -> Task]
      /\ \A h \in Checks : task'[h].st = "wait" => task'[h].port \in Ports
      /\ \A h \in Checks : task'[h].st # "off" => task'[h].be \in Born'
      /\ Replacing' = {}
    BY <1>1, <1>2, <1>3, RecordFacts, TaskMoves, Zenon
<1>5. Shapes'
    BY <1>1, <1>3, <1>4 DEF Shapes
<1>6. Lost'
    BY <1>1, <1>2, <1>3, <1>4, Zenon DEF Lost
<1> QED BY <1>5, <1>6 DEF Stage

(* AddBackend lists an object that did not exist, when nothing is listed. *)
LEMMA ReadyKeeps ==
    ASSUME BackendInv, NEW g \in Checks, Ready(g)
    PROVE  BackendInv'
<1> USE DEF BackendInv
<1> DEFINE p == task[g].port
           o == Cardinality(Born) + 1
           b == [Unborn EXCEPT !.port = p, !.healthy = TRUE]
<1>1. /\ task[g].st = "wait" /\ lb # "down" /\ o \in Objects /\ UNCHANGED <<lb, failed>>
      /\ obj' = [obj EXCEPT ![o] = b] /\ listed' = Append(listed, o)
      /\ task' = [task EXCEPT ![g] = Off]
    BY DEF Ready
<1>2. Replacing = {g} /\ listed = <<>> /\ \A x \in Born : Spent(x)
    BY <1>1, ReplacerIsAlone DEF Changing
<1>3. PICK n \in 0 .. MaxBackends : Born = 1 .. n
    BY DEF Shapes
<1>4. n \in Nat /\ MaxBackends \in Nat
    BY <1>3, DeploymentAssumption
<1>5. o = n + 1
  <2>1. 1 \in Int /\ n \in Int
      BY <1>4
  <2>2. Cardinality(1 .. n) = IF 1 > n THEN 0 ELSE n - 1 + 1
      BY <2>1, FS_Interval, Zenon
  <2> QED BY <1>3, <1>4, <2>2
<1>6. p \in Ports /\ p # 0
    BY <1>1, PortFacts DEF Shapes
<1>7. b \in Backend /\ b.port = p /\ ~b.replacing
    BY <1>6, RecordFacts, Zenon DEF Backend, Unborn
<1> HIDE DEF b, p, o
<1>8. /\ obj' \in [Objects -> Backend] /\ Born' = Born \cup {n + 1}
      /\ ~Spent(n + 1)'
      /\ \A x \in Born' \ {n + 1} : Spent(x)'
    BY <1>1, <1>2, <1>5, <1>6, <1>7 DEF Shapes, Born, Spent
<1>9. Born' = 1 .. (n + 1) /\ n + 1 \in 0 .. MaxBackends
    BY <1>1, <1>3, <1>4, <1>5, <1>8 DEF Objects
<1>10. listed' = <<n + 1>>
    BY <1>1, <1>2, <1>5
<1>11. /\ task' \in [Checks -> Task]
       /\ \A h \in Checks : task'[h].st = "wait" => task'[h].port \in Ports
       /\ \A h \in Checks : task'[h].st # "off" => task'[h].be \in Born'
       /\ Replacing' = {}
    BY <1>1, <1>2, <1>8, RecordFacts, TaskMoves, Zenon
<1>12. Shapes'
    BY <1>1, <1>8, <1>9, <1>11 DEF Shapes
<1>13. Serving'
    BY <1>8, <1>10, <1>11, Zenon DEF Serving
<1> QED BY <1>12, <1>13 DEF Stage

(* When the balancer exits, its objects and goroutines go with it. *)
LEMMA ExitKeeps ==
    ASSUME BackendInv, ExitLB
    PROVE  BackendInv'
<1>1. lb' = "down" /\ failed' = FALSE
    BY DEF ExitLB
<1>2. task' \in [Checks -> Task] /\ \A g \in Checks : task'[g].st = "off"
    BY RecordFacts DEF ExitLB
<1>3. obj' \in [Objects -> Backend] /\ Born' = {}
    BY RecordFacts DEF ExitLB, Born
<1>4. {} = 1 .. 0 /\ 0 \in 0 .. MaxBackends
    BY DeploymentAssumption
<1> QED BY <1>1, <1>2, <1>3, <1>4, Zenon DEF BackendInv, Shapes

(* Every step of the balancer, of a replacement, of a process and of a     *)
(* client leaves the deployment serving, replacing its backend, or lost.   *)
LEMMA BackendStep == BackendInv /\ [Next]_vars => BackendInv'
<1> SUFFICES ASSUME BackendInv, [Next]_vars PROVE BackendInv'
    OBVIOUS
<1>1. ASSUME UNCHANGED <<obj, listed, task, failed>>,
             lb' = lb \/ (lb = "up" /\ lb' = "stopping")
      PROVE  BackendInv'
  <2>1. Calm
      BY <1>1 DEF Calm, BackendInv, Shapes
  <2> QED BY <2>1, CalmKeeps
<1>2. CASE Tick \/ SignalLB \/ UNCHANGED vars
    BY <1>1, <1>2, Zenon DEF Tick, SignalLB, vars, lbVars
<1>3. ASSUME NEW p \in Procs,
             Boot(p) \/ Flap(p) \/ IdleOut(p) \/ Signalled(p) \/ Exit(p) \/ Crash(p)
      PROVE  BackendInv'
    BY <1>1, <1>3, Zenon DEF Boot, Flap, IdleOut, Signalled, Shutdown, Exit, Crash, lbVars
<1>4. ASSUME NEW c \in Clients, Pick(c) \/ Forward(c) \/ Finish(c) PROVE BackendInv'
  <2>1. CASE Pick(c)
      BY <1>1, <2>1, Zenon DEF Pick, lbVars
  <2> QED BY <1>4, <2>1, RequestsAreCalm, CalmKeeps, Zenon
<1>5. ASSUME NEW g \in Checks,
             \/ HealthCheck(g) \/ Ask(g) \/ Apply(g) \/ Judge(g) \/ Mark(g)
             \/ RemoveBackend(g) \/ StartBackend(g) \/ StartFails(g) \/ Ready(g)
      PROVE  BackendInv'
    BY <1>5, ChecksAreCalm, CalmKeeps, MarkKeeps, RemoveKeeps, StartKeeps, StartFailsKeeps,
       ReadyKeeps, Zenon
<1> QED BY <1>2, <1>3, <1>4, <1>5, ExitKeeps, Zenon DEF Next

(* The balancer never lists two backends and never replaces one twice,     *)
(* however its health checks overlap; and it is without a backend only     *)
(* while a replacement is under way or after one could not be started.     *)
THEOREM OneBackendAtATime == Spec => []OneBackend
<1>1. BackendInv => OneBackend
  <2> SUFFICES ASSUME BackendInv, lb # "down"
               PROVE  /\ Len(listed) <= 1 /\ Cardinality(Replacing) <= 1
                      /\ listed = <<>> => Replacing # {} \/ failed
      BY DEF OneBackend
  <2>1. Len(listed) <= 1
    <3>1. listed = <<>> \/ \E o \in Born : listed = <<o>>
        BY ListedIsBorn, Zenon
    <3>2. CASE listed = <<>>
        BY <3>2
    <3>3. ASSUME NEW o, listed = <<o>> PROVE Len(listed) <= 1
        BY <3>3
    <3> QED BY <3>1, <3>2, <3>3, Zenon
  <2>2. Replacing = {} \/ \E g \in Checks : Replacing = {g}
      BY Zenon DEF BackendInv, Stage, Serving, Changing, Lost
  <2>3. Cardinality(Replacing) <= 1
    <3>1. Cardinality(Replacing) = 0 \/ Cardinality(Replacing) = 1
        BY <2>2, FS_EmptySet, FS_Singleton, Zenon
    <3> QED BY <3>1
  <2>4. listed = <<>> => Replacing # {} \/ failed
    <3>1. ASSUME NEW o, listed = <<o>> PROVE listed # <<>>
        BY <3>1
    <3> QED BY <3>1, Zenon DEF BackendInv, Stage, Serving, Changing, Lost
  <2> QED BY <2>1, <2>3, <2>4
<1> QED BY <1>1, BackendInit, BackendStep, PTL DEF Spec

----------------------------------------------------------------------------
(* The processes: a port has one listener at most. *)
Process == [st : {"gone", "boot", "serving", "draining"}, port : Ports \cup {0},
            ready : BOOLEAN, idle : 0 .. IdleTime, child : BOOLEAN]

ProcInv ==
    /\ proc \in [Procs -> Process]
    /\ \A p, q \in Procs : /\ proc[p].st = "serving" /\ proc[q].st = "serving"
                           /\ proc[p].port = proc[q].port
                           => p = q

(* A process that serves nobody, or has just been started. *)
LEMMA ProcessFacts ==
    /\ IdleTime \in Nat /\ IdleTime # 0
    /\ Gone \in Process /\ Gone.st = "gone"
    /\ Booting(FreePort) \in Process /\ Booting(FreePort).st = "boot"
<1>1. IdleTime \in Nat /\ IdleTime # 0
    BY DeploymentAssumption
<1>2. Gone \in Process /\ Gone.st = "gone"
    BY <1>1 DEF Gone, Process
<1>3. ASSUME NEW port \in Ports PROVE Booting(port) \in Process /\ Booting(port).st = "boot"
    BY <1>2, Zenon DEF Booting, Process
<1> QED BY <1>1, <1>2, <1>3, FreePortIsPort

(* A process that leaves its listener alone, or gives it up. *)
LEMMA ProcessChanges ==
    ASSUME ProcInv, NEW p \in Procs, NEW x \in Process, proc' = [proc EXCEPT ![p] = x],
           x.st = "serving" => proc[p].st = "serving" /\ x.port = proc[p].port
    PROVE  ProcInv'
BY DEF ProcInv

(* The first child alone listens at the start. *)
LEMMA ProcInit == Init => ProcInv
<1> SUFFICES ASSUME Init PROVE ProcInv
    OBVIOUS
<1> DEFINE first == [Gone EXCEPT !.st = "serving", !.port = 1, !.ready = TRUE, !.child = TRUE]
<1>1. first \in Process
    BY ProcessFacts, PortFacts, Zenon DEF Gone, Process
<1>2. proc = [p \in Procs |-> IF p = 1 THEN first ELSE Gone]
    BY Zenon DEF Init
<1> HIDE DEF first
<1> QED BY <1>1, <1>2, ProcessFacts DEF ProcInv

(* Only a process that finds its port free starts to listen. *)
LEMMA ProcStep == ProcInv /\ [Next]_vars => ProcInv'
<1> SUFFICES ASSUME ProcInv, [Next]_vars PROVE ProcInv'
    OBVIOUS
<1>0. \A p \in Procs : proc[p] \in Process
    BY DEF ProcInv
<1>00. 0 \in 0 .. IdleTime
    BY ProcessFacts
<1>1. CASE Tick
  <2> DEFINE x(p) == [proc[p] EXCEPT !.idle = IdleAfter(p)]
  <2>1. ASSUME NEW p \in Procs
        PROVE  x(p) \in Process /\ x(p).st = proc[p].st /\ x(p).port = proc[p].port
    <3>1. IdleAfter(p) \in 0 .. IdleTime
        BY <1>0, ProcessFacts DEF IdleAfter, Process
    <3> QED BY <1>0, <3>1 DEF Process
  <2>2. \A p \in Procs : proc'[p] = IF proc[p].st = "serving" THEN x(p) ELSE proc[p]
      BY <1>1 DEF Tick
  <2>3. DOMAIN proc' = Procs /\ proc' = [p \in Procs |-> proc'[p]]
      BY <1>1 DEF Tick
  <2> HIDE DEF x
  <2>4. \A p \in Procs : /\ proc'[p] \in Process /\ proc'[p].st = proc[p].st
                         /\ proc'[p].port = proc[p].port
      BY <1>0, <2>1, <2>2, Zenon
  <2>5. proc' \in [Procs -> Process]
      BY <2>3, <2>4
  <2> QED BY <2>4, <2>5 DEF ProcInv
<1>2. ASSUME NEW p \in Procs, Boot(p) PROVE ProcInv'
  <2>1. CASE Server(proc[p].port) = {}
    <3> DEFINE x == [proc[p] EXCEPT !.st = "serving", !.ready = TRUE]
    <3>1. x \in Process /\ x.st = "serving" /\ x.port = proc[p].port
        BY <1>0, Zenon DEF Process
    <3>2. proc' = [proc EXCEPT ![p] = x]
        BY <1>2, <2>1 DEF Boot
    <3> HIDE DEF x
    <3> QED BY <2>1, <3>1, <3>2 DEF ProcInv, Server
  <2>2. CASE Server(proc[p].port) # {}
    <3>1. proc' = [proc EXCEPT ![p] = Gone]
        BY <1>2, <2>2, Zenon DEF Boot
    <3> QED BY <3>1, ProcessFacts, ProcessChanges, Zenon
  <2> QED BY <2>1, <2>2
<1>3. ASSUME NEW p \in Procs, Flap(p) PROVE ProcInv'
  <2> DEFINE x == [proc[p] EXCEPT !.ready = ~@]
  <2>1. x \in Process /\ x.st = proc[p].st /\ x.port = proc[p].port
      BY <1>0, Zenon DEF Process
  <2>2. proc' = [proc EXCEPT ![p] = x]
      BY <1>3 DEF Flap
  <2> HIDE DEF x
  <2> QED BY <2>1, <2>2, ProcessChanges, Zenon
<1>4. ASSUME NEW p \in Procs, Shutdown(p) PROVE ProcInv'
  <2> DEFINE x == [proc[p] EXCEPT !.st = "draining", !.idle = 0]
  <2>1. x \in Process /\ x.st = "draining"
      BY <1>0, <1>00, Zenon DEF Process
  <2>2. proc' = [proc EXCEPT ![p] = x]
      BY <1>4, Zenon DEF Shutdown
  <2> HIDE DEF x
  <2> QED BY <2>1, <2>2, ProcessChanges, Zenon
<1>5. ASSUME NEW p \in Procs, Exit(p) \/ Crash(p) PROVE ProcInv'
  <2>1. proc' = [proc EXCEPT ![p] = Gone]
      BY <1>5 DEF Exit, Crash
  <2> QED BY <2>1, ProcessFacts, ProcessChanges, Zenon
<1>6. ASSUME NEW c \in Clients, Forward(c) PROVE ProcInv'
  <2>1. CASE proc' = proc
      BY <2>1 DEF ProcInv
  <2>2. ASSUME NEW p \in Procs, proc' = [proc EXCEPT ![p].idle = 0] PROVE ProcInv'
    <3> DEFINE x == [proc[p] EXCEPT !.idle = 0]
    <3>1. x \in Process /\ x.st = proc[p].st /\ x.port = proc[p].port
        BY <1>0, <1>00 DEF Process
    <3>2. proc' = [proc EXCEPT ![p] = x]
        BY <2>2
    <3> HIDE DEF x
    <3> QED BY <3>1, <3>2, ProcessChanges, Zenon
  <2>3. proc' = proc \/ \E p \in Procs : proc' = [proc EXCEPT ![p].idle = 0]
      BY <1>6, Zenon DEF Forward, Server
  <2> QED BY <2>1, <2>2, <2>3
<1>7. ASSUME NEW g \in Checks, StartBackend(g) PROVE ProcInv'
  <2>1. PICK p \in Procs : proc' = [proc EXCEPT ![p] = Booting(FreePort)]
      BY <1>7, Zenon DEF StartBackend
  <2> QED BY <2>1, ProcessFacts, ProcessChanges, Zenon
<1>8. CASE SignalLB
  <2>1. proc' = [p \in Procs |-> IF proc[p].child THEN Gone ELSE proc[p]]
      BY <1>8 DEF SignalLB
  <2>2. \A p \in Procs : proc'[p] = Gone \/ proc'[p] = proc[p]
      BY <2>1
  <2>3. proc' \in [Procs -> Process]
      BY <1>0, <2>1, ProcessFacts
  <2> QED BY <2>2, <2>3, ProcessFacts DEF ProcInv
<1>9. ASSUME UNCHANGED proc PROVE ProcInv'
    BY <1>9 DEF ProcInv
<1>10. ASSUME NEW c \in Clients, Pick(c) \/ Forward(c) \/ Finish(c) PROVE ProcInv'
    BY <1>6, <1>9, <1>10, Zenon DEF Pick, Finish
<1>11. ASSUME NEW g \in Checks,
              \/ HealthCheck(g) \/ Ask(g) \/ Apply(g) \/ Judge(g) \/ Mark(g)
              \/ RemoveBackend(g) \/ StartBackend(g) \/ StartFails(g) \/ Ready(g)
       PROVE  ProcInv'
    BY <1>7, <1>9, <1>11, Zenon
       DEF HealthCheck, Ask, Apply, Judge, Mark, RemoveBackend, StartFails, Ready
<1>12. CASE ExitLB \/ UNCHANGED vars
    BY <1>9, <1>12, Zenon DEF ExitLB, vars
<1> QED
    BY <1>1, <1>2, <1>3, <1>4, <1>5, <1>8, <1>10, <1>11, <1>12, Zenon DEF Next, IdleOut, Signalled

----------------------------------------------------------------------------
(* The requests that incConn was called for and decConn was not, by the    *)
(* backend they were given.                                                *)
Held(o) == {c \in Clients : client[c].st \in {"served", "failed"} /\ client[c].be = o}

Request == [st : {"idle", "picked", "served", "failed"}, be : Objects \cup {NoBackend},
            proc : Procs \cup {0}]

ConnInv ==
    /\ client \in [Clients -> Request]
    /\ \A c \in Clients : client[c].st # "idle" => client[c].be \in Born
    /\ \A o \in Objects : obj[o].conns = Cardinality(Held(o))

(* Finitely many clients hold finitely many connections. *)
LEMMA HeldFacts ==
    \A o : /\ IsFiniteSet(Held(o))
           /\ Cardinality(Held(o)) \in Nat /\ Cardinality(Held(o)) <= Cardinality(Clients)
<1>1. IsFiniteSet(Clients)
    BY DeploymentAssumption
<1> SUFFICES ASSUME NEW o
             PROVE  /\ IsFiniteSet(Held(o))
                    /\ Cardinality(Held(o)) \in Nat /\ Cardinality(Held(o)) <= Cardinality(Clients)
    OBVIOUS
<1>2. Held(o) \in SUBSET Clients
    BY DEF Held
<1>3. IsFiniteSet(Held(o)) /\ Cardinality(Held(o)) <= Cardinality(Clients)
    BY <1>1, <1>2, FS_Subset, Zenon
<1> QED BY <1>3, FS_CardinalityType, Zenon

(* No backend counts a request before one has arrived. *)
LEMMA ConnInit == Init => ConnInv
<1> SUFFICES ASSUME Init PROVE ConnInv
    OBVIOUS
<1>1. AtRest \in Request /\ AtRest.st = "idle"
    BY DEF AtRest, Request, NoBackend
<1>2. client \in [Clients -> Request] /\ \A c \in Clients : client[c].st = "idle"
    BY <1>1 DEF Init
<1>3. ASSUME NEW o \in Objects PROVE obj[o].conns = Cardinality(Held(o))
  <2>1. Held(o) = {}
      BY <1>2 DEF Held
  <2>2. obj[o].conns = 0
      BY DEF Init, Unborn
  <2> QED BY <2>1, <2>2, FS_EmptySet
<1> QED BY <1>2, <1>3 DEF ConnInv

(* A step that keeps the connections of every backend, and loses none of   *)
(* the backends that have any.                                             *)
LEMMA ConnsKept ==
    ASSUME ConnInv, client' \in [Clients -> Request], Born \subseteq Born',
           \A c \in Clients : /\ client'[c].st # "idle" => client'[c].be \in Born
                              /\ client'[c].be = client[c].be \/ client[c].st = "idle"
                              /\ client'[c].st \in {"served", "failed"}
                                   <=> client[c].st \in {"served", "failed"},
           \A o \in Objects : obj'[o].conns = obj[o].conns
    PROVE  ConnInv'
<1>1. ASSUME NEW o PROVE Held(o)' = Held(o)
    BY DEF Held
<1> QED BY <1>1 DEF ConnInv

(* A process that ends turns requests it served into failed ones: they     *)
(* still hold their connections.                                           *)
LEMMA CutKeeps ==
    ASSUME ConnInv, UNCHANGED obj, NEW S \in SUBSET Clients,
           \A c \in S : client[c].st = "served",
           client' = [c \in Clients |-> IF c \in S THEN [client[c] EXCEPT !.st = "failed"]
                                                   ELSE client[c]]
    PROVE  ConnInv'
<1>1. \A c \in Clients : client[c] \in Request
    BY DEF ConnInv
<1>2. ASSUME NEW c \in Clients
      PROVE  /\ client'[c] \in Request /\ client'[c].be = client[c].be
             /\ client'[c].st = IF c \in S THEN "failed" ELSE client[c].st
  <2> DEFINE x == [client[c] EXCEPT !.st = "failed"]
  <2>1. x \in Request /\ x.be = client[c].be /\ x.st = "failed"
      BY <1>1 DEF Request
  <2>2. client'[c] = IF c \in S THEN x ELSE client[c]
      OBVIOUS
  <2> HIDE DEF x
  <2> QED BY <1>1, <2>1, <2>2
<1>3. client' \in [Clients -> Request]
  <2>1. client' = [c \in Clients |-> client'[c]]
      OBVIOUS
  <2> QED BY <1>2, <2>1, Zenon
<1>4. Born' = Born
    BY DEF Born
<1>5. \A c \in Clients : /\ client'[c].st # "idle" => client'[c].be \in Born
                         /\ client'[c].be = client[c].be \/ client[c].st = "idle"
                         /\ client'[c].st \in {"served", "failed"}
                              <=> client[c].st \in {"served", "failed"}
    BY <1>2 DEF ConnInv
<1> QED BY <1>3, <1>4, <1>5, ConnsKept

(* A request that changes, with the connections of its backend. *)
LEMMA ClientMoves ==
    ASSUME ConnInv, NEW c \in Clients, NEW x \in Request, client' = [client EXCEPT ![c] = x],
           NEW n \in Int, NEW o \in Objects, obj \in [Objects -> Backend],
           obj' = [obj EXCEPT ![o].conns = n],
           n = Cardinality(Held(o)'),
           x.st # "idle" => x.be = o /\ o \in Born,
           client[c].st \in {"served", "failed"} => client[c].be = o
    PROVE  ConnInv'
<1>1. /\ client' \in [Clients -> Request]
      /\ \A d \in Clients : client'[d] = IF d = c THEN x ELSE client[d]
    BY DEF ConnInv
<1>2. \A y \in Objects : /\ obj'[y].conns = IF y = o THEN n ELSE obj[y].conns
                         /\ obj'[y].port = obj[y].port
    BY DEF Backend
<1>3. Born' = Born
    BY <1>2 DEF Born
<1>4. ASSUME NEW y \in Objects, y # o PROVE Held(y)' = Held(y)
    BY <1>1, <1>4 DEF Held, Request
<1>5. ASSUME NEW y \in Objects PROVE obj'[y].conns = Cardinality(Held(y)')
    BY <1>2, <1>4, <1>5 DEF ConnInv
<1>6. \A d \in Clients : client'[d].st # "idle" => client'[d].be \in Born'
    BY <1>1, <1>3 DEF ConnInv
<1> QED BY <1>1, <1>5, <1>6 DEF ConnInv

(* incConn and decConn come in pairs, on the same object, whatever became  *)
(* of the backend in between.                                              *)
LEMMA RequestsKeepConns ==
    ASSUME BackendInv, ConnInv, NEW c \in Clients, Forward(c) \/ Finish(c)
    PROVE  ConnInv'
<1>1. PICK o \in Objects : o = client[c].be /\ o \in Born
  <2>1. client[c].be \in Born
      BY DEF ConnInv, Forward, Finish
  <2> QED BY <2>1 DEF Born
<1>2. /\ client[c] \in Request /\ client \in [Clients -> Request]
      /\ obj \in [Objects -> Backend] /\ obj[o].conns = Cardinality(Held(o))
    BY <1>1 DEF ConnInv, BackendInv, Shapes
<1>3. IsFiniteSet(Held(o)) /\ Cardinality(Held(o)) \in Nat
    BY HeldFacts, Zenon
<1> DEFINE k == Cardinality(Held(o))
<1>4. CASE Forward(c)
  <2>1. client[c].st = "picked" /\ obj' = [obj EXCEPT ![o].conns = k + 1]
      BY <1>1, <1>2, <1>4, Zenon DEF Forward
  <2>2. \E x \in Request : /\ x.st \in {"served", "failed"} /\ x.be = o
                           /\ client' = [client EXCEPT ![c] = x]
    <3>1. CASE client' = [client EXCEPT ![c].st = "failed"]
      <4> DEFINE x == [client[c] EXCEPT !.st = "failed"]
      <4>1. x \in Request /\ x.st = "failed" /\ x.be = o
          BY <1>1, <1>2 DEF Request
      <4>2. client' = [client EXCEPT ![c] = x]
          BY <3>1
      <4> HIDE DEF x
      <4> QED BY <4>1, <4>2, Zenon
    <3>2. ASSUME NEW p \in Procs, client' = [client EXCEPT ![c].st = "served", ![c].proc = p]
          PROVE  \E x \in Request : /\ x.st \in {"served", "failed"} /\ x.be = o
                                    /\ client' = [client EXCEPT ![c] = x]
      <4> DEFINE x == [client[c] EXCEPT !.st = "served", !.proc = p]
      <4>1. x \in Request /\ x.st = "served" /\ x.be = o
          BY <1>1, <1>2, Zenon DEF Request
      <4>2. client' = [client EXCEPT ![c] = x]
          BY <3>2, Zenon
      <4> HIDE DEF x
      <4> QED BY <4>1, <4>2, Zenon
    <3> QED BY <1>4, <3>1, <3>2, Zenon DEF Forward, Server
  <2>3. PICK x \in Request : /\ x.st \in {"served", "failed"} /\ x.be = o
                             /\ client' = [client EXCEPT ![c] = x]
      BY <2>2, Zenon
  <2>4. Held(o)' = Held(o) \cup {c} /\ c \notin Held(o)
      BY <1>2, <2>1, <2>3 DEF Held
  <2>5. k + 1 = Cardinality(Held(o)') /\ k + 1 \in Int
    <3>1. Cardinality(Held(o) \cup {c}) = k + 1
        BY <1>3, <2>4, FS_AddElement, Zenon
    <3> QED BY <1>3, <2>4, <3>1
  <2> HIDE DEF k
  <2> QED BY <1>1, <1>2, <2>1, <2>3, <2>5, ClientMoves, Zenon
<1>5. CASE Finish(c)
  <2>1. /\ client[c].st \in {"served", "failed"} /\ obj' = [obj EXCEPT ![o].conns = k - 1]
        /\ client' = [client EXCEPT ![c] = AtRest]
      BY <1>1, <1>2, <1>5, Zenon DEF Finish, Released
  <2>2. AtRest \in Request /\ AtRest.st = "idle"
      BY DEF AtRest, Request, NoBackend
  <2>3. Held(o)' = Held(o) \ {c} /\ c \in Held(o)
      BY <1>1, <1>2, <2>1, <2>2 DEF Held
  <2>4. k - 1 = Cardinality(Held(o)') /\ k - 1 \in Int
    <3>1. Cardinality(Held(o) \ {c}) = k - 1
        BY <1>3, <2>3, FS_RemoveElement, Zenon
    <3> QED BY <1>3, <2>3, <3>1
  <2> HIDE DEF k
  <2> QED BY <1>1, <1>2, <2>1, <2>2, <2>4, ClientMoves, Zenon
<1> QED BY <1>4, <1>5

(* A backend starts without connections; the others keep theirs. *)
LEMMA ReadyKeepsConns ==
    ASSUME BackendInv, ConnInv, NEW g \in Checks, Ready(g)
    PROVE  ConnInv'
<1>1. PICK o \in Objects : /\ o = Cardinality(Born) + 1
                           /\ obj' = [obj EXCEPT ![o] =
                                        [Unborn EXCEPT !.port = task[g].port, !.healthy = TRUE]]
    BY Zenon DEF Ready
<1>2. UNCHANGED client /\ client \in [Clients -> Request] /\ obj \in [Objects -> Backend]
    BY DEF Ready, ConnInv, BackendInv, Shapes
<1>3. PICK n \in 0 .. MaxBackends : Born = 1 .. n
    BY DEF BackendInv, Shapes
<1>4. n \in Nat
    BY <1>3, DeploymentAssumption
<1>5. o = n + 1
  <2>1. 1 \in Int /\ n \in Int
      BY <1>4
  <2>2. Cardinality(1 .. n) = IF 1 > n THEN 0 ELSE n - 1 + 1
      BY <2>1, FS_Interval, Zenon
  <2> QED BY <1>1, <1>3, <1>4, <2>2
<1>6. o \notin Born
    BY <1>3, <1>4, <1>5
<1>7. /\ obj'[o].conns = 0
      /\ \A x \in Objects \ {o} : obj'[x] = obj[x]
    BY <1>1, <1>2 DEF Unborn
<1>8. Born \subseteq Born'
    BY <1>6, <1>7 DEF Born
<1>9. Held(o)' = {}
    BY <1>2, <1>6 DEF Held, ConnInv
<1>10. ASSUME NEW x \in Objects PROVE obj'[x].conns = Cardinality(Held(x)')
  <2>1. CASE x = o
      BY <1>7, <1>9, <2>1, FS_EmptySet
  <2>2. CASE x # o
    <3>1. Held(x)' = Held(x)
        BY <1>2 DEF Held
    <3> QED BY <1>7, <2>2, <3>1 DEF ConnInv
  <2> QED BY <2>1, <2>2
<1> QED BY <1>2, <1>8, <1>10 DEF ConnInv

(* NextBackend hands out a backend that exists. *)
LEMMA PickKeepsConns ==
    ASSUME BackendInv, ConnInv, NEW c \in Clients, Pick(c)
    PROVE  ConnInv'
<1>1. PICK o \in Range(listed) : client' = [client EXCEPT ![c].st = "picked", ![c].be = o]
    BY Zenon DEF Pick
<1>2. o \in Born /\ o \in Objects
  <2>1. lb # "down"
      BY DEF Pick
  <2> QED BY <1>1, <2>1, ListedIsBorn DEF Born
<1>3. client[c].st = "idle" /\ client \in [Clients -> Request] /\ UNCHANGED obj
    BY DEF Pick, ConnInv, lbVars
<1> DEFINE x == [client[c] EXCEPT !.st = "picked", !.be = o]
<1>4. x \in Request /\ x.st = "picked" /\ x.be = o
    BY <1>2, <1>3, Zenon DEF Request
<1>5. client' = [client EXCEPT ![c] = x]
    BY <1>1, Zenon
<1> HIDE DEF x
<1>6. /\ client' \in [Clients -> Request]
      /\ \A d \in Clients : client'[d] = IF d = c THEN x ELSE client[d]
    BY <1>3, <1>4, <1>5
<1>7. Born' = Born
    BY <1>3 DEF Born
<1>8. \A d \in Clients : /\ client'[d].st # "idle" => client'[d].be \in Born
                         /\ client'[d].be = client[d].be \/ client[d].st = "idle"
                         /\ client'[d].st \in {"served", "failed"}
                              <=> client[d].st \in {"served", "failed"}
    BY <1>2, <1>3, <1>4, <1>6 DEF ConnInv
<1> QED BY <1>3, <1>6, <1>7, <1>8, ConnsKept

(* A health check and the claim of a replacement count no connections. *)
LEMMA ChecksKeepConns ==
    ASSUME BackendInv, ConnInv, NEW g \in Checks, Apply(g) \/ Mark(g)
    PROVE  ConnInv'
<1>1. obj \in [Objects -> Backend] /\ UNCHANGED client /\ client \in [Clients -> Request]
    BY Zenon DEF BackendInv, Shapes, ConnInv, Apply, Mark
<1>2. ASSUME NEW b \in Backend, NEW h \in BOOLEAN
      PROVE  SetHealthy(b, h) \in Backend /\ SetHealthy(b, h).port = b.port
             /\ SetHealthy(b, h).conns = b.conns
    BY SetHealthyKeeps, Zenon
<1>3. ASSUME NEW b \in Backend
      PROVE  LET m == [b EXCEPT !.replacing = TRUE]
             IN  m \in Backend /\ m.port = b.port /\ m.conns = b.conns
    BY Zenon DEF Backend
<1>4. \A x \in Objects : obj'[x].port = obj[x].port /\ obj'[x].conns = obj[x].conns
  <2>1. CASE Apply(g)
    <3>1. obj' = [obj EXCEPT ![task[g].be] = SetHealthy(@, task[g].st = "good")]
        BY <2>1, Zenon DEF Apply
    <3> QED BY <1>1, <1>2, <3>1, Zenon
  <2>2. CASE Mark(g)
    <3> DEFINE o == task[g].be
               marked == [obj EXCEPT ![o].replacing = TRUE]
               b == listed[FirstListed(obj[o].port)]
    <3>1. \/ obj' = obj \/ obj' = marked
          \/ obj' = [marked EXCEPT ![b] = SetHealthy(@, FALSE)]
        BY <2>2, Zenon DEF Mark
    <3>2. /\ marked \in [Objects -> Backend]
          /\ \A x \in Objects : marked[x].port = obj[x].port /\ marked[x].conns = obj[x].conns
        BY <1>1, <1>3, Zenon
    <3> HIDE DEF marked, b
    <3>3. CASE obj' = [marked EXCEPT ![b] = SetHealthy(@, FALSE)]
      <4> DEFINE h == SetHealthy(marked[b], FALSE)
      <4>1. b \in Objects => h.port = marked[b].port /\ h.conns = marked[b].conns
          BY <1>2, <3>2, Zenon
      <4>2. obj' = [marked EXCEPT ![b] = h]
          BY <3>3, Zenon
      <4> HIDE DEF h
      <4>3. \A x \in Objects : obj'[x] = IF x = b THEN h ELSE marked[x]
          BY <3>2, <4>2
      <4> QED BY <3>2, <4>1, <4>3
    <3> QED BY <3>1, <3>2, <3>3, Zenon
  <2> QED BY <2>1, <2>2
<1>5. Born' = Born
    BY <1>4 DEF Born
<1>6. \A c \in Clients : client'[c] = client[c]
    BY <1>1
<1>7. \A c \in Clients : client[c].st # "idle" => client[c].be \in Born
    BY DEF ConnInv
<1> QED BY <1>1, <1>4, <1>5, <1>6, <1>7, ConnsKept

(* Every step leaves a backend with the number of requests that hold it:   *)
(* what is added to its count is taken off on every way through the proxy. *)
LEMMA ConnStep == BackendInv /\ ConnInv /\ [Next]_vars => ConnInv'
<1> SUFFICES ASSUME BackendInv, ConnInv, [Next]_vars PROVE ConnInv'
    OBVIOUS
<1>1. ASSUME UNCHANGED <<client, obj>> PROVE ConnInv'
    BY <1>1 DEF ConnInv, Held, Born
<1>2. ASSUME NEW p \in Procs, Cut(p), UNCHANGED obj PROVE ConnInv'
  <2>1. ServedBy(p) \in SUBSET Clients /\ \A c \in ServedBy(p) : client[c].st = "served"
      BY DEF ServedBy
  <2>2. client' = [c \in Clients |-> IF c \in ServedBy(p) THEN [client[c] EXCEPT !.st = "failed"]
                                                          ELSE client[c]]
      BY <1>2, Zenon DEF Cut
  <2> QED BY <1>2, <2>1, <2>2, CutKeeps
<1>3. ASSUME NEW p \in Procs,
             Boot(p) \/ Flap(p) \/ IdleOut(p) \/ Signalled(p) \/ Exit(p) \/ Crash(p)
      PROVE  ConnInv'
    BY <1>1, <1>2, <1>3, Zenon DEF Boot, Flap, IdleOut, Signalled, Shutdown, Exit, Crash, lbVars
<1>4. ASSUME NEW c \in Clients, Pick(c) \/ Forward(c) \/ Finish(c) PROVE ConnInv'
    BY <1>4, PickKeepsConns, RequestsKeepConns, Zenon
<1>5. ASSUME NEW g \in Checks,
             \/ HealthCheck(g) \/ Ask(g) \/ Apply(g) \/ Judge(g) \/ Mark(g)
             \/ RemoveBackend(g) \/ StartBackend(g) \/ StartFails(g) \/ Ready(g)
      PROVE  ConnInv'
    BY <1>1, <1>5, ChecksKeepConns, ReadyKeepsConns, Zenon
       DEF HealthCheck, Ask, Judge, RemoveBackend, StartBackend, StartFails
<1>6. CASE SignalLB
  <2> DEFINE S == {c \in Clients : client[c].st = "served" /\ proc[client[c].proc].child}
  <2>1. S \in SUBSET Clients /\ \A c \in S : client[c].st = "served"
      OBVIOUS
  <2>2. UNCHANGED obj
      BY <1>6 DEF SignalLB
  <2>3. client' = [c \in Clients |-> IF c \in S THEN [client[c] EXCEPT !.st = "failed"]
                                                ELSE client[c]]
      BY <1>6 DEF SignalLB
  <2> HIDE DEF S
  <2> QED BY <2>1, <2>2, <2>3, CutKeeps
<1>7. CASE ExitLB
  <2>1. AtRest \in Request /\ AtRest.st = "idle"
      BY DEF AtRest, Request, NoBackend
  <2>2. client' \in [Clients -> Request] /\ \A c \in Clients : client'[c].st = "idle"
      BY <1>7, <2>1 DEF ExitLB
  <2>3. ASSUME NEW o \in Objects PROVE obj'[o].conns = Cardinality(Held(o)')
    <3>1. Held(o)' = {}
        BY <2>2 DEF Held
    <3>2. obj'[o].conns = 0
        BY <1>7 DEF ExitLB, Unborn
    <3> QED BY <3>1, <3>2, FS_EmptySet
  <2> QED BY <2>2, <2>3 DEF ConnInv
<1>8. CASE Tick \/ UNCHANGED vars
    BY <1>1, <1>8, Zenon DEF Tick, vars, lbVars
<1> QED BY <1>3, <1>4, <1>5, <1>6, <1>7, <1>8, Zenon DEF Next

(* The structs of the balancer and of the processes keep their types.  The *)
(* connections of a backend are those of the requests it was given, never  *)
(* less than none (incConn and decConn), and no two processes listen on    *)
(* one port.                                                               *)
THEOREM DeploymentTypes == Spec => []TypeOK
<1>1. BackendInv /\ ConnInv /\ ProcInv /\ (lb = "down" => listed = <<>>) => TypeOK
  <2> SUFFICES ASSUME BackendInv, ConnInv, ProcInv, lb = "down" => listed = <<>> PROVE TypeOK
      OBVIOUS
  <2>1. obj \in [Objects -> Backend] /\ lb \in {"up", "stopping", "down"}
      BY DEF BackendInv, Shapes
  <2>2. ASSUME NEW o \in Objects PROVE obj[o].conns \in 0 .. Cardinality(Clients)
    <3>1. obj[o].conns = Cardinality(Held(o)) /\ Cardinality(Clients) \in Nat
        BY DeploymentAssumption, FS_CardinalityType DEF ConnInv
    <3>2. Cardinality(Held(o)) \in Nat /\ Cardinality(Held(o)) <= Cardinality(Clients)
        BY HeldFacts, Zenon
    <3> QED BY <3>1, <3>2
  <2>3. Range(listed) \subseteq Born
    <3>1. CASE lb = "down"
      <4>1. DOMAIN listed = {}
          BY <3>1
      <4> QED BY <4>1, Zenon DEF Range
    <3> QED BY <3>1, ListedIsBorn
  <2>4. ASSUME NEW p \in Procs
        PROVE  proc[p].idle \in 0 .. IdleTime /\ Cardinality(Server(proc[p].port)) <= 1
    <3>1. proc[p].idle \in 0 .. IdleTime
        BY DEF ProcInv, Process
    <3>2. Server(proc[p].port) = {} \/ \E q : Server(proc[p].port) = {q}
        BY Zenon DEF ProcInv, Server
    <3>3. Cardinality(Server(proc[p].port)) = 0 \/ Cardinality(Server(proc[p].port)) = 1
        BY <3>2, FS_EmptySet, FS_Singleton, Zenon
    <3> QED BY <3>1, <3>3
  <2> QED BY <2>1, <2>2, <2>3, <2>4 DEF TypeOK
<1>2. Init => (lb = "down" => listed = <<>>)
    BY DEF Init
<1>3. (lb = "down" => listed = <<>>) /\ [Next]_vars => (lb = "down" => listed = <<>>)'
  <2> SUFFICES ASSUME lb = "down" => listed = <<>>, [Next]_vars, lb' = "down"
               PROVE  listed' = <<>>
      OBVIOUS
  <2>1. ExitLB \/ UNCHANGED <<lb, listed>> \/ lb # "down"
      BY Zenon DEF Next, Tick, Boot, Flap, IdleOut, Signalled, Shutdown, Exit, Crash, Pick, Forward,
             Finish, HealthCheck, Ask, Apply, Judge, Mark, RemoveBackend, StartBackend, StartFails,
             Ready, SignalLB, lbVars, vars
  <2>2. lb # "down" => ExitLB
      BY Zenon DEF Next, Tick, Boot, Flap, IdleOut, Signalled, Shutdown, Exit, Crash, Pick, Forward,
             Finish, HealthCheck, Ask, Apply, Judge, Mark, RemoveBackend, StartBackend, StartFails,
             Ready, SignalLB, lbVars, vars
  <2> QED BY <2>1, <2>2 DEF ExitLB
<1> QED
    BY <1>1, <1>2, <1>3, BackendInit, BackendStep, ConnInit, ConnStep, ProcInit, ProcStep, PTL
       DEF Spec

============================================================================
