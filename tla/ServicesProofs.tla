--------------------------- MODULE ServicesProofs ---------------------------
(***************************************************************************)
(* Proofs about Services, for any sets of tasks, workers and services: that *)
(* each service is in one place, and that services leave the scheduler as  *)
(* module Runtime describes it.                                            *)
(***************************************************************************)
EXTENDS Services, SchedulerProofs

In(q, s)    == \E i \in DOMAIN q : q[i] = s
Distinct(q) == \A i, j \in DOMAIN q : i # j => q[i] # q[j]

\* The points of an executor that has popped a service.
WithService == {"tryRun", "running", "putBack"}

ServiceTypes ==
  /\ serviceQueue \in Seq(Service)
  /\ known \in SUBSET Service
  /\ service \in [Executor -> Service \cup {NoService}]
  /\ point \in [Executor -> ServicePoints]

\* Nobody else has a service that waits or that an executor has.
ServicesApart ==
  /\ Distinct(serviceQueue)
  /\ \A e, f \in Executor :
       service[e] # NoService /\ service[e] = service[f] => e = f
  /\ \A e \in Executor : ~In(serviceQueue, service[e])

\* The services that were added are those that wait or that an executor has.
KnownServices ==
  \A s \in Service :
    s \in known <=> In(serviceQueue, s) \/ \E e \in Executor : service[e] = s

\* An executor has a service exactly where its handling of services says so,
\* and a task worker only at the point of its loop where it looks for one: this
\* is why it never leaves the loop, nor ends, with a service.
ServiceFits ==
  /\ \A e \in Executor : service[e] # NoService <=> point[e] \in WithService
  /\ \A w \in Worker :
       service[w] # NoService => pc[w] = "pullOwn" /\ MakeTaskWorkersRunServices

\* Nobody is at work before run() and after await().
NobodyAtWork ==
  state # "running" => /\ \A e \in ServiceWorker : point[e] = "stopped"
                       /\ \A w \in Worker : pc[w] = "stopped"

PlacesInv  == ServicesApart /\ KnownServices /\ ServiceFits /\ NobodyAtWork
ServiceInv == TypeInv /\ ServiceTypes /\ PlacesInv

-----------------------------------------------------------------------------
(* What the operations on a queue do to its elements.                      *)

LEMMA AppendElements ==
  ASSUME NEW S, NEW q \in Seq(S), NEW s \in S
  PROVE  /\ Append(q, s) \in Seq(S)
         /\ \A x : In(Append(q, s), x) <=> In(q, x) \/ x = s
         /\ Distinct(q) /\ ~In(q, s) => Distinct(Append(q, s))
<1> DEFINE r == Append(q, s)
           n == Len(q)
<1>1. /\ n \in Nat /\ DOMAIN q = 1..n /\ DOMAIN r = 1..(n + 1)
      /\ r[n + 1] = s /\ \A i \in 1..n : r[i] = q[i]
      /\ r \in Seq(S)
  OBVIOUS
<1> HIDE DEF r, n
<1>2. ASSUME NEW x PROVE In(r, x) <=> In(q, x) \/ x = s
  <2>1. ASSUME In(r, x) PROVE In(q, x) \/ x = s
    <3>1. PICK i \in 1..(n + 1) : r[i] = x
      BY <1>1, <2>1 DEF In
    <3> QED
      BY <1>1, <3>1 DEF In
  <2>2. ASSUME In(q, x) PROVE In(r, x)
    <3>1. PICK i \in 1..n : q[i] = x
      BY <1>1, <2>2 DEF In
    <3>2. i \in 1..(n + 1) /\ r[i] = x
      BY <1>1, <3>1
    <3> QED
      BY <1>1, <3>2 DEF In
  <2>3. In(r, s)
    <3>1. n + 1 \in 1..(n + 1)
      BY <1>1
    <3> QED
      BY <1>1, <3>1 DEF In
  <2> QED
    BY <2>1, <2>2, <2>3
<1>3. ASSUME Distinct(q), ~In(q, s) PROVE Distinct(r)
  <2>1. SUFFICES ASSUME NEW i \in 1..(n + 1), NEW j \in 1..(n + 1), i # j
                 PROVE  r[i] # r[j]
    BY <1>1 DEF Distinct
  <2>2. (i \in 1..n \/ i = n + 1) /\ (j \in 1..n \/ j = n + 1)
    BY <1>1
  <2> QED
    BY <1>1, <1>3, <2>1, <2>2 DEF Distinct, In
<1> QED
  BY <1>1, <1>2, <1>3 DEF r

LEMMA PopElements ==
  ASSUME NEW S, NEW q \in Seq(S), q # <<>>, Distinct(q)
  PROVE  /\ Tail(q) \in Seq(S) /\ Head(q) \in S /\ In(q, Head(q))
         /\ \A x : In(Tail(q), x) <=> In(q, x) /\ x # Head(q)
         /\ Distinct(Tail(q))
<1> DEFINE r == Tail(q)
           n == Len(q)
<1>1. n \in Nat /\ n >= 1 /\ DOMAIN q = 1..n /\ Head(q) = q[1] /\ Head(q) \in S
  OBVIOUS
<1>2. /\ r \in Seq(S) /\ DOMAIN r = 1..(n - 1)
      /\ \A i \in 1..(n - 1) : r[i] = q[i + 1]
  BY <1>1
<1> HIDE DEF r, n
<1>3. In(q, Head(q))
  BY <1>1 DEF In
<1>4. ASSUME NEW x PROVE In(r, x) <=> In(q, x) /\ x # Head(q)
  <2>1. ASSUME In(r, x) PROVE In(q, x) /\ x # Head(q)
    <3>1. PICK i \in 1..(n - 1) : r[i] = x
      BY <1>2, <2>1 DEF In
    <3>2. i + 1 \in 1..n /\ i + 1 # 1 /\ q[i + 1] = x
      BY <1>1, <1>2, <3>1
    <3> QED
      BY <1>1, <3>2 DEF In, Distinct
  <2>2. ASSUME In(q, x), x # Head(q) PROVE In(r, x)
    <3>1. PICK i \in 1..n : q[i] = x
      BY <1>1, <2>2 DEF In
    <3>2. i - 1 \in 1..(n - 1) /\ (i - 1) + 1 = i
      BY <1>1, <2>2, <3>1
    <3> QED
      BY <1>2, <3>1, <3>2 DEF In
  <2> QED
    BY <2>1, <2>2
<1>5. Distinct(r)
  <2>1. SUFFICES ASSUME NEW i \in 1..(n - 1), NEW j \in 1..(n - 1), i # j
                 PROVE  r[i] # r[j]
    BY <1>2 DEF Distinct
  <2>2. i + 1 \in 1..n /\ j + 1 \in 1..n /\ i + 1 # j + 1
    BY <1>1, <2>1
  <2>3. q[i + 1] # q[j + 1]
    <3>1. \A k, l \in 1..n : k # l => q[k] # q[l]
      BY <1>1 DEF Distinct
    <3> QED
      BY <2>2, <3>1
  <2> QED
    BY <1>2, <2>1, <2>3
<1> QED
  BY <1>1, <1>2, <1>3, <1>4, <1>5 DEF r

-----------------------------------------------------------------------------
(* Services and the scheduler.                                             *)

\* Every step is one of the scheduler or leaves it alone.
LEMMA StepOfScheduler ==
  ASSUME [ServicesNext]_allVars
  PROVE  [Next]_vars
<1>1. RunAll \/ AwaitAll \/ OtherCall => Next
  BY DEF RunAll, AwaitAll, OtherCall, Next, Client
<1>2. \A w \in Worker : TaskWorkerStep(w) \/ TaskBody(w) => Next
  BY DEF TaskWorkerStep, TaskBody, Next
<1>3. ASSUME NEW s \in Service,
             AddService(s) \/ SetInterval(s) \/ IntervalPasses(s)
             \/ \E value \in BOOLEAN : SetEnabled(s, value)
      PROVE  UNCHANGED vars
  BY <1>3 DEF AddService, SetInterval, IntervalPasses, SetEnabled
<1>4. ASSUME NEW e \in Executor, ServiceStep(e) PROVE UNCHANGED vars
  BY <1>4 DEF ServiceStep, CheckServiceTermination, PopService, TryRunService,
              RunService, PutBack
<1> QED
  BY <1>1, <1>2, <1>3, <1>4 DEF ServicesNext, allVars

\* The scheduler works with services as without: whatever holds of it by itself
\* holds when services are added, run and put back in between.
THEOREM SchedulerUndisturbed == ServicesSpec => Spec
<1>1. ServicesInit => Init
  BY DEF ServicesInit
<1>2. [ServicesNext]_allVars => [Next]_vars
  BY StepOfScheduler
<1> QED
  BY <1>1, <1>2, PTL DEF ServicesSpec, Spec

\* A task worker steps from a point of its loop, so it has not stopped, and it
\* moves no other worker.
LEMMA WorkerKeepsToItself ==
  ASSUME TypeOK, NEW w \in Worker, Scheduler(w) \/ Body(w)
  PROVE  /\ pc[w] # "stopped" /\ state' = state
         /\ Body(w) => pc[w] = "exec"
         /\ \A v \in Worker \ {w} : pc'[v] = pc[v]
<1>1. CASE Body(w)
  BY <1>1 DEF Body, AddPendingOperation, SetWorkerAffinity, Suspend, Finish, Goto,
              runtimeVars, TypeOK
<1>2. CASE \E d \in Task : Notify(w, d)
  BY <1>2 DEF Notify, Body, AddPendingOperation, SetWorkerAffinity, Suspend,
              Finish, Goto, runtimeVars, TypeOK
<1>3. ASSUME NEW from \in Points, NEW to \in Points, Goto(w, from, to),
             from # "stopped", from # "exec", UNCHANGED runtimeVars
      PROVE  /\ pc[w] # "stopped" /\ state' = state
             /\ Body(w) => pc[w] = "exec"
             /\ \A v \in Worker \ {w} : pc'[v] = pc[v]
  BY <1>3 DEF Body, AddPendingOperation, SetWorkerAffinity, Suspend, Finish, Goto,
              runtimeVars, TypeOK
<1>4. ASSUME Scheduler(w), ~\E d \in Task : Notify(w, d)
      PROVE  \E from, to \in Points : /\ Goto(w, from, to) /\ UNCHANGED runtimeVars
                                      /\ from # "stopped" /\ from # "exec"
  <2> USE DEF Points, Pulled, InLoop
  <2>1. CASE DrainCommon(w) \/ DrainOwn(w)
    BY <2>1 DEF DrainCommon, DrainOwn, Drain
  <2>2. CASE PullOwn(w) \/ PullCommon(w)
    BY <2>2 DEF PullOwn, PullCommon, Pull
  <2>3. CASE PollSatisfied(w) \/ PollUnsatisfied(w) \/ PollDone(w)
             \/ CheckSuspension(w) \/ CheckTermination(w)
    BY <2>3 DEF PollSatisfied, PollUnsatisfied, PollDone, CheckSuspension,
                CheckTermination
  <2>4. CASE EnterLoop(w) \/ LeaveLoop(w)
    BY <2>4 DEF EnterLoop, LeaveLoop
  <2>5. CASE Sleep(w) \/ WakeUp(w) \/ Terminate(w)
    BY <2>5 DEF Sleep, WakeUp, Terminate
  <2>6. CASE RunTask(w) \/ OnTaskSuspend(w) \/ ResumeDependent(w)
             \/ OnTaskFinish(w)
    BY <2>6 DEF RunTask, OnTaskSuspend, ResumeDependent, OnTaskFinish
  <2> QED
    BY <1>4, <2>1, <2>2, <2>3, <2>4, <2>5, <2>6 DEF Scheduler
<1> QED
  BY <1>1, <1>2, <1>3, <1>4

-----------------------------------------------------------------------------
(* The invariant.                                                          *)

LEMMA ServicesInitInv == ServicesInit => ServiceInv
<1> SUFFICES ASSUME ServicesInit PROVE ServiceInv
  OBVIOUS
<1>1. TypeInv
  BY InitType DEF ServicesInit
<1>2. ServiceTypes
  BY DEF ServicesInit, ServiceTypes, ServicePoints
<1>3. ServicesApart /\ KnownServices
  BY ServiceAssumption
  DEF ServicesInit, ServicesApart, KnownServices, Distinct, In
<1>4. ServiceFits /\ NobodyAtWork
  BY ServiceAssumption
  DEF ServicesInit, Init, ServiceFits, NobodyAtWork, WithService, Executor
<1> QED
  BY <1>1, <1>2, <1>3, <1>4 DEF ServiceInv, PlacesInv

\* Steps that move no service.
LEMMA ServicesSame ==
  ASSUME ServiceInv, UNCHANGED <<serviceQueue, known, service>>
  PROVE  ServicesApart' /\ KnownServices'
  BY DEF ServiceInv, PlacesInv, ServicesApart, KnownServices

\* The application's calls.
LEMMA AddServiceInv ==
  ASSUME ServiceInv, NEW s \in Service, AddService(s)
  PROVE  ServiceTypes' /\ PlacesInv'
<1> USE DEF ServiceInv, PlacesInv, ServiceTypes
<1>1. /\ s \notin known /\ serviceQueue' = Append(serviceQueue, s)
      /\ known' = known \cup {s}
      /\ UNCHANGED <<service, point, pc, state>>
  BY DEF AddService, vars, runtimeVars, workerVars
<1>2. ~In(serviceQueue, s) /\ \A e \in Executor : service[e] # s
  BY <1>1 DEF KnownServices
<1>3. /\ serviceQueue' \in Seq(Service) /\ Distinct(serviceQueue')
      /\ \A x : In(serviceQueue', x) <=> In(serviceQueue, x) \/ x = s
  BY <1>1, <1>2, AppendElements DEF ServicesApart
<1>4. ServicesApart' /\ KnownServices'
  BY <1>1, <1>2, <1>3 DEF ServicesApart, KnownServices
<1> QED
  BY <1>1, <1>3, <1>4 DEF ServiceFits, NobodyAtWork

LEMMA CallInv ==
  ASSUME ServiceInv,
         \/ RunAll \/ AwaitAll \/ OtherCall
         \/ \E s \in Service : \/ SetInterval(s) \/ IntervalPasses(s)
                               \/ \E value \in BOOLEAN : SetEnabled(s, value)
  PROVE  ServiceTypes' /\ PlacesInv'
<1> USE DEF ServiceInv, PlacesInv, ServiceTypes
<1>1. UNCHANGED <<serviceQueue, known, service>>
  BY DEF RunAll, AwaitAll, OtherCall, SetInterval, IntervalPasses, SetEnabled,
         serviceVars
<1>2. ServiceTypes'
  <2>1. point' \in [Executor -> ServicePoints]
    BY DEF RunAll, AwaitAll, OtherCall, SetInterval, IntervalPasses, SetEnabled,
           serviceVars, ServicePoints
  <2> QED
    BY <1>1, <2>1
<1>3. ServiceFits' /\ NobodyAtWork'
  <2>1. CASE RunAll
    <3>1. state = "initialized" /\ state' = "running"
      BY <2>1 DEF RunAll, Run
    <3>2. \A e \in Executor : service[e] = NoService
      BY <3>1 DEF NobodyAtWork, ServiceFits, Executor, WithService
    <3>3. \A e \in Executor : point'[e] \notin WithService
      BY <2>1, <3>2 DEF RunAll, ServiceFits, WithService
    <3> QED
      BY <1>1, <3>1, <3>2, <3>3, ServiceAssumption
      DEF ServiceFits, NobodyAtWork, Executor
  <2>2. CASE AwaitAll
    <3>1. /\ \A e \in ServiceWorker : point[e] = "stopped"
          /\ \A w \in Worker : pc[w] = "stopped"
          /\ UNCHANGED <<point, pc>>
      BY <2>2 DEF AwaitAll, Await, ServiceWorkersStopped, serviceVars, workerVars
    <3> QED
      BY <1>1, <3>1 DEF ServiceFits, NobodyAtWork
  <2>3. CASE OtherCall
    <3>1. UNCHANGED <<point, pc>> /\ (state' = "running" <=> state = "running")
      BY <2>3 DEF OtherCall, Initialize, RunRejected, Finalize, ForceTermination,
                  SetFinishOnLastTask, AddDependency, AddTask, serviceVars,
                  workerVars, runtimeVars
    <3> QED
      BY <1>1, <3>1 DEF ServiceFits, NobodyAtWork
  <2>4. CASE \E s \in Service :
               \/ SetInterval(s) \/ IntervalPasses(s)
               \/ \E value \in BOOLEAN : SetEnabled(s, value)
    <3>1. UNCHANGED <<point, pc, state>>
      BY <2>4 DEF SetInterval, IntervalPasses, SetEnabled, vars, workerVars,
                  runtimeVars
    <3> QED
      BY <1>1, <3>1 DEF ServiceFits, NobodyAtWork
  <2> QED
    BY <2>1, <2>2, <2>3, <2>4
<1> QED
  BY <1>1, <1>2, <1>3, ServicesSame

\* An executor that is anywhere in its handling of services.
LEMMA HandlingInv ==
  ASSUME ServiceInv, NEW e \in Executor, NEW from \in ServicePoints \ {"stopped"},
         NEW to \in ServicePoints, Move(e, from, to), UNCHANGED vars
  PROVE  /\ point' \in [Executor -> ServicePoints] /\ NobodyAtWork'
         /\ UNCHANGED <<pc, state>>
         /\ e \in Worker => pc[e] = "pullOwn" /\ MakeTaskWorkersRunServices
<1> USE DEF ServiceInv, PlacesInv, ServiceTypes
<1>1. UNCHANGED <<pc, state>>
  BY DEF vars, workerVars, runtimeVars
<1>2. e \in Worker => pc[e] = "pullOwn" /\ MakeTaskWorkersRunServices
  BY ServiceAssumption DEF Move, AtServices
<1>3. point[e] = from /\ point' = [point EXCEPT ![e] = to]
  BY DEF Move
<1>4. state = "running"
  BY <1>2, <1>3 DEF NobodyAtWork, Executor
<1> QED
  BY <1>1, <1>2, <1>3, <1>4 DEF NobodyAtWork

LEMMA KeepServiceInv ==
  ASSUME ServiceInv, NEW e \in Executor,
         CheckServiceTermination(e) \/ TryRunService(e) \/ RunService(e)
  PROVE  ServiceTypes' /\ PlacesInv'
<1> USE DEF ServiceInv, PlacesInv
<1>1. /\ UNCHANGED <<vars, serviceQueue, known, service>>
      /\ \E from \in ServicePoints \ {"stopped"}, to \in ServicePoints :
           Move(e, from, to) /\ (from \in WithService <=> to \in WithService)
  BY DEF CheckServiceTermination, TryRunService, RunService, ServicePoints,
         WithService
<1>2. PICK from \in ServicePoints \ {"stopped"}, to \in ServicePoints :
        Move(e, from, to) /\ (from \in WithService <=> to \in WithService)
  BY <1>1
<1>3. point' \in [Executor -> ServicePoints] /\ NobodyAtWork' /\ UNCHANGED pc
  BY <1>1, <1>2, HandlingInv
<1>4. ServiceFits'
  BY <1>1, <1>2, <1>3 DEF ServiceFits, Move, ServiceTypes
<1> QED
  BY <1>1, <1>3, <1>4, ServicesSame DEF ServiceTypes

LEMMA PopServiceInv ==
  ASSUME ServiceInv, NEW e \in Executor, PopService(e)
  PROVE  ServiceTypes' /\ PlacesInv'
<1> USE DEF ServiceInv, PlacesInv, ServiceTypes
<1>1. "pop" \in ServicePoints \ {"stopped"} /\ "tryRun" \in ServicePoints
      /\ Through(e) \in ServicePoints /\ Through(e) \notin WithService
      /\ "pop" \notin WithService /\ "tryRun" \in WithService
  BY DEF ServicePoints, Through, WithService
<1>2. service[e] = NoService /\ UNCHANGED <<vars, known>>
  BY <1>1 DEF PopService, Move, ServiceFits
<1>3. CASE serviceQueue = <<>>
  <2>1. Move(e, "pop", Through(e)) /\ UNCHANGED <<serviceQueue, service>>
    BY <1>3 DEF PopService
  <2>2. point' \in [Executor -> ServicePoints] /\ NobodyAtWork' /\ UNCHANGED pc
    BY <1>1, <1>2, <2>1, HandlingInv
  <2>3. ServiceFits'
    BY <1>1, <1>2, <2>1, <2>2 DEF ServiceFits, Move
  <2> QED
    BY <1>2, <2>1, <2>2, <2>3, ServicesSame
<1>4. CASE serviceQueue # <<>>
  <2> DEFINE s == Head(serviceQueue)
  <2>1. /\ Move(e, "pop", "tryRun") /\ serviceQueue' = Tail(serviceQueue)
        /\ service' = [service EXCEPT ![e] = s]
    BY <1>4 DEF PopService
  <2>2. /\ point' \in [Executor -> ServicePoints] /\ NobodyAtWork' /\ UNCHANGED pc
        /\ e \in Worker => pc[e] = "pullOwn" /\ MakeTaskWorkersRunServices
    BY <1>1, <1>2, <2>1, HandlingInv
  <2>3. /\ serviceQueue' \in Seq(Service) /\ s \in Service /\ In(serviceQueue, s)
        /\ \A x : In(serviceQueue', x) <=> In(serviceQueue, x) /\ x # s
        /\ Distinct(serviceQueue')
    BY <1>4, <2>1, PopElements DEF ServicesApart
  <2> HIDE DEF s
  <2>4. \A f \in Executor : service[f] # s
    BY <2>3 DEF ServicesApart
  <2>5. /\ service'[e] = s
        /\ \A f \in Executor : f # e => service'[f] = service[f]
    BY <2>1
  <2>6. ServicesApart'
    BY <2>3, <2>4, <2>5 DEF ServicesApart
  <2>7. KnownServices'
    BY <1>2, <2>3, <2>4, <2>5, ServiceAssumption DEF KnownServices
  <2>8. ServiceFits'
    BY <1>1, <2>1, <2>2, <2>3, <2>5, ServiceAssumption DEF ServiceFits, Move
  <2> QED
    BY <1>2, <2>1, <2>2, <2>3, <2>6, <2>7, <2>8
<1> QED
  BY <1>3, <1>4

LEMMA PutBackInv ==
  ASSUME ServiceInv, NEW e \in Executor, PutBack(e)
  PROVE  ServiceTypes' /\ PlacesInv'
<1> USE DEF ServiceInv, PlacesInv, ServiceTypes
<1> DEFINE s == service[e]
<1>1. "putBack" \in ServicePoints \ {"stopped"} /\ "putBack" \in WithService
      /\ Through(e) \in ServicePoints /\ Through(e) \notin WithService
  BY DEF ServicePoints, Through, WithService
<1>2. /\ Move(e, "putBack", Through(e)) /\ serviceQueue' = Append(serviceQueue, s)
      /\ service' = [service EXCEPT ![e] = NoService]
      /\ UNCHANGED <<vars, known>>
  BY DEF PutBack, ToTheEnd
<1>3. point' \in [Executor -> ServicePoints] /\ NobodyAtWork' /\ UNCHANGED pc
  BY <1>1, <1>2, HandlingInv
<1>4. s \in Service /\ ~In(serviceQueue, s)
  BY <1>1, <1>2 DEF ServiceFits, ServicesApart, Move
<1>5. /\ serviceQueue' \in Seq(Service) /\ Distinct(serviceQueue')
      /\ \A x : In(serviceQueue', x) <=> In(serviceQueue, x) \/ x = s
  BY <1>2, <1>4, AppendElements DEF ServicesApart
<1>6. /\ service'[e] = NoService
      /\ \A f \in Executor : f # e => service'[f] = service[f] /\ service[f] # s
  BY <1>2, <1>4, ServiceAssumption DEF ServicesApart
<1> HIDE DEF s
<1>7. ~In(serviceQueue', NoService)
  BY <1>5, ServiceAssumption DEF In
<1>8. ServicesApart'
  BY <1>4, <1>5, <1>6, <1>7 DEF ServicesApart
<1>9. KnownServices'
  <2>1. s = service[e]
    BY DEF s
  <2> QED
    BY <1>2, <1>4, <1>5, <1>6, <2>1, ServiceAssumption DEF KnownServices
<1>10. ServiceFits'
  BY <1>1, <1>2, <1>3, <1>6 DEF ServiceFits, Move
<1> QED
  BY <1>2, <1>3, <1>5, <1>8, <1>9, <1>10

\* The scheduler's steps: a worker that leaves the point where it looks for
\* services has none.
LEMMA TaskWorkerInv ==
  ASSUME ServiceInv, NEW w \in Worker, TaskWorkerStep(w) \/ TaskBody(w)
  PROVE  ServiceTypes' /\ PlacesInv'
<1> USE DEF ServiceInv, PlacesInv, ServiceTypes
<1>1. UNCHANGED <<serviceQueue, known, service>>
  BY DEF TaskWorkerStep, TaskBody, serviceVars
<1>2. /\ pc[w] # "stopped" /\ state' = state /\ (Body(w) => pc[w] = "exec")
      /\ \A v \in Worker \ {w} : pc'[v] = pc[v]
  BY WorkerKeepsToItself DEF TypeInv, TaskWorkerStep, TaskBody
<1>3. /\ point' \in [Executor -> ServicePoints]
      /\ \A e \in Executor : e # w => point'[e] = point[e]
      /\ point'[w] \in {point[w], "pop"}
  BY DEF TaskWorkerStep, TaskBody, serviceVars, Executor, ServicePoints
<1>4. service[w] = NoService
  <2>1. CASE TaskWorkerStep(w)
    BY <2>1 DEF TaskWorkerStep, ServiceIsOver, ServiceFits, WithService, Executor
  <2>2. CASE TaskBody(w)
    BY <1>2, <2>2 DEF TaskBody, ServiceFits
  <2> QED
    BY <2>1, <2>2
<1>5. ServiceFits'
  BY <1>1, <1>2, <1>3, <1>4 DEF ServiceFits, WithService, Executor
<1>6. NobodyAtWork'
  BY <1>2 DEF NobodyAtWork
<1> QED
  BY <1>1, <1>3, <1>5, <1>6, ServicesSame

LEMMA ServicesNextInv ==
  ASSUME ServiceInv, [ServicesNext]_allVars
  PROVE  ServiceInv'
<1>1. TypeInv'
  BY StepOfScheduler, NextType DEF ServiceInv
<1>2. CASE \E s \in Service : AddService(s)
  BY <1>1, <1>2, AddServiceInv DEF ServiceInv
<1>3. CASE \/ RunAll \/ AwaitAll \/ OtherCall
           \/ \E s \in Service : \/ SetInterval(s) \/ IntervalPasses(s)
                                 \/ \E value \in BOOLEAN : SetEnabled(s, value)
  BY <1>1, <1>3, CallInv DEF ServiceInv
<1>4. CASE \E e \in Executor : ServiceStep(e)
  BY <1>1, <1>4, KeepServiceInv, PopServiceInv, PutBackInv
  DEF ServiceStep, ServiceInv
<1>5. CASE \E w \in Worker : TaskWorkerStep(w) \/ TaskBody(w)
  BY <1>1, <1>5, TaskWorkerInv DEF ServiceInv
<1>6. CASE UNCHANGED allVars
  <2>1. UNCHANGED <<serviceQueue, known, service, point, pc, state>>
    BY <1>6 DEF allVars, serviceVars, vars, workerVars, runtimeVars
  <2> QED
    BY <1>1, <2>1, ServicesSame
    DEF ServiceInv, PlacesInv, ServiceTypes, ServiceFits, NobodyAtWork
<1> QED
  BY <1>2, <1>3, <1>4, <1>5, <1>6 DEF ServicesNext

-----------------------------------------------------------------------------
(* The theorems.                                                           *)

\* Where the services are, in every reachable state.
THEOREM ServicePlacement == ServicesSpec => []ServiceInv
<1>1. ServiceInv /\ [ServicesNext]_allVars => ServiceInv'
  BY ServicesNextInv
<1> QED
  BY <1>1, ServicesInitInv, PTL DEF ServicesSpec

\* However many executors there are: no service is executed by two of them at
\* once, waits while it is executed, or is lost.
THEOREM OneServicePlaceHolds == ServicesSpec => []OneServicePlace
<1>1. ASSUME ServiceInv PROVE OneServicePlace
  <2> USE <1>1 DEF ServiceInv, PlacesInv, ServicesApart, KnownServices, In
  <2> SUFFICES ASSUME NEW s \in known
               PROVE  \/ /\ \A e \in Executor : service[e] # s
                         /\ \E i \in DOMAIN serviceQueue :
                              \A j \in DOMAIN serviceQueue :
                                serviceQueue[j] = s <=> j = i
                      \/ /\ \A i \in DOMAIN serviceQueue : serviceQueue[i] # s
                         /\ \E e \in Executor :
                              \A f \in Executor : service[f] = s <=> f = e
    BY DEF OneServicePlace
  <2>1. s \in Service /\ s # NoService
    BY ServiceAssumption DEF ServiceTypes
  <2>2. CASE In(serviceQueue, s)
    BY <2>2 DEF Distinct
  <2>3. CASE \E e \in Executor : service[e] = s
    BY <2>1, <2>3
  <2> QED
    BY <2>1, <2>2, <2>3
<1> QED
  BY <1>1, ServicePlacement, PTL

\* No service is still executed when await() has returned, and none is missing
\* from the queue at the next run().
THEOREM ServicesRestHolds == ServicesSpec => []ServicesRest
<1>1. ASSUME ServiceInv PROVE ServicesRest
  <2> USE <1>1 DEF ServiceInv, PlacesInv
  <2> SUFFICES ASSUME state # "running", NEW s \in known
               PROVE  In(serviceQueue, s)
    BY DEF ServicesRest, In
  <2>1. \A e \in Executor : service[e] = NoService
    BY DEF NobodyAtWork, ServiceFits, Executor, WithService
  <2>2. s \in Service /\ s # NoService
    BY ServiceAssumption DEF ServiceTypes
  <2> QED
    BY <2>1, <2>2 DEF KnownServices
<1> QED
  BY <1>1, ServicePlacement, PTL

\* What is proved of the tasks holds whatever services are run meanwhile: a task
\* is in one place.
THEOREM OnePlaceWithServices ==
  OrderlyClient => (ServicesSpec => []OnePlace)
  BY SchedulerUndisturbed, OnePlaceHolds, PTL

\* The count on which service workers terminate, too, is that of the tasks that
\* are left.
THEOREM CountWithServices ==
  OrderlyClient => (ServicesSpec => []CountIsAccurate)
  BY SchedulerUndisturbed, CountIsAccurateHolds, PTL

\* The scheduler keeps the promise of the task graph with services, too, by
\* whichever workers they are run.
THEOREM TaskGraphWithServices ==
  OrderlyClient /\ ~Allowed("externalAdd") => (ServicesSpec => ImplementsTaskGraph)
  BY SchedulerUndisturbed, RuntimeImplementsTaskGraph, PTL

=============================================================================
